-------------------------- MODULE MakerSwapProofs --------------------------
(***************************************************************************)
(* What the proofs about both sides of the swap share (the types of the    *)
(* data, what a step may do to the chains, and that nothing an event       *)
(* promises is ever taken back), and the maker's side of the inductive     *)
(* step: every handler, every save and every restart keeps the maker's log *)
(* and program counter in agreement with the chains.                       *)
(***************************************************************************)
EXTENDS AtomicSwapInduction, TLAPS

\* Zenon is the quicker of the two provers here, SMT the one that knows numbers and records.
USE ZenonT(30), SMTT(30)

-----------------------------------------------------------------------------
(* Data.                                                                   *)

\* The lock duration of the maker payment is a number of ticks.
LEMMA MakerLockDurationNat == MakerLockDuration \in Nat
BY SMT, LockAssumption DEF MakerLockDuration, MultiplierHalves

\* A deadline computed by recv_swap_msg is a time.
LEMMA WaitUntilNat ==
  ASSUME NEW timeout \in Nat, now \in Nat
  PROVE  WaitUntil(timeout) \in Nat
BY SMT, BoundAssumption DEF WaitUntil

\* The wait for the taker payment has a length.
LEMMA RecvTimeoutNat == TakerPaymentRecvTimeout \in Nat
BY SMT, LockAssumption DEF TakerPaymentRecvTimeout

\* The negotiation messages on the topic carry times.
LEMMA NegotiationMessageNat ==
  ASSUME NEW msg \in SwapMsg, msg.kind \in {"Negotiation", "NegotiationReply"}
  PROVE  msg.started_at \in Nat /\ msg.payment_locktime \in Nat
BY DEF SwapMsg, PlainMessages, NegotiatedMessages, NegotiationMessages

\* The topic takes every message the handlers build.
LEMMA MessageType ==
  /\ \A k \in {"TakerFee", "MakerPayment", "TakerPayment"} : [kind |-> k] \in SwapMsg
  /\ \A b \in BOOLEAN : [kind |-> "Negotiated", ok |-> b] \in SwapMsg
  /\ \A k \in {"Negotiation", "NegotiationReply"}, s \in Nat, l \in Nat :
       [kind |-> k, started_at |-> s, payment_locktime |-> l] \in SwapMsg
BY DEF SwapMsg, PlainMessages, NegotiatedMessages, NegotiationMessages

-----------------------------------------------------------------------------
(* The chains.                                                             *)

ChainTypeOK ==
  /\ htlc \in [Payments -> HtlcStates]
  /\ lock \in [Payments -> Nat]
  /\ paid \in [Transfers -> Nat]

\* A payment is given back.
Returned(p) ==
  /\ Unclaimed(p)
  /\ \E state \in {"refunding", "refunded"} : htlc' = [htlc EXCEPT ![p] = state]
  /\ UNCHANGED <<lock, paid>>

\* A block is mined.
Mined(p) ==
  /\ \/ htlc[p] = "mempool" /\ htlc' = [htlc EXCEPT ![p] = "confirmed"]
     \/ htlc[p] = "spending" /\ htlc' = [htlc EXCEPT ![p] = "spent"]
     \/ htlc[p] = "refunding" /\ htlc' = [htlc EXCEPT ![p] = "refunded"]
  /\ UNCHANGED <<lock, paid>>

Locked(p) ==
  ~OnChain(p) /\ \E locktime \in Nat : SendPayment(p, locktime)

Claimed(p) == Unclaimed(p) /\ SpendPayment(p)

\* Everything a step may do to the chains.
ChainStep ==
  \/ ChainUnchanged
  \/ FeeSent
  \/ \E p \in Payments : Locked(p) \/ Claimed(p) \/ Returned(p) \/ Mined(p)

\* The chains keep their types.
LEMMA ChainStepType ==
  ASSUME ChainTypeOK, ChainStep
  PROVE  ChainTypeOK'
<1>. USE DEF ChainTypeOK, HtlcStates
<1>1. CASE ChainUnchanged
  BY <1>1 DEF ChainUnchanged
<1>2. CASE FeeSent
  BY SMT, <1>2 DEF FeeSent, Transfers
<1>3. ASSUME NEW p \in Payments, Locked(p) PROVE ChainTypeOK'
  BY SMT, <1>3 DEF Locked, SendPayment, Transfers
<1>4. ASSUME NEW p \in Payments, Claimed(p) PROVE ChainTypeOK'
  BY <1>4 DEF Claimed, SpendPayment
<1>5. ASSUME NEW p \in Payments, Returned(p) PROVE ChainTypeOK'
  BY <1>5 DEF Returned
<1>6. ASSUME NEW p \in Payments, Mined(p) PROVE ChainTypeOK'
  BY <1>6 DEF Mined
<1>. QED  BY <1>1, <1>2, <1>3, <1>4, <1>5, <1>6 DEF ChainStep

\* What a step never takes back: neither from the chains nor from the databases.
Grows ==
  /\ \A p \in Payments : /\ OnChain(p) => OnChain(p)'
                         /\ Confirmed(p) => Confirmed(p)'
                         /\ Spent(p) => Spent(p)'
                         /\ Refunded(p) => Refunded(p)'
  /\ paid["taker_fee"] > 0 => paid'["taker_fee"] > 0
  /\ m_saved \subseteq m_saved'
  /\ t_saved \subseteq t_saved'

\* The chains never take anything back.
LEMMA ChainStepGrows ==
  ASSUME ChainTypeOK, ChainStep, m_saved \subseteq m_saved', t_saved \subseteq t_saved'
  PROVE  Grows
<1>. USE DEF ChainTypeOK, HtlcStates, Grows, OnChain, Confirmed, Spent, Refunded
<1>1. CASE ChainUnchanged
  BY <1>1 DEF ChainUnchanged
<1>2. CASE FeeSent
  BY SMT, <1>2 DEF FeeSent, Transfers
<1>3. ASSUME NEW p \in Payments, Locked(p) PROVE Grows
  BY <1>3 DEF Locked, SendPayment, Transfers, Payments
<1>4. ASSUME NEW p \in Payments, Claimed(p) PROVE Grows
  BY <1>4 DEF Claimed, SpendPayment, Unclaimed
<1>5. ASSUME NEW p \in Payments, Returned(p) PROVE Grows
  BY <1>5 DEF Returned, Unclaimed
<1>6. ASSUME NEW p \in Payments, Mined(p) PROVE Grows
  BY <1>6 DEF Mined
<1>. QED  BY <1>1, <1>2, <1>3, <1>4, <1>5, <1>6 DEF ChainStep

\* What an event promised stays true, in this log and in every longer one.
LEMMA MakerEventStays ==
  ASSUME Grows, NEW event, NEW log, NEW longer, log \subseteq longer,
         MakerEventOK(event, log)
  PROVE  MakerEventOK(event, longer)'
BY DEF MakerEventOK, MakerEventBacked, Grows, Payments

\* The same for the taker's events.
LEMMA TakerEventStays ==
  ASSUME Grows, NEW event, NEW log, NEW longer, log \subseteq longer,
         TakerEventOK(event, log)
  PROVE  TakerEventOK(event, longer)'
BY DEF TakerEventOK, TakerEventBacked, Grows, Payments

\* So do the messages in flight, when no other is added.
LEMMA NetStays ==
  ASSUME NetInv, Grows, UNCHANGED net
  PROVE  NetInv'
BY DEF NetInv, Grows, Payments

-----------------------------------------------------------------------------
(* The order of the events.                                                *)

\* Saving an event that may follow keeps the log ordered.
LEMMA SavedOrdered ==
  ASSUME NEW last, NEW log, NEW early, NEW gaveUp, NEW event,
         LogOrdered(last, log, early, gaveUp), Follows(event, log, early, gaveUp),
         event # "NoEvent", early \cap gaveUp = {}
  PROVE  LogOrdered(event, log \cup {event}, early, gaveUp)
BY DEF LogOrdered, Follows

\* A shorter log is as good.
LEMMA FollowsShorter ==
  ASSUME NEW event, NEW log, NEW shorter, NEW early, NEW gaveUp,
         Follows(event, log, early, gaveUp), shorter \subseteq log
  PROVE  Follows(event, shorter, early, gaveUp)
BY DEF Follows

\* Saving the head of a batch moves it from the batch into the log.
LEMMA UptoTail ==
  ASSUME NEW S, NEW batch \in Seq(S), batch # <<>>, NEW log, NEW n \in 1..Len(Tail(batch))
  PROVE  /\ Tail(batch)[n] = batch[n + 1] /\ n + 1 \in 1..Len(batch)
         /\ Upto(log \cup {Head(batch)}, Tail(batch), n - 1) \subseteq Upto(log, batch, n)
<1>1. Tail(batch)[n] = batch[n + 1] /\ n + 1 \in 1..Len(batch) /\ Head(batch) = batch[1]
  BY SMT
<1>2. ASSUME NEW i \in 1..(n - 1) PROVE Tail(batch)[i] = batch[i + 1] /\ i + 1 \in 1..n
  BY SMT, <1>1
<1>3. 1 \in 1..n
  BY SMT
<1>. QED  BY SMT, <1>1, <1>2, <1>3 DEF Upto

-----------------------------------------------------------------------------
(* The maker's log and program counter.                                    *)

MakerControlTypeOK ==
  /\ m_pc \in MakerCommands \cup MakerAwaits \cup {"Saving", "None", "Down", "Lost"}
  /\ m_next \in MakerCommands \cup {"None"}
  /\ m_pending \in Seq(MakerEvents)
  /\ m_saved \subseteq MakerEvents
  /\ m_last \in m_saved \cup {"NoEvent"}
  /\ m_deadline \in Nat

MakerDataTypeOK ==
  /\ m_started_at \in Nat
  /\ m_taker_lock \in Nat
  /\ m_reward \in BOOLEAN

MakerSide == MakerControlTypeOK /\ MakerLogInv /\ MakerControlInv

-----------------------------------------------------------------------------
(* The tables of get_command and of what the handlers rely on.             *)

\* get_command returns a command or None.
LEMMA MakerGetCommandType == \A event : MakerGetCommand(event) \in MakerCommands \cup {"None"}
BY DEF MakerGetCommand, MakerCommands

\* get_command, event by event.
LEMMA MakerCommandTable ==
  /\ MakerGetCommand("Started") = "Negotiate"
  /\ MakerGetCommand("Negotiated") = "WaitForTakerFee"
  /\ MakerGetCommand("MakerPaymentInstructionsReceived") = "WaitForTakerFee"
  /\ MakerGetCommand("TakerFeeValidated") = "SendPayment"
  /\ MakerGetCommand("MakerPaymentSent") = "WaitForTakerPayment"
  /\ MakerGetCommand("TakerPaymentReceived") = "ValidateTakerPayment"
  /\ MakerGetCommand("TakerPaymentWaitConfirmStarted") = "ValidateTakerPayment"
  /\ MakerGetCommand("TakerPaymentValidatedAndConfirmed") = "SpendTakerPayment"
  /\ MakerGetCommand("TakerPaymentSpent") = "ConfirmTakerPaymentSpend"
  /\ MakerGetCommand("TakerPaymentSpendConfirmStarted") = "ConfirmTakerPaymentSpend"
  /\ \A event \in MakerRefundEvents :
       MakerGetCommand(event) = "PrepareForMakerPaymentRefund"
  /\ MakerGetCommand("MakerPaymentRefundStarted") = "RefundMakerPayment"
  /\ MakerGetCommand("MakerPaymentRefunded") = "FinalizeMakerPaymentRefund"
  /\ \A event \in MakerFinishEvents : MakerGetCommand(event) = "Finish"
  /\ MakerGetCommand("Finished") = "None"
  /\ MakerGetCommand("NoEvent") = "None"
BY DEF MakerGetCommand, MakerRefundEvents, MakerFinishEvents

\* What the handlers rely on, command by command.
LEMMA MakerRequiresTable ==
  /\ MakerRequires("Negotiate") = {"Started"}
  /\ MakerRequires("WaitForTakerFee") = {"Started", "Negotiated"}
  /\ MakerRequires("SendPayment") = {"Started", "Negotiated", "TakerFeeValidated"}
  /\ MakerRequires("WaitForTakerPayment") = {"Started", "Negotiated", "MakerPaymentSent"}
  /\ MakerRequires("PrepareForMakerPaymentRefund") = {"Started", "Negotiated", "MakerPaymentSent"}
  /\ MakerRequires("RefundMakerPayment") = {"Started", "Negotiated", "MakerPaymentSent"}
  /\ MakerRequires("FinalizeMakerPaymentRefund") = {"Started", "Negotiated", "MakerPaymentSent"}
  /\ MakerRequires("ValidateTakerPayment")
       = {"Started", "Negotiated", "MakerPaymentSent", "TakerPaymentReceived"}
  /\ MakerRequires("SpendTakerPayment")
       = {"Started", "Negotiated", "MakerPaymentSent", "TakerPaymentReceived",
          "TakerPaymentValidatedAndConfirmed"}
  /\ MakerRequires("ConfirmTakerPaymentSpend")
       = {"Started", "Negotiated", "MakerPaymentSent", "TakerPaymentReceived",
          "TakerPaymentValidatedAndConfirmed", "TakerPaymentSpent"}
  /\ MakerRequires("Finish") = {}
  /\ MakerRequires("None") = {}
BY DEF MakerRequires

\* The events behind the program counter are in the database.
LEMMA MakerAt ==
  ASSUME MakerSide, m_pc \in (MakerCommands \cup MakerAwaits) \ {"Start"}
  PROVE  MakerRequires(MakerCommandAt(m_pc)) \subseteq m_saved
BY DEF MakerSide, MakerControlInv, MakerLogInv, MakerEventOK

\* The same, spelled out for each program counter.
LEMMA MakerPaths ==
  ASSUME MakerSide
  PROVE
  /\ m_pc \in {"Negotiate", "Negotiate.recv"} => "Started" \in m_saved
  /\ m_pc \in {"WaitForTakerFee", "WaitForTakerFee.recv"}
       => {"Started", "Negotiated"} \subseteq m_saved
  /\ m_pc \in {"SendPayment", "SendPayment.send"}
       => {"Started", "Negotiated", "TakerFeeValidated"} \subseteq m_saved
  /\ m_pc \in {"WaitForTakerPayment", "WaitForTakerPayment.confirm",
               "WaitForTakerPayment.recv", "PrepareForMakerPaymentRefund",
               "RefundMakerPayment", "FinalizeMakerPaymentRefund"}
       => {"Started", "Negotiated", "MakerPaymentSent"} \subseteq m_saved
  /\ m_pc = "ValidateTakerPayment"
       => {"Started", "Negotiated", "MakerPaymentSent", "TakerPaymentReceived"} \subseteq m_saved
  /\ m_pc \in {"SpendTakerPayment", "SpendTakerPayment.send"}
       => {"Started", "Negotiated", "MakerPaymentSent", "TakerPaymentReceived",
           "TakerPaymentValidatedAndConfirmed"} \subseteq m_saved
  /\ m_pc = "ConfirmTakerPaymentSpend"
       => {"Started", "Negotiated", "MakerPaymentSent", "TakerPaymentReceived", "TakerPaymentSpent"}
            \subseteq m_saved
<1>. USE MakerAt, MakerRequiresTable DEF MakerCommandAt, MakerCommands, MakerAwaits
<1>1. /\ m_pc \in {"Negotiate", "Negotiate.recv"} => "Started" \in m_saved
      /\ m_pc \in {"WaitForTakerFee", "WaitForTakerFee.recv"}
           => {"Started", "Negotiated"} \subseteq m_saved
  OBVIOUS
<1>2. m_pc \in {"SendPayment", "SendPayment.send"}
       => {"Started", "Negotiated", "TakerFeeValidated"} \subseteq m_saved
  OBVIOUS
<1>3. m_pc \in {"WaitForTakerPayment", "WaitForTakerPayment.confirm",
                "WaitForTakerPayment.recv", "PrepareForMakerPaymentRefund",
                "RefundMakerPayment", "FinalizeMakerPaymentRefund"}
       => {"Started", "Negotiated", "MakerPaymentSent"} \subseteq m_saved
  OBVIOUS
<1>4. m_pc = "ValidateTakerPayment"
       => {"Started", "Negotiated", "MakerPaymentSent", "TakerPaymentReceived"} \subseteq m_saved
  OBVIOUS
<1>5. m_pc \in {"SpendTakerPayment", "SpendTakerPayment.send"}
       => {"Started", "Negotiated", "MakerPaymentSent", "TakerPaymentReceived",
           "TakerPaymentValidatedAndConfirmed"} \subseteq m_saved
  OBVIOUS
<1>6. m_pc = "ConfirmTakerPaymentSpend"
       => {"Started", "Negotiated", "MakerPaymentSent", "TakerPaymentReceived", "TakerPaymentSpent"}
            \subseteq m_saved
  OBVIOUS
<1>. QED  BY <1>1, <1>2, <1>3, <1>4, <1>5, <1>6

-----------------------------------------------------------------------------
(* The three ways a handler step ends.                                     *)

\* A handler returns one event, which keeps its promise.
LEMMA MakerReturnOne ==
  ASSUME MakerSide, Grows, NEW a \in MakerEvents,
         MakerReturn(MakerGetCommand(a), <<a>>), MakerEventOK(a, m_saved \cup {a})'
  PROVE  MakerSide'
<1>1. MakerControlTypeOK'
  BY SMT, MakerGetCommandType DEF MakerSide, MakerControlTypeOK, MakerReturn
<1>2. /\ m_saved' = m_saved
      /\ m_pending' = <<a>>
      /\ m_pc' = "Saving"
      /\ m_next' = MakerGetCommand(a)
  BY DEF MakerReturn
<1>3. MakerLogInv'
  <2>1. ASSUME NEW e \in m_saved PROVE MakerEventOK(e, m_saved)'
    BY <1>2, MakerEventStays DEF MakerSide, MakerLogInv
  <2>2. ASSUME NEW n \in 1..Len(m_pending')
        PROVE  MakerEventOK(m_pending[n], Upto(m_saved, m_pending, n))'
    <3>1. n = 1 /\ m_pending'[n] = a  BY SMT, <1>2
    <3>2. Upto(m_saved', m_pending', n) = m_saved' \cup {a} BY SMT, <3>1, <1>2 DEF Upto
    <3>. QED  BY <3>1, <3>2
  <2>. QED  BY <1>2, <2>1, <2>2 DEF MakerLogInv
<1>4. MakerControlInv'
  BY <1>2 DEF MakerControlInv, MakerCommands, MakerAwaits
<1>. QED  BY <1>1, <1>3, <1>4 DEF MakerSide

\* A handler returns two events, which keep their promises in this order.
LEMMA MakerReturnTwo ==
  ASSUME MakerSide, Grows, NEW a \in MakerEvents, NEW b \in MakerEvents,
         MakerReturn(MakerGetCommand(b), <<a, b>>),
         MakerEventOK(a, m_saved \cup {a})', MakerEventOK(b, m_saved \cup {a, b})'
  PROVE  MakerSide'
<1>1. MakerControlTypeOK'
  BY SMT, MakerGetCommandType DEF MakerSide, MakerControlTypeOK, MakerReturn
<1>2. /\ m_saved' = m_saved
      /\ m_pending' = <<a, b>>
      /\ m_pc' = "Saving"
      /\ m_next' = MakerGetCommand(b)
  BY DEF MakerReturn
<1>3. MakerLogInv'
  <2>1. ASSUME NEW e \in m_saved PROVE MakerEventOK(e, m_saved)'
    BY <1>2, MakerEventStays DEF MakerSide, MakerLogInv
  <2>2. ASSUME NEW n \in 1..Len(m_pending')
        PROVE  MakerEventOK(m_pending[n], Upto(m_saved, m_pending, n))'
    <3>1. CASE n = 1
      <4>1. m_pending'[n] = a  BY <1>2, <3>1
      <4>2. Upto(m_saved', m_pending', n) = m_saved' \cup {a} BY SMT, <3>1, <1>2 DEF Upto
      <4>. QED  BY <4>1, <4>2
    <3>2. CASE n = 2
      <4>1. m_pending'[n] = b  BY <1>2, <3>2
      <4>2. {m_pending'[i] : i \in 1..2} = {a, b} BY SMT, <1>2
      <4>3. Upto(m_saved', m_pending', n) = m_saved' \cup {a, b} BY <3>2, <4>2 DEF Upto
      <4>. QED  BY <4>1, <4>3
    <3>. QED  BY SMT, <1>2, <3>1, <3>2
  <2>. QED  BY <1>2, <2>1, <2>2 DEF MakerLogInv
<1>4. MakerControlInv'
  BY <1>2 DEF MakerControlInv, MakerCommands, MakerAwaits
<1>. QED  BY <1>1, <1>3, <1>4 DEF MakerSide

\* A handler reaches its next await.
LEMMA MakerAwaitSide ==
  ASSUME MakerSide, Grows, NEW pc \in MakerAwaits, NEW deadline \in Nat,
         MakerAwait(pc, deadline), m_pc \in (MakerCommands \cup MakerAwaits) \ {"Start"},
         MakerCommandAt(pc) = MakerCommandAt(m_pc)
  PROVE  MakerSide'
<1>1. MakerControlTypeOK'
  BY DEF MakerSide, MakerControlTypeOK, MakerAwait
<1>2. UNCHANGED <<m_saved, m_last, m_pending>> /\ m_pc' = pc
  BY DEF MakerAwait
<1>3. m_pending = <<>>
  BY DEF MakerSide, MakerControlInv, MakerCommands, MakerAwaits
<1>4. MakerLogInv'
  <2>1. ASSUME NEW e \in m_saved PROVE MakerEventOK(e, m_saved)'
    BY <1>2, MakerEventStays DEF MakerSide, MakerLogInv
  <2>. QED  BY SMT, <1>2, <1>3, <2>1 DEF MakerLogInv
<1>5. MakerControlInv'
  BY <1>2, <1>3 DEF MakerSide, MakerControlInv, MakerCommands, MakerAwaits
<1>. QED  BY <1>1, <1>4, <1>5 DEF MakerSide

\* A handler gives up; nothing is promised.
LEMMA MakerFails ==
  ASSUME MakerSide, Grows,
         NEW event \in MakerFinishEvents \ {"TakerPaymentSpendConfirmed"},
         MakerReturn("Finish", <<event>>)
  PROVE  MakerSide'
<1>1. event \in MakerEvents /\ MakerGetCommand(event) = "Finish"
  BY MakerCommandTable DEF MakerFinishEvents, MakerEvents
<1>2. MakerEventOK(event, m_saved \cup {event})'
  BY <1>1, MakerRequiresTable DEF MakerFinishEvents, MakerEventOK, MakerEventBacked
<1>. QED  BY <1>1, <1>2, MakerReturnOne

\* A handler gives up after the payment was sent; the refund finds it.
LEMMA MakerFailsToRefund ==
  ASSUME MakerSide, Grows, {"Started", "Negotiated", "MakerPaymentSent"} \subseteq m_saved,
         NEW event \in MakerRefundEvents, MakerReturnRefund(event)
  PROVE  MakerSide'
<1>. DEFINE wait == "MakerPaymentWaitRefundStarted"
<1>1. /\ event \in MakerEvents /\ MakerGetCommand(event) = "PrepareForMakerPaymentRefund"
      /\ wait \in MakerEvents /\ MakerGetCommand(wait) = "PrepareForMakerPaymentRefund"
  BY MakerCommandTable DEF MakerRefundEvents, MakerEvents
<1>2. MakerEventOK(event, m_saved \cup {event})'
  BY <1>1, MakerRequiresTable
  DEF Grows, MakerRefundEvents, MakerEventOK, MakerEventBacked
<1>3. MakerEventOK(wait, m_saved \cup {event, wait})'
  BY <1>1, MakerRequiresTable DEF Grows, MakerEventOK, MakerEventBacked
<1>. QED  BY <1>1, <1>2, <1>3, MakerReturnTwo DEF MakerReturnRefund

-----------------------------------------------------------------------------
(* The driver.                                                             *)

\* Saving an event moves its promise from the batch into the log.
LEMMA MakerSaveSide ==
  ASSUME MakerSide, Grows, MakerSaveEvent
  PROVE  MakerSide'
<1>0. PICK head : head = Head(m_pending)
  OBVIOUS
<1>1. /\ m_pc = "Saving"
      /\ m_pending \in Seq(MakerEvents) /\ m_pending # <<>>
      /\ m_next = MakerGetCommand(m_pending[Len(m_pending)])
  BY DEF MakerSaveEvent, MakerSide, MakerControlTypeOK, MakerControlInv
<1>2. /\ m_saved' = m_saved \cup {head}
      /\ m_last' = head
      /\ m_pending' = Tail(m_pending)
      /\ UNCHANGED m_deadline
  BY <1>0 DEF MakerSaveEvent, MakerSaved
<1>3. /\ head \in MakerEvents /\ head = m_pending[1]
      /\ m_pending' \in Seq(MakerEvents)
      /\ Len(m_pending') = Len(m_pending) - 1
      /\ \A n \in 1..Len(m_pending') : m_pending'[n] = m_pending[n + 1]
  BY SMT, <1>0, <1>1, <1>2
<1>4. MakerControlTypeOK'
  BY <1>1, <1>2, <1>3 DEF MakerSaveEvent, MakerSide, MakerControlTypeOK
<1>5. MakerLogInv'
  <2>1. ASSUME NEW event \in m_saved PROVE MakerEventOK(event, m_saved)'
    BY <1>2, MakerEventStays DEF MakerSide, MakerLogInv
  <2>2. MakerEventOK(head, m_saved)'
    <3>1. MakerEventOK(head, Upto(m_saved, m_pending, 1))
      BY SMT, <1>1, <1>3 DEF MakerSide, MakerLogInv
    <3>2. Upto(m_saved, m_pending, 1) \subseteq m_saved'
      BY SMT, <1>2, <1>3 DEF Upto
    <3>. QED  BY <3>1, <3>2, MakerEventStays
  <2>3. ASSUME NEW n \in 1..Len(m_pending')
        PROVE  MakerEventOK(m_pending[n], Upto(m_saved, m_pending, n))'
    <3>1. MakerEventOK(m_pending[n + 1], Upto(m_saved, m_pending, n + 1))
      BY SMT, <1>1, <1>3 DEF MakerSide, MakerLogInv
    <3>2. Upto(m_saved, m_pending, n + 1) \subseteq Upto(m_saved', m_pending', n)
      <4>1. ASSUME NEW i \in 1..(n + 1), i # 1
            PROVE  i - 1 \in 1..n /\ m_pending'[i - 1] = m_pending[i]
        BY SMT, <1>1, <1>3, <4>1
      <4>2. ASSUME NEW i \in 1..(n + 1)
            PROVE  m_pending[i] \in Upto(m_saved', m_pending', n)
        BY <1>2, <1>3, <4>1 DEF Upto
      <4>3. m_saved \subseteq Upto(m_saved', m_pending', n)
        BY <1>2 DEF Upto
      <4>. QED  BY <4>2, <4>3 DEF Upto
    <3>3. m_pending'[n] = m_pending[n + 1]
      BY <1>3
    <3>. QED  BY <3>1, <3>2, <3>3, MakerEventStays
  <2>. QED  BY <1>2, <2>1, <2>2, <2>3 DEF MakerLogInv
<1>6. MakerControlInv'
  <2>1. CASE Len(m_pending) = 1
    <3>1. m_pending' = <<>> /\ m_pc' = MakerGetCommand(head)
      BY SMT, <1>1, <1>2, <1>3, <2>1 DEF MakerSaveEvent
    <3>2. MakerCommandAt(m_pc') = m_pc'
      BY <3>1, MakerGetCommandType DEF MakerCommandAt, MakerCommands
    <3>3. m_pc' \notin {"Saving", "Lost"}
      BY <3>1, MakerGetCommandType DEF MakerCommands
    <3>. QED  BY <1>2, <3>1, <3>2, <3>3 DEF MakerControlInv
  <2>2. CASE Len(m_pending) # 1
    <3>1. m_pending' # <<>> /\ m_pending'[Len(m_pending')] = m_pending[Len(m_pending)]
      BY SMT, <1>1, <1>3, <2>2
    <3>2. m_pc' = "Saving" /\ m_next' = m_next
      BY <1>1, <2>2 DEF MakerSaveEvent
    <3>. QED  BY <1>1, <3>1, <3>2 DEF MakerControlInv, MakerCommands, MakerAwaits
  <2>. QED  BY <2>1, <2>2
<1>. QED  BY <1>4, <1>5, <1>6 DEF MakerSide

\* A step that leaves the log alone and drops the batch keeps the log's promises.
LEMMA MakerLogStays ==
  ASSUME MakerSide, Grows, UNCHANGED m_saved, m_pending' = <<>>
  PROVE  MakerLogInv'
<1>1. ASSUME NEW event \in m_saved PROVE MakerEventOK(event, m_saved)'
  BY MakerEventStays DEF MakerSide, MakerLogInv
<1>. QED  BY SMT, <1>1 DEF MakerLogInv

\* A restart continues at the command of the last event.
LEMMA MakerKickStartSide ==
  ASSUME MakerSide, Grows, MakerKickStart
  PROVE  MakerSide'
<1>1. /\ m_pc = "Down" /\ m_pc' = MakerGetCommand(m_last)
      /\ m_pending = <<>>
      /\ UNCHANGED <<m_next, m_pending, m_saved, m_last, m_deadline>>
  BY DEF MakerKickStart, MakerSide, MakerControlInv
<1>2. MakerControlTypeOK'
  BY <1>1, MakerGetCommandType DEF MakerSide, MakerControlTypeOK
<1>3. MakerLogInv'
  BY <1>1, MakerLogStays
<1>4. MakerControlInv'
  <2>1. m_pc' \in MakerCommands => m_last \in m_saved
    BY <1>1, MakerCommandTable DEF MakerSide, MakerControlTypeOK, MakerCommands
  <2>2. MakerCommandAt(m_pc') = m_pc'
    BY <1>1, MakerGetCommandType DEF MakerCommandAt, MakerCommands
  <2>. QED  BY <1>1, <2>1, <2>2, MakerGetCommandType
            DEF MakerControlInv, MakerCommands, MakerAwaits
<1>. QED  BY <1>2, <1>3, <1>4 DEF MakerSide

\* A crash loses the batch and nothing else that was promised.
LEMMA MakerCrashSide ==
  ASSUME MakerSide, MakerDataTypeOK, Grows, MakerCrash
  PROVE  MakerSide' /\ MakerDataTypeOK'
<1>1. MakerControlTypeOK'
  BY SMT DEF MakerCrash, MakerSide, MakerControlTypeOK
<1>2. MakerLogInv'
  BY MakerLogStays DEF MakerCrash
<1>3. MakerControlInv'
  BY DEF MakerCrash, MakerControlInv, MakerCommands, MakerAwaits
<1>4. MakerDataTypeOK'
  BY DEF MakerCrash, MakerDataTypeOK
<1>. QED  BY <1>1, <1>2, <1>3, <1>4 DEF MakerSide

-----------------------------------------------------------------------------
(* The handlers.                                                           *)

\* Every handler keeps the maker's side.
LEMMA MakerHandlerSide ==
  ASSUME MakerSide, MakerDataTypeOK, ChainTypeOK, now \in Nat, NetInv, Grows,
         MakerHandler
  PROVE  MakerSide'
<1>. USE DEF MakerFinishEvents, MakerRefundEvents
<1>1. CASE MakerStart
  <2>1. CASE MakerReturn("Negotiate", <<"Started">>)
    BY <2>1, MakerReturnOne, MakerCommandTable, MakerRequiresTable
    DEF MakerEvents, MakerEventOK, MakerEventBacked
  <2>. QED  BY <1>1, <2>1, MakerFails DEF MakerStart
<1>2. CASE MakerNegotiate
  BY <1>2, MakerAwaitSide, WaitUntilNat, LockAssumption
  DEF MakerNegotiate, MakerCommandAt, MakerCommands, MakerAwaits
<1>3. CASE MakerNegotiateRecv
  <2>1. "Started" \in m_saved
    BY <1>3, MakerPaths DEF MakerNegotiateRecv
  <2>2. CASE MakerReturn("WaitForTakerFee", <<"Negotiated">>)
    BY <2>1, <2>2, MakerReturnOne, MakerCommandTable, MakerRequiresTable
    DEF Grows, MakerEvents, MakerEventOK, MakerEventBacked
  <2>. QED  BY <1>3, <2>2, MakerFails DEF MakerNegotiateRecv, MakerNegotiateFailed
<1>4. CASE MakerNegotiateTimeout
  BY <1>4, MakerFails DEF MakerNegotiateTimeout, MakerNegotiateFailed
<1>5. CASE MakerWaitTakerFee
  BY <1>5, MakerAwaitSide, WaitUntilNat, LockAssumption
  DEF MakerWaitTakerFee, MakerCommandAt, MakerCommands, MakerAwaits
<1>6. CASE MakerWaitTakerFeeRecv
  <2>1. {"Started", "Negotiated"} \subseteq m_saved /\ paid["taker_fee"] > 0
    BY <1>6, MakerPaths DEF MakerWaitTakerFeeRecv, Received, NetInv
  <2>2. CASE MakerReturn("SendPayment",
                         <<"MakerPaymentInstructionsReceived", "TakerFeeValidated">>)
    <3>1. MakerEventOK("MakerPaymentInstructionsReceived",
                       m_saved \cup {"MakerPaymentInstructionsReceived"})'
      BY <2>1, MakerCommandTable, MakerRequiresTable
      DEF Grows, MakerEventOK, MakerEventBacked
    <3>2. MakerEventOK("TakerFeeValidated",
                       m_saved \cup {"MakerPaymentInstructionsReceived",
                                     "TakerFeeValidated"})'
      BY <2>1, MakerCommandTable, MakerRequiresTable
      DEF Grows, MakerEventOK, MakerEventBacked
    <3>. QED  BY <2>2, <3>1, <3>2, MakerReturnTwo, MakerCommandTable DEF MakerEvents
  <2>. QED  BY <1>6, <2>2, MakerFails DEF MakerWaitTakerFeeRecv
<1>7. CASE MakerWaitTakerFeeTimeout
  BY <1>7, MakerFails DEF MakerWaitTakerFeeTimeout
<1>8. CASE MakerSendPayment
  <2>1. CASE m_pc = "SendPayment" /\ MakerAwait("SendPayment.send", 0)
    BY <2>1, MakerAwaitSide DEF MakerCommandAt, MakerCommands, MakerAwaits
  <2>. QED  BY <1>8, <2>1, MakerFails DEF MakerSendPayment
<1>9. CASE MakerSendPaymentSend
  <2>1. {"Started", "Negotiated"} \subseteq m_saved
    BY <1>9, MakerPaths DEF MakerSendPaymentSend
  <2>2. CASE MakerPaymentFound /\ MakerReturn("WaitForTakerPayment", <<"MakerPaymentSent">>)
    <3>1. OnChain("maker_payment")'
      BY <2>2 DEF MakerPaymentFound, ChainUnchanged, SendPayment, OnChain, ChainTypeOK, Payments
    <3>2. MakerEventOK("MakerPaymentSent", m_saved \cup {"MakerPaymentSent"})'
      BY <2>1, <3>1, MakerCommandTable, MakerRequiresTable
      DEF Grows, MakerEventOK, MakerEventBacked
    <3>. QED  BY <2>2, <3>2, MakerReturnOne, MakerCommandTable DEF MakerEvents
  <2>. QED  BY <1>9, <2>2, MakerFails DEF MakerSendPaymentSend
<1>10. CASE MakerWaitForTakerPayment
  <2>1. m_pc = "WaitForTakerPayment" /\ {"Started", "Negotiated", "MakerPaymentSent"} \subseteq m_saved
    BY <1>10, MakerPaths DEF MakerWaitForTakerPayment
  <2>2. CASE MakerAwait("WaitForTakerPayment.confirm", 0)
    BY <2>1, <2>2, MakerAwaitSide DEF MakerCommandAt, MakerCommands, MakerAwaits
  <2>. QED  BY <1>10, <2>1, <2>2, MakerFailsToRefund DEF MakerWaitForTakerPayment
<1>11. CASE MakerPaymentWaitConfirm
  <2>1. /\ m_pc = "WaitForTakerPayment.confirm"
        /\ {"Started", "Negotiated", "MakerPaymentSent"} \subseteq m_saved
    BY <1>11, MakerPaths DEF MakerPaymentWaitConfirm
  <2>2. CASE MakerAwait("WaitForTakerPayment.recv", WaitUntil(TakerPaymentRecvTimeout))
    BY <2>1, <2>2, MakerAwaitSide, WaitUntilNat, RecvTimeoutNat
    DEF MakerCommandAt, MakerCommands, MakerAwaits
  <2>. QED  BY <1>11, <2>1, <2>2, MakerFailsToRefund DEF MakerPaymentWaitConfirm
<1>12. CASE MakerTakerPaymentRecv
  <2>1. {"Started", "Negotiated", "MakerPaymentSent"} \subseteq m_saved /\ OnChain("taker_payment")
    BY <1>12, MakerPaths DEF MakerTakerPaymentRecv, Received, NetInv
  <2>2. CASE MakerReturn("ValidateTakerPayment",
                         <<"TakerPaymentReceived", "TakerPaymentWaitConfirmStarted">>)
    <3>1. MakerEventOK("TakerPaymentReceived", m_saved \cup {"TakerPaymentReceived"})'
      BY <2>1, MakerCommandTable, MakerRequiresTable
      DEF Grows, Payments, MakerEventOK, MakerEventBacked
    <3>2. MakerEventOK("TakerPaymentWaitConfirmStarted",
                       m_saved \cup {"TakerPaymentReceived",
                                     "TakerPaymentWaitConfirmStarted"})'
      BY <2>1, MakerCommandTable, MakerRequiresTable
      DEF Grows, MakerEventOK, MakerEventBacked
    <3>. QED  BY <2>2, <3>1, <3>2, MakerReturnTwo, MakerCommandTable DEF MakerEvents
  <2>. QED  BY <1>12, <2>1, <2>2, MakerFailsToRefund DEF MakerTakerPaymentRecv
<1>13. CASE MakerTakerPaymentRecvTimeout
  BY <1>13, MakerPaths, MakerFailsToRefund DEF MakerTakerPaymentRecvTimeout
<1>14. CASE MakerValidateTakerPayment
  <2>1. {"Started", "Negotiated", "MakerPaymentSent", "TakerPaymentReceived"} \subseteq m_saved
    BY <1>14, MakerPaths DEF MakerValidateTakerPayment
  <2>2. CASE /\ Confirmed("taker_payment")
             /\ MakerReturn("SpendTakerPayment", <<"TakerPaymentValidatedAndConfirmed">>)
    BY <2>1, <2>2, MakerReturnOne, MakerCommandTable, MakerRequiresTable
    DEF Grows, Payments, MakerEvents, MakerEventOK, MakerEventBacked
  <2>3. \/ \E event \in MakerRefundEvents : MakerReturnRefund(event)
        \/ MakerReturn("Finish", <<"MakerPaymentTransactionFailed">>)
        \/ /\ Confirmed("taker_payment")
           /\ MakerReturn("SpendTakerPayment", <<"TakerPaymentValidatedAndConfirmed">>)
    BY <1>14 DEF MakerValidateTakerPayment, TakerPaymentConfirmedInTime
  <2>. QED  BY <2>1, <2>2, <2>3, MakerFails, MakerFailsToRefund
<1>15. CASE MakerSpendTakerPayment
  <2>1. m_pc = "SpendTakerPayment" /\ {"Started", "Negotiated", "MakerPaymentSent"} \subseteq m_saved
    BY <1>15, MakerPaths DEF MakerSpendTakerPayment
  <2>2. CASE MakerAwait("SpendTakerPayment.send", 0)
    BY <2>1, <2>2, MakerAwaitSide DEF MakerCommandAt, MakerCommands, MakerAwaits
  <2>. QED  BY <1>15, <2>1, <2>2, MakerFailsToRefund DEF MakerSpendTakerPayment
<1>16. CASE MakerSpendTakerPaymentSend
  <2>1. {"Started", "Negotiated", "MakerPaymentSent", "TakerPaymentReceived",
         "TakerPaymentValidatedAndConfirmed"} \subseteq m_saved
    BY <1>16, MakerPaths DEF MakerSpendTakerPaymentSend
  <2>2. CASE /\ SpendPayment("taker_payment")
             /\ MakerReturn("ConfirmTakerPaymentSpend",
                            <<"TakerPaymentSpent", "TakerPaymentSpendConfirmStarted">>)
    <3>1. Spent("taker_payment")'
      BY <2>2 DEF SpendPayment, Spent, ChainTypeOK, Payments
    <3>2. MakerEventOK("TakerPaymentSpent", m_saved \cup {"TakerPaymentSpent"})'
      BY <2>1, <3>1, MakerCommandTable, MakerRequiresTable
      DEF Grows, MakerEventOK, MakerEventBacked
    <3>3. MakerEventOK("TakerPaymentSpendConfirmStarted",
                       m_saved \cup {"TakerPaymentSpent",
                                     "TakerPaymentSpendConfirmStarted"})'
      BY <2>1, MakerCommandTable, MakerRequiresTable
      DEF Grows, MakerEventOK, MakerEventBacked
    <3>. QED  BY <2>2, <3>2, <3>3, MakerReturnTwo, MakerCommandTable DEF MakerEvents
  <2>. QED  BY <1>16, <2>1, <2>2, MakerFailsToRefund DEF MakerSpendTakerPaymentSend
<1>17. CASE MakerConfirmTakerPaymentSpend
  <2>1. {"Started", "Negotiated", "MakerPaymentSent", "TakerPaymentSpent"} \subseteq m_saved
    BY <1>17, MakerPaths DEF MakerConfirmTakerPaymentSpend
  <2>2. Spent("taker_payment")
    BY <2>1 DEF MakerSide, MakerLogInv, MakerEventOK, MakerEventBacked
  <2>3. CASE MakerReturn("Finish", <<"TakerPaymentSpendConfirmed">>)
    BY <2>2, <2>3, MakerReturnOne, MakerCommandTable, MakerRequiresTable
    DEF Grows, Payments, MakerEvents, MakerEventOK, MakerEventBacked
  <2>. QED  BY <1>17, <2>1, <2>3, MakerFailsToRefund DEF MakerConfirmTakerPaymentSpend
<1>18. CASE MakerPrepareForRefund
  <2>1. {"Started", "Negotiated", "MakerPaymentSent"} \subseteq m_saved
    BY <1>18, MakerPaths DEF MakerPrepareForRefund
  <2>. QED  BY <1>18, <2>1, MakerReturnOne, MakerCommandTable, MakerRequiresTable
            DEF MakerPrepareForRefund, Grows, MakerEvents, MakerEventOK, MakerEventBacked
<1>19. ASSUME m_pc = "RefundMakerPayment", Refunded("maker_payment")',
              MakerReturn("FinalizeMakerPaymentRefund", <<"MakerPaymentRefunded">>)
       PROVE  MakerSide'
  <2>1. {"Started", "Negotiated", "MakerPaymentSent"} \subseteq m_saved
    BY <1>19, MakerPaths
  <2>. QED  BY <1>19, <2>1, MakerReturnOne, MakerCommandTable, MakerRequiresTable
            DEF Grows, MakerEvents, MakerEventOK, MakerEventBacked
<1>20. CASE MakerWaitAutoRefund
  BY <1>19, <1>20, MakerFails DEF MakerWaitAutoRefund, Grows, Payments
<1>21. CASE MakerRefundPayment
  <2>1. CASE RefundPayment("maker_payment")
    <3>1. Refunded("maker_payment")'
      BY <2>1 DEF RefundPayment, Refunded, ChainTypeOK, Payments
    <3>. QED  BY <1>19, <1>21, <3>1, MakerFails DEF MakerRefundPayment
  <2>. QED  BY <1>21, <2>1, MakerFails DEF MakerRefundPayment
<1>22. CASE MakerFinalizeRefund
  BY <1>22, MakerFails DEF MakerFinalizeRefund
<1>23. CASE MakerFinish
  BY <1>23, MakerReturnOne, MakerCommandTable, MakerRequiresTable
  DEF MakerFinish, MakerEvents, MakerEventOK, MakerEventBacked
<1>. QED  BY <1>1, <1>2, <1>3, <1>4, <1>5, <1>6, <1>7, <1>8, <1>9, <1>10, <1>11, <1>12,
             <1>13, <1>14, <1>15, <1>16, <1>17, <1>18, <1>20, <1>21, <1>22, <1>23,
             MakerSaveSide, MakerKickStartSide DEF MakerHandler

-----------------------------------------------------------------------------
(* What the maker does to the rest of the world.                           *)

MakerChainMove ==
  \/ ChainUnchanged
  \/ /\ m_pc = "SendPayment.send"
     /\ ~OnChain("maker_payment")
     /\ SendPayment("maker_payment", MakerPaymentLock)
  \/ m_pc = "SpendTakerPayment.send" /\ Claimed("taker_payment")
  \/ Returned("taker_payment")
  \/ Returned("maker_payment") /\ now > MakerPaymentLock

\* The handlers touch the chains in four places only.
LEMMA MakerHandlerChain ==
  ASSUME MakerHandler
  PROVE  MakerChainMove
<1>. USE DEF MakerChainMove
<1>1. CASE MakerSendPaymentSend
  BY <1>1 DEF MakerSendPaymentSend, MakerPaymentFound
<1>2. CASE MakerSpendTakerPaymentSend
  BY <1>2 DEF MakerSpendTakerPaymentSend, Claimed
<1>3. CASE MakerPrepareForRefund
  BY <1>3 DEF MakerPrepareForRefund, Returned, Payments
<1>4. CASE MakerRefundPayment
  BY <1>4 DEF MakerRefundPayment, RefundPayment, Returned, Payments
<1>5. CASE \/ MakerStart \/ MakerNegotiate \/ MakerNegotiateRecv \/ MakerNegotiateTimeout
           \/ MakerWaitTakerFee \/ MakerWaitTakerFeeRecv \/ MakerWaitTakerFeeTimeout
           \/ MakerSendPayment \/ MakerWaitForTakerPayment \/ MakerPaymentWaitConfirm
  BY <1>5
  DEF MakerStart, MakerNegotiate, MakerNegotiateRecv, MakerNegotiateTimeout,
      MakerWaitTakerFee, MakerWaitTakerFeeRecv, MakerWaitTakerFeeTimeout,
      MakerSendPayment, MakerWaitForTakerPayment, MakerPaymentWaitConfirm
<1>6. CASE \/ MakerTakerPaymentRecv \/ MakerTakerPaymentRecvTimeout
           \/ MakerValidateTakerPayment \/ MakerSpendTakerPayment
           \/ MakerConfirmTakerPaymentSpend \/ MakerWaitAutoRefund \/ MakerFinalizeRefund
           \/ MakerFinish \/ MakerSaveEvent \/ MakerKickStart
  BY <1>6
  DEF MakerTakerPaymentRecv, MakerTakerPaymentRecvTimeout, MakerValidateTakerPayment,
      MakerSpendTakerPayment, MakerConfirmTakerPaymentSpend, MakerWaitAutoRefund,
      MakerFinalizeRefund, MakerFinish, MakerSaveEvent, MakerKickStart
<1>. QED  BY <1>1, <1>2, <1>3, <1>4, <1>5, <1>6 DEF MakerHandler

\* Each of them is a step the chains allow.
LEMMA MakerMoveStep ==
  ASSUME MakerDataTypeOK, MakerChainMove
  PROVE  ChainStep
<1>1. MakerPaymentLock \in Nat
  BY SMT, MakerLockDurationNat DEF MakerDataTypeOK, MakerPaymentLock
<1>. QED  BY <1>1 DEF MakerChainMove, ChainStep, Locked, Payments

\* No handler forgets an event.
LEMMA MakerHandlerLog ==
  ASSUME MakerHandler
  PROVE  m_saved \subseteq m_saved'
<1>. USE DEF MakerReturn, MakerAwait
<1>1. CASE \/ MakerStart \/ MakerNegotiate \/ MakerNegotiateRecv \/ MakerNegotiateTimeout
           \/ MakerWaitTakerFee \/ MakerWaitTakerFeeRecv \/ MakerWaitTakerFeeTimeout
           \/ MakerSendPayment \/ MakerSendPaymentSend
  BY <1>1
  DEF MakerStart, MakerNegotiate, MakerNegotiateRecv, MakerNegotiateFailed,
      MakerNegotiateTimeout, MakerWaitTakerFee, MakerWaitTakerFeeRecv,
      MakerWaitTakerFeeTimeout, MakerSendPayment, MakerSendPaymentSend
<1>2. CASE \/ MakerWaitForTakerPayment \/ MakerPaymentWaitConfirm \/ MakerTakerPaymentRecv
           \/ MakerTakerPaymentRecvTimeout \/ MakerValidateTakerPayment
           \/ MakerSpendTakerPayment \/ MakerSpendTakerPaymentSend
           \/ MakerConfirmTakerPaymentSpend
  BY <1>2
  DEF MakerWaitForTakerPayment, MakerPaymentWaitConfirm, MakerTakerPaymentRecv,
      MakerTakerPaymentRecvTimeout, MakerValidateTakerPayment, MakerSpendTakerPayment,
      MakerSpendTakerPaymentSend, MakerConfirmTakerPaymentSpend, MakerReturnRefund
<1>3. CASE \/ MakerPrepareForRefund \/ MakerWaitAutoRefund \/ MakerRefundPayment
           \/ MakerFinalizeRefund \/ MakerFinish \/ MakerSaveEvent \/ MakerKickStart
  BY <1>3
  DEF MakerPrepareForRefund, MakerWaitAutoRefund, MakerRefundPayment,
      MakerFinalizeRefund, MakerFinish, MakerSaveEvent, MakerSaved, MakerKickStart
<1>. QED  BY <1>1, <1>2, <1>3 DEF MakerHandler

\* The data of the swap, the topic and the error budget keep their types.
LEMMA MakerHandlerData ==
  ASSUME MakerDataTypeOK, now \in Nat, net \subseteq SwapMsg, faults \in Nat, MakerHandler
  PROVE  MakerDataTypeOK' /\ net' \subseteq SwapMsg /\ faults' \in Nat
<1>. USE DEF MakerDataTypeOK, MakerDataUnchanged, Fault, NoFault
<1>0. ASSUME NEW msg \in SwapMsg, Broadcast(msg) PROVE net' \subseteq SwapMsg
  BY <1>0 DEF Broadcast
<1>a. MakerNegotiateFailed => net' \subseteq SwapMsg
  <2>1. [kind |-> "Negotiated", ok |-> FALSE] \in SwapMsg
    BY MessageType
  <2>. QED  BY <1>0, <2>1, Zenon DEF MakerNegotiateFailed
<1>b. MakerWaitTakerFee => net' \subseteq SwapMsg
  <2>1. [kind |-> "Negotiated", ok |-> TRUE] \in SwapMsg
    BY MessageType
  <2>. QED  BY <1>0, <2>1, Zenon DEF MakerWaitTakerFee
<1>c. Broadcast([kind |-> "MakerPayment"]) => net' \subseteq SwapMsg
  BY <1>0, MessageType
<1>1. CASE MakerStart
  BY SMT, <1>1, BoundAssumption DEF MakerStart
<1>2. CASE MakerNegotiate
  <2>1. MakerPaymentLock \in Nat
    BY SMT, MakerLockDurationNat DEF MakerPaymentLock
  <2>2. [kind |-> "Negotiation", started_at |-> m_started_at,
         payment_locktime |-> MakerPaymentLock] \in SwapMsg
    BY <2>1, MessageType
  <2>. QED  BY <1>2, <2>2 DEF MakerNegotiate, Broadcast
<1>3. CASE MakerNegotiateRecv
  <2>1. ASSUME NEW msg \in Received("NegotiationReply") PROVE msg.payment_locktime \in Nat
    <3>1. msg \in SwapMsg /\ msg.kind = "NegotiationReply"
      BY DEF Received
    <3>. QED  BY <3>1, NegotiationMessageNat
  <2>2. \/ MakerNegotiateFailed
        \/ /\ UNCHANGED net
           /\ \E msg \in Received("NegotiationReply") : m_taker_lock' = msg.payment_locktime
    BY <1>3 DEF MakerNegotiateRecv
  <2>3. net' \subseteq SwapMsg
    BY <1>a, <2>2
  <2>4. m_taker_lock' \in Nat
    BY <2>1, <2>2 DEF MakerNegotiateFailed
  <2>. QED  BY SMT, <1>3, <2>3, <2>4 DEF MakerNegotiateRecv
<1>4. CASE MakerNegotiateTimeout \/ MakerWaitTakerFee \/ MakerWaitForTakerPayment
  <2>1. net' \subseteq SwapMsg
    BY <1>4, <1>a, <1>b, <1>c DEF MakerNegotiateTimeout, MakerWaitForTakerPayment
  <2>2. UNCHANGED <<m_started_at, m_taker_lock, m_reward>>
    BY <1>4 DEF MakerNegotiateTimeout, MakerNegotiateFailed, MakerWaitTakerFee,
                MakerWaitForTakerPayment
  <2>. QED  BY SMT, <1>4, <2>1, <2>2
            DEF MakerNegotiateTimeout, MakerWaitTakerFee, MakerWaitForTakerPayment
<1>5. CASE \/ MakerWaitTakerFeeRecv \/ MakerWaitTakerFeeTimeout \/ MakerSendPayment
           \/ MakerSendPaymentSend \/ MakerPaymentWaitConfirm \/ MakerTakerPaymentRecv
           \/ MakerTakerPaymentRecvTimeout \/ MakerValidateTakerPayment
           \/ MakerSpendTakerPayment
  BY SMT, <1>5
  DEF MakerWaitTakerFeeRecv, MakerWaitTakerFeeTimeout, MakerSendPayment,
      MakerSendPaymentSend, MakerPaymentWaitConfirm, MakerTakerPaymentRecv,
      MakerTakerPaymentRecvTimeout, MakerValidateTakerPayment, MakerSpendTakerPayment
<1>6. CASE \/ MakerSpendTakerPaymentSend \/ MakerConfirmTakerPaymentSpend
           \/ MakerPrepareForRefund \/ MakerWaitAutoRefund \/ MakerRefundPayment
           \/ MakerFinalizeRefund \/ MakerFinish \/ MakerSaveEvent \/ MakerKickStart
  BY SMT, <1>6
  DEF MakerSpendTakerPaymentSend, MakerConfirmTakerPaymentSpend, MakerPrepareForRefund,
      MakerWaitAutoRefund, MakerRefundPayment, MakerFinalizeRefund, MakerFinish,
      MakerSaveEvent, MakerKickStart
<1>. QED  BY <1>1, <1>2, <1>3, <1>4, <1>5, <1>6 DEF MakerHandler

\* The maker announces its payment only when it is on the chain.
LEMMA MakerHandlerNet ==
  ASSUME MakerSide, NetInv, Grows, MakerHandler
  PROVE  NetInv'
<1>1. ASSUME NEW msg, Broadcast(msg),
             msg.kind \notin {"TakerFee", "MakerPayment", "TakerPayment"}
      PROVE  NetInv'
  BY <1>1 DEF Broadcast, NetInv, Grows, Payments
<1>2. CASE MakerNegotiate \/ MakerWaitTakerFee
  BY <1>1, <1>2 DEF MakerNegotiate, MakerWaitTakerFee
<1>3. CASE MakerNegotiateRecv \/ MakerNegotiateTimeout
  BY <1>1, <1>3, NetStays DEF MakerNegotiateRecv, MakerNegotiateTimeout, MakerNegotiateFailed
<1>4. CASE MakerWaitForTakerPayment
  <2>1. OnChain("maker_payment")
    BY <1>4, MakerPaths
    DEF MakerWaitForTakerPayment, MakerSide, MakerLogInv, MakerEventOK, MakerEventBacked
  <2>. QED  BY SMT, <1>4, <2>1, NetStays
            DEF MakerWaitForTakerPayment, Broadcast, NetInv, Grows, Payments
<1>5. CASE \/ MakerStart \/ MakerWaitTakerFeeRecv \/ MakerWaitTakerFeeTimeout
           \/ MakerSendPayment \/ MakerSendPaymentSend \/ MakerPaymentWaitConfirm
           \/ MakerTakerPaymentRecv \/ MakerTakerPaymentRecvTimeout
           \/ MakerValidateTakerPayment \/ MakerSpendTakerPayment
  BY <1>5, NetStays
  DEF MakerStart, MakerWaitTakerFeeRecv, MakerWaitTakerFeeTimeout, MakerSendPayment,
      MakerSendPaymentSend, MakerPaymentWaitConfirm, MakerTakerPaymentRecv,
      MakerTakerPaymentRecvTimeout, MakerValidateTakerPayment, MakerSpendTakerPayment
<1>6. CASE \/ MakerSpendTakerPaymentSend \/ MakerConfirmTakerPaymentSpend
           \/ MakerPrepareForRefund \/ MakerWaitAutoRefund \/ MakerRefundPayment
           \/ MakerFinalizeRefund \/ MakerFinish \/ MakerSaveEvent \/ MakerKickStart
  BY <1>6, NetStays
  DEF MakerSpendTakerPaymentSend, MakerConfirmTakerPaymentSpend, MakerPrepareForRefund,
      MakerWaitAutoRefund, MakerRefundPayment, MakerFinalizeRefund, MakerFinish,
      MakerSaveEvent, MakerKickStart
<1>. QED  BY <1>2, <1>3, <1>4, <1>5, <1>6 DEF MakerHandler

-----------------------------------------------------------------------------
(* The chains after a step of the maker.                                   *)

\* Each of the maker's moves finds in its database what the order of the payments
\* asks for: the fee behind its payment, the confirmation behind the secret.
LEMMA MakerMoveChain ==
  ASSUME MakerSide, ChainTypeOK, ChainInv, Grows, MakerChainMove
  PROVE  ChainInv'
<1>. USE DEF ChainTypeOK, ChainInv, Grows, SecretPublic, OnChain, Confirmed, Spent,
             Payments, Transfers
<1>1. CASE ChainUnchanged
  BY <1>1 DEF ChainUnchanged
<1>2. CASE /\ m_pc = "SendPayment.send"
           /\ ~OnChain("maker_payment")
           /\ SendPayment("maker_payment", MakerPaymentLock)
  <2>1. {"Started", "TakerFeeValidated"} \subseteq m_saved /\ paid["taker_fee"] > 0
    BY <1>2, MakerPaths DEF MakerSide, MakerLogInv, MakerEventOK
  <2>. QED  BY SMT, <1>2, <2>1 DEF SendPayment
<1>3. CASE m_pc = "SpendTakerPayment.send" /\ Claimed("taker_payment")
  <2>1. "TakerPaymentValidatedAndConfirmed" \in m_saved
    BY <1>3, MakerPaths
  <2>. QED  BY <1>3, <2>1 DEF Claimed, SpendPayment, Unclaimed
<1>4. ASSUME NEW p \in Payments, Returned(p) PROVE ChainInv'
  BY <1>4 DEF Returned, Unclaimed
<1>. QED  BY <1>1, <1>2, <1>3, <1>4 DEF MakerChainMove

-----------------------------------------------------------------------------
(* The order of the maker's events.                                        *)

\* The program counters before the maker may pay.
MakerEarlyPcs ==
  {"Start", "Negotiate", "Negotiate.recv", "WaitForTakerFee", "WaitForTakerFee.recv"}

\* Only early events lead to a handler before the payment, and only events that do not
\* give up lead to one after it.
LEMMA MakerPcOrder ==
  ASSUME MakerSide, MakerOrderInv, m_pc \in MakerCommands \cup MakerAwaits
  PROVE  /\ m_pc \in MakerEarlyPcs => m_saved \subseteq MakerEarly
         /\ m_pc \notin MakerEarlyPcs \cup {"Finish"} => m_saved \cap MakerGaveUp = {}
<1>. USE DEF MakerEarlyPcs, MakerCommands, MakerAwaits
<1>1. CASE m_pc = "Start"
  BY <1>1 DEF MakerOrderInv, LogOrdered
<1>2. CASE m_pc # "Start"
  <2>1. MakerGetCommand(m_last) = MakerCommandAt(m_pc)
    BY <1>2 DEF MakerSide, MakerControlInv
  <2>2. m_pc \in MakerEarlyPcs => m_last \in MakerEarly
    BY <1>2, <2>1 DEF MakerCommandAt, MakerGetCommand, MakerRefundEvents, MakerFinishEvents,
                      MakerEarly
  <2>3. m_pc \notin MakerEarlyPcs \cup {"Finish"} => m_last \notin MakerGaveUp \cup {"Finished"}
    BY SMT, <2>1, MakerCommandTable DEF MakerCommandAt, MakerGaveUp, MakerFinishEvents
  <2>. QED  BY <2>2, <2>3 DEF MakerOrderInv, LogOrdered
<1>. QED  BY <1>1, <1>2

\* A batch whose events may follow one another.
LEMMA MakerReturnOrder ==
  ASSUME MakerOrderInv, NEW command, NEW batch, MakerReturn(command, batch),
         \A n \in 1..Len(batch) :
           Follows(batch[n], Upto(m_saved, batch, n - 1), MakerEarly, MakerGaveUp)
  PROVE  MakerOrderInv'
BY DEF MakerOrderInv, MakerReturn

\* One event.
LEMMA MakerReturnOneOrder ==
  ASSUME MakerOrderInv, NEW command, NEW a, MakerReturn(command, <<a>>),
         Follows(a, m_saved, MakerEarly, MakerGaveUp)
  PROVE  MakerOrderInv'
<1>1. ASSUME NEW n \in 1..Len(<<a>>)
      PROVE  <<a>>[n] = a /\ Upto(m_saved, <<a>>, n - 1) = m_saved
  BY SMT DEF Upto
<1>. QED  BY <1>1, MakerReturnOrder

\* Two events.
LEMMA MakerReturnTwoOrder ==
  ASSUME MakerOrderInv, NEW command, NEW a, NEW b, MakerReturn(command, <<a, b>>),
         Follows(a, m_saved, MakerEarly, MakerGaveUp),
         Follows(b, m_saved \cup {a}, MakerEarly, MakerGaveUp)
  PROVE  MakerOrderInv'
<1>. DEFINE batch == <<a, b>>
<1>1. ASSUME NEW n \in 1..Len(batch)
      PROVE  Follows(batch[n], Upto(m_saved, batch, n - 1), MakerEarly, MakerGaveUp)
  <2>1. CASE n = 1
    <3>1. batch[n] = a /\ Upto(m_saved, batch, n - 1) = m_saved
      BY SMT, <2>1 DEF Upto
    <3>. QED  BY <3>1
  <2>2. CASE n = 2
    <3>1. batch[n] = b /\ Upto(m_saved, batch, n - 1) = m_saved \cup {a}
      BY SMT, <2>2 DEF Upto
    <3>. QED  BY <3>1
  <2>. QED  BY SMT, <2>1, <2>2
<1>. QED  BY <1>1, MakerReturnOrder

\* A handler before the payment returns early events, or gives up with one.
LEMMA MakerEarlyReturn ==
  ASSUME MakerSide, MakerOrderInv, m_pc \in MakerEarlyPcs,
         \/ \E command, a : /\ a \in MakerEarly \cup MakerGaveUp
                            /\ MakerReturn(command, <<a>>)
         \/ MakerReturn("SendPayment",
                        <<"MakerPaymentInstructionsReceived", "TakerFeeValidated">>)
  PROVE  MakerOrderInv'
<1>1. m_saved \subseteq MakerEarly
  BY MakerPcOrder DEF MakerEarlyPcs, MakerCommands, MakerAwaits
<1>2. ASSUME NEW command, NEW a \in MakerEarly \cup MakerGaveUp, MakerReturn(command, <<a>>)
      PROVE  MakerOrderInv'
  BY <1>1, <1>2, MakerReturnOneOrder DEF Follows
<1>3. ASSUME MakerReturn("SendPayment",
                         <<"MakerPaymentInstructionsReceived", "TakerFeeValidated">>)
      PROVE  MakerOrderInv'
  <2>1. /\ Follows("MakerPaymentInstructionsReceived", m_saved, MakerEarly, MakerGaveUp)
        /\ Follows("TakerFeeValidated", m_saved \cup {"MakerPaymentInstructionsReceived"},
                   MakerEarly, MakerGaveUp)
    BY <1>1 DEF Follows, MakerEarly, MakerGaveUp
  <2>. QED  BY <1>3, <2>1, MakerReturnTwoOrder
<1>. QED  BY <1>2, <1>3

MakerLate == MakerEvents \ (MakerEarly \cup MakerGaveUp)

\* A handler after the payment returns none of those.
LEMMA MakerLateReturn ==
  ASSUME MakerSide, MakerOrderInv, m_pc \in MakerCommands \cup MakerAwaits,
         m_pc \notin MakerEarlyPcs \cup {"Finish"},
         \E command : \/ \E a \in MakerLate : MakerReturn(command, <<a>>)
                      \/ \E a, b \in MakerLate : MakerReturn(command, <<a, b>>)
  PROVE  MakerOrderInv'
<1>1. m_saved \cap MakerGaveUp = {}
  BY MakerPcOrder
<1>2. ASSUME NEW command, NEW a \in MakerLate, MakerReturn(command, <<a>>)
      PROVE  MakerOrderInv'
  BY <1>1, <1>2, MakerReturnOneOrder DEF Follows, MakerLate
<1>3. ASSUME NEW command, NEW a \in MakerLate, NEW b \in MakerLate,
             MakerReturn(command, <<a, b>>)
      PROVE  MakerOrderInv'
  BY <1>1, <1>3, MakerReturnTwoOrder DEF Follows, MakerLate
<1>. QED  BY <1>2, <1>3

\* A handler reaches its next await.
LEMMA MakerAwaitOrder ==
  ASSUME MakerOrderInv, NEW pc \in MakerAwaits, NEW deadline, MakerAwait(pc, deadline)
  PROVE  MakerOrderInv'
BY DEF MakerOrderInv, MakerAwait, MakerAwaits

\* Saving an event keeps the order; after the last one the swap is over or goes on.
LEMMA MakerSaveOrder ==
  ASSUME MakerSide, MakerOrderInv, MakerSaveEvent
  PROVE  MakerOrderInv'
<1>0. PICK head : head = Head(m_pending)
  OBVIOUS
<1>1. /\ m_pc = "Saving"
      /\ m_pending \in Seq(MakerEvents) /\ m_pending # <<>>
      /\ m_next = MakerGetCommand(m_pending[Len(m_pending)])
  BY DEF MakerSaveEvent, MakerSide, MakerControlTypeOK, MakerControlInv
<1>2. /\ m_saved' = m_saved \cup {head}
      /\ m_last' = head
      /\ m_pending' = Tail(m_pending)
  BY <1>0 DEF MakerSaveEvent, MakerSaved
<1>3. head \in MakerEvents /\ head = m_pending[1] /\ head # "NoEvent" /\ 1 \in 1..Len(m_pending)
  BY SMT, <1>0, <1>1 DEF MakerEvents
<1>4. Follows(head, m_saved, MakerEarly, MakerGaveUp)
  <2>1. m_saved \subseteq Upto(m_saved, m_pending, 0)
    BY DEF Upto
  <2>2. Follows(head, Upto(m_saved, m_pending, 0), MakerEarly, MakerGaveUp)
    BY SMT, <1>3 DEF MakerOrderInv
  <2>. QED  BY <2>1, <2>2, FollowsShorter
<1>5. LogOrdered(m_last', m_saved', MakerEarly, MakerGaveUp)
  BY <1>2, <1>3, <1>4, SavedOrdered DEF MakerOrderInv, MakerEarly, MakerGaveUp
<1>6. m_saved' \cap MakerGaveUp # {} => "TakerFeeValidated" \notin m_saved'
  BY <1>2, <1>4 DEF MakerOrderInv, Follows, MakerEarly, MakerGaveUp
<1>7. ASSUME NEW n \in 1..Len(m_pending')
      PROVE  Follows(m_pending[n], Upto(m_saved, m_pending, n - 1), MakerEarly, MakerGaveUp)'
  <2>1. /\ m_pending'[n] = m_pending[n + 1] /\ n + 1 \in 1..Len(m_pending)
        /\ Upto(m_saved', m_pending', n - 1) \subseteq Upto(m_saved, m_pending, n)
    BY <1>0, <1>1, <1>2, UptoTail
  <2>2. Follows(m_pending[n + 1], Upto(m_saved, m_pending, n), MakerEarly, MakerGaveUp)
    BY SMT, <2>1 DEF MakerOrderInv
  <2>. QED  BY <2>1, <2>2, FollowsShorter
<1>8. m_pc' \notin {"Start", "Down"} /\ (m_pc' = "None" => head = "Finished")
  <2>1. CASE Len(m_pending) = 1
    <3>1. m_pc' = MakerGetCommand(head)
      BY <1>1, <1>3, <2>1 DEF MakerSaveEvent
    <3>. QED  BY <1>3, <3>1
              DEF MakerGetCommand, MakerEvents, MakerRefundEvents, MakerFinishEvents
  <2>2. CASE Len(m_pending) # 1
    BY <1>1, <2>2 DEF MakerSaveEvent
  <2>. QED  BY <2>1, <2>2
<1>. QED  BY <1>2, <1>5, <1>6, <1>7, <1>8 DEF MakerOrderInv

\* A crash and a restart keep the record as it is.
LEMMA MakerCrashOrder ==
  ASSUME MakerOrderInv, MakerCrash
  PROVE  MakerOrderInv'
BY SMT DEF MakerOrderInv, MakerCrash

\* A restart finds the swap over only when its record says so.
LEMMA MakerKickStartOrder ==
  ASSUME MakerSide, MakerOrderInv, MakerKickStart
  PROVE  MakerOrderInv'
<1>1. m_last \in m_saved /\ m_last \in MakerEvents
  BY DEF MakerKickStart, MakerOrderInv, LogOrdered, MakerSide, MakerControlTypeOK
<1>2. m_pc' = MakerGetCommand(m_last)
  BY DEF MakerKickStart
<1>3. m_pc' \notin {"Start", "Down"} /\ (m_pc' = "None" => m_last = "Finished")
  BY <1>1, <1>2 DEF MakerGetCommand, MakerEvents, MakerRefundEvents, MakerFinishEvents
<1>. QED  BY <1>1, <1>3 DEF MakerKickStart, MakerOrderInv

\* Every handler keeps the order of the maker's events.
LEMMA MakerHandlerOrder ==
  ASSUME MakerSide, MakerOrderInv, MakerHandler
  PROVE  MakerOrderInv'
<1>. USE DEF MakerReturnRefund
<1>1. CASE \/ MakerNegotiate \/ MakerWaitTakerFee
  BY <1>1, MakerAwaitOrder DEF MakerNegotiate, MakerWaitTakerFee, MakerAwaits
<1>2. CASE \/ MakerStart \/ MakerNegotiateRecv \/ MakerNegotiateTimeout
           \/ MakerWaitTakerFeeRecv \/ MakerWaitTakerFeeTimeout
  <2>1. m_pc \in MakerEarlyPcs
    BY <1>2 DEF MakerStart, MakerNegotiateRecv, MakerNegotiateTimeout,
                MakerWaitTakerFeeRecv, MakerWaitTakerFeeTimeout, MakerEarlyPcs
  <2>2. \/ \E command, a : /\ a \in MakerEarly \cup MakerGaveUp
                           /\ MakerReturn(command, <<a>>)
        \/ MakerReturn("SendPayment",
                       <<"MakerPaymentInstructionsReceived", "TakerFeeValidated">>)
    BY <1>2 DEF MakerStart, MakerNegotiateRecv, MakerNegotiateTimeout, MakerNegotiateFailed,
                MakerWaitTakerFeeRecv, MakerWaitTakerFeeTimeout, MakerEarly, MakerGaveUp
  <2>. QED  BY <2>1, <2>2, MakerEarlyReturn
<1>3. CASE \/ MakerSendPayment \/ MakerSendPaymentSend \/ MakerWaitForTakerPayment
           \/ MakerPaymentWaitConfirm \/ MakerTakerPaymentRecv
           \/ MakerTakerPaymentRecvTimeout
  <2>1. /\ m_pc \in MakerCommands \cup MakerAwaits
        /\ m_pc \notin MakerEarlyPcs \cup {"Finish"}
    BY <1>3 DEF MakerSendPayment, MakerSendPaymentSend, MakerWaitForTakerPayment,
                MakerPaymentWaitConfirm, MakerTakerPaymentRecv,
                MakerTakerPaymentRecvTimeout, MakerEarlyPcs, MakerCommands, MakerAwaits
  <2>2. \/ \E pc \in MakerAwaits : \E deadline : MakerAwait(pc, deadline)
        \/ \E command : \/ \E a \in MakerLate : MakerReturn(command, <<a>>)
                        \/ \E a, b \in MakerLate : MakerReturn(command, <<a, b>>)
    BY <1>3 DEF MakerSendPayment, MakerSendPaymentSend, MakerWaitForTakerPayment,
                MakerPaymentWaitConfirm, MakerTakerPaymentRecv,
                MakerTakerPaymentRecvTimeout, MakerAwaits, MakerLate, MakerEvents,
                MakerEarly, MakerGaveUp
  <2>. QED  BY <2>1, <2>2, MakerLateReturn, MakerAwaitOrder
<1>4. CASE \/ MakerValidateTakerPayment \/ MakerSpendTakerPayment
           \/ MakerSpendTakerPaymentSend \/ MakerConfirmTakerPaymentSpend
  <2>1. /\ m_pc \in MakerCommands \cup MakerAwaits
        /\ m_pc \notin MakerEarlyPcs \cup {"Finish"}
    BY <1>4 DEF MakerValidateTakerPayment, MakerSpendTakerPayment,
                MakerSpendTakerPaymentSend, MakerConfirmTakerPaymentSpend,
                MakerEarlyPcs, MakerCommands, MakerAwaits
  <2>2. \/ \E pc \in MakerAwaits : \E deadline : MakerAwait(pc, deadline)
        \/ \E command : \/ \E a \in MakerLate : MakerReturn(command, <<a>>)
                        \/ \E a, b \in MakerLate : MakerReturn(command, <<a, b>>)
    BY <1>4 DEF MakerValidateTakerPayment, MakerSpendTakerPayment,
                MakerSpendTakerPaymentSend, MakerConfirmTakerPaymentSpend,
                MakerAwaits, MakerLate, MakerEvents, MakerEarly, MakerGaveUp
  <2>. QED  BY <2>1, <2>2, MakerLateReturn, MakerAwaitOrder
<1>5. CASE \/ MakerPrepareForRefund \/ MakerWaitAutoRefund \/ MakerRefundPayment
           \/ MakerFinalizeRefund
  <2>1. /\ m_pc \in MakerCommands \cup MakerAwaits
        /\ m_pc \notin MakerEarlyPcs \cup {"Finish"}
    BY <1>5 DEF MakerPrepareForRefund, MakerWaitAutoRefund, MakerRefundPayment,
                MakerFinalizeRefund, MakerEarlyPcs, MakerCommands, MakerAwaits
  <2>2. \E command : \E a \in MakerLate : MakerReturn(command, <<a>>)
    BY <1>5 DEF MakerPrepareForRefund, MakerWaitAutoRefund, MakerRefundPayment,
                MakerFinalizeRefund, MakerLate, MakerEvents, MakerEarly, MakerGaveUp
  <2>. QED  BY <2>1, <2>2, MakerLateReturn
<1>6. CASE MakerFinish
  BY <1>6, MakerReturnOneOrder DEF MakerFinish, Follows, MakerEarly, MakerGaveUp
<1>. QED  BY <1>1, <1>2, <1>3, <1>4, <1>5, <1>6, MakerSaveOrder, MakerKickStartOrder
          DEF MakerHandler

=============================================================================
