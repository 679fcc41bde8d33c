-------------------------- MODULE TakerSwapProofs --------------------------
(***************************************************************************)
(* The taker's side of the inductive step, laid out as the maker's in      *)
(* MakerSwapProofs: every handler, every save and every restart keeps the  *)
(* taker's log and program counter in agreement with the chains.           *)
(***************************************************************************)
EXTENDS MakerSwapProofs

\* Zenon is the quicker of the two provers here, SMT the one that knows numbers and records.
USE ZenonT(30), SMTT(30)

-----------------------------------------------------------------------------
(* The taker's log and program counter.                                    *)


TakerControlTypeOK ==
  /\ t_pc \in TakerCommands \cup TakerAwaits
              \cup {"Saving", "None", "Down", "Lost", "Panicked"}
  /\ t_next \in TakerCommands \cup {"None"}
  /\ t_pending \in Seq(TakerEvents)
  /\ t_saved \subseteq TakerEvents
  /\ t_last \in t_saved \cup {"NoEvent"}
  /\ t_deadline \in Nat

TakerDataTypeOK ==
  /\ t_started_at \in Nat
  /\ t_maker_lock \in Nat
  /\ t_reward \in BOOLEAN

TakerSide == TakerControlTypeOK /\ TakerLogInv /\ TakerControlInv

-----------------------------------------------------------------------------
(* The tables of get_command and of what the handlers rely on.             *)

\* get_command returns a command or None.
LEMMA TakerGetCommandType == \A event : TakerGetCommand(event) \in TakerCommands \cup {"None"}
BY DEF TakerGetCommand, TakerCommands

\* get_command, event by event.
LEMMA TakerCommandTable ==
  /\ TakerGetCommand("Started") = "Negotiate"
  /\ TakerGetCommand("Negotiated") = "SendTakerFee"
  /\ TakerGetCommand("TakerFeeSent") = "WaitForMakerPayment"
  /\ TakerGetCommand("TakerPaymentInstructionsReceived") = "ValidateMakerPayment"
  /\ TakerGetCommand("MakerPaymentReceived") = "ValidateMakerPayment"
  /\ TakerGetCommand("MakerPaymentWaitConfirmStarted") = "ValidateMakerPayment"
  /\ TakerGetCommand("MakerPaymentValidatedAndConfirmed") = "SendTakerPayment"
  /\ TakerGetCommand("TakerPaymentSent") = "WaitForTakerPaymentSpend"
  /\ TakerGetCommand("WatcherMessageSent") = "WaitForTakerPaymentSpend"
  /\ TakerGetCommand("TakerPaymentSpent") = "SpendMakerPayment"
  /\ \A event \in TakerRefundEvents :
       TakerGetCommand(event) = "PrepareForTakerPaymentRefund"
  /\ TakerGetCommand("TakerPaymentRefundStarted") = "RefundTakerPayment"
  /\ TakerGetCommand("TakerPaymentRefunded") = "FinalizeTakerPaymentRefund"
  /\ \A event \in TakerFinishEvents : TakerGetCommand(event) = "Finish"
  /\ TakerGetCommand("Finished") = "None"
  /\ TakerGetCommand("NoEvent") = "None"
BY DEF TakerGetCommand, TakerRefundEvents, TakerFinishEvents

\* What the handlers rely on, command by command.
LEMMA TakerRequiresTable ==
  /\ TakerRequires("Negotiate") = {"Started"}
  /\ TakerRequires("SendTakerFee") = {"Started"}
  /\ TakerRequires("ValidateMakerPayment") = {"Started"}
  /\ TakerRequires("WaitForMakerPayment") = {"Started", "TakerFeeSent"}
  /\ TakerRequires("SendTakerPayment")
       = {"Started", "MakerPaymentReceived", "MakerPaymentValidatedAndConfirmed"}
  /\ TakerRequires("WaitForTakerPaymentSpend")
       = {"Started", "MakerPaymentReceived", "TakerPaymentSent"}
  /\ TakerRequires("PrepareForTakerPaymentRefund")
       = {"Started", "MakerPaymentReceived", "TakerPaymentSent"}
  /\ TakerRequires("RefundTakerPayment")
       = {"Started", "MakerPaymentReceived", "TakerPaymentSent"}
  /\ TakerRequires("FinalizeTakerPaymentRefund")
       = {"Started", "MakerPaymentReceived", "TakerPaymentSent"}
  /\ TakerRequires("SpendMakerPayment")
       = {"Started", "MakerPaymentReceived", "TakerPaymentSent", "TakerPaymentSpent"}
  /\ TakerRequires("Finish") = {}
  /\ TakerRequires("None") = {}
BY DEF TakerRequires

\* The events behind the program counter are in the database.
LEMMA TakerAt ==
  ASSUME TakerSide, t_pc \in (TakerCommands \cup TakerAwaits) \ {"Start", "Finish"}
  PROVE  TakerRequires(TakerCommandAt(t_pc)) \subseteq t_saved
<1>1. t_last \in t_saved /\ TakerCommandAt(t_pc) = TakerGetCommand(t_last)
  BY DEF TakerSide, TakerControlInv, TakerGoesOn, TakerCommandAt, TakerCommands, TakerAwaits
<1>. QED  BY <1>1 DEF TakerSide, TakerLogInv, TakerEventOK

\* The same, spelled out for each program counter.
LEMMA TakerPaths ==
  ASSUME TakerSide
  PROVE
  /\ t_pc \in {"Negotiate", "Negotiate.recv", "Negotiate.negotiated", "SendTakerFee",
               "SendTakerFee.send", "ValidateMakerPayment"}
       => "Started" \in t_saved
  /\ t_pc \in {"WaitForMakerPayment", "WaitForMakerPayment.recv"}
       => {"Started", "TakerFeeSent"} \subseteq t_saved
  /\ t_pc \in {"SendTakerPayment", "SendTakerPayment.send"}
       => {"Started", "MakerPaymentReceived", "MakerPaymentValidatedAndConfirmed"}
            \subseteq t_saved
  /\ t_pc \in {"WaitForTakerPaymentSpend", "WaitForTakerPaymentSpend.confirm",
               "WaitForTakerPaymentSpend.spend", "PrepareForTakerPaymentRefund",
               "RefundTakerPayment", "FinalizeTakerPaymentRefund"}
       => {"Started", "MakerPaymentReceived", "TakerPaymentSent"} \subseteq t_saved
  /\ t_pc = "SpendMakerPayment"
       => {"Started", "MakerPaymentReceived", "TakerPaymentSent", "TakerPaymentSpent"}
            \subseteq t_saved
<1>. USE TakerAt, TakerRequiresTable DEF TakerCommandAt, TakerCommands, TakerAwaits
<1>1. t_pc \in {"Negotiate", "Negotiate.recv", "Negotiate.negotiated", "SendTakerFee",
                "SendTakerFee.send", "ValidateMakerPayment"}
       => "Started" \in t_saved
  OBVIOUS
<1>2. t_pc \in {"WaitForMakerPayment", "WaitForMakerPayment.recv"}
       => {"Started", "TakerFeeSent"} \subseteq t_saved
  OBVIOUS
<1>3. t_pc \in {"SendTakerPayment", "SendTakerPayment.send"}
       => {"Started", "MakerPaymentReceived", "MakerPaymentValidatedAndConfirmed"}
            \subseteq t_saved
  OBVIOUS
<1>4. t_pc \in {"WaitForTakerPaymentSpend", "WaitForTakerPaymentSpend.confirm",
                "WaitForTakerPaymentSpend.spend", "PrepareForTakerPaymentRefund",
                "RefundTakerPayment", "FinalizeTakerPaymentRefund"}
       => {"Started", "MakerPaymentReceived", "TakerPaymentSent"} \subseteq t_saved
  OBVIOUS
<1>5. t_pc = "SpendMakerPayment"
       => {"Started", "MakerPaymentReceived", "TakerPaymentSent", "TakerPaymentSpent"}
            \subseteq t_saved
  OBVIOUS
<1>. QED  BY <1>1, <1>2, <1>3, <1>4, <1>5

-----------------------------------------------------------------------------
(* The ways a handler step ends.                                           *)

\* A handler returns a batch whose events keep their promises in their order.
LEMMA TakerReturnBatch ==
  ASSUME TakerSide, Grows, NEW events \in Seq(TakerEvents), events # <<>>,
         NEW command, TakerGoesOn(command, events[Len(events)]),
         TakerReturn(command, events),
         \A n \in 1..Len(events) : TakerEventOK(events[n], Upto(t_saved, events, n))'
  PROVE  TakerSide'
<1>1. /\ t_saved' = t_saved
      /\ t_pending' = events
      /\ t_pc' = "Saving"
      /\ t_next' = command
  BY DEF TakerReturn
<1>2. command \in TakerCommands \cup {"None"}
  BY TakerGetCommandType DEF TakerGoesOn, TakerCommands
<1>3. TakerControlTypeOK'
  BY <1>1, <1>2 DEF TakerSide, TakerControlTypeOK, TakerReturn
<1>4. TakerLogInv'
  <2>1. ASSUME NEW e \in t_saved PROVE TakerEventOK(e, t_saved)'
    BY <1>1, TakerEventStays DEF TakerSide, TakerLogInv
  <2>. QED  BY <1>1, <2>1 DEF TakerLogInv
<1>5. TakerControlInv'
  BY <1>1 DEF TakerControlInv, TakerCommands, TakerAwaits
<1>. QED  BY <1>3, <1>4, <1>5 DEF TakerSide

\* A handler returns one event.
LEMMA TakerReturnOne ==
  ASSUME TakerSide, Grows, NEW a \in TakerEvents,
         NEW command, TakerGoesOn(command, a),
         TakerReturn(command, <<a>>), TakerEventOK(a, t_saved \cup {a})'
  PROVE  TakerSide'
<1>1. ASSUME NEW n \in 1..Len(<<a>>)
      PROVE  TakerEventOK(<<a>>[n], Upto(t_saved, <<a>>, n))'
  <2>1. n = 1  BY SMT
  <2>2. Upto(t_saved', <<a>>, n) = t_saved' \cup {a}  BY SMT, <2>1 DEF Upto
  <2>. QED  BY <2>1, <2>2
<1>2. PICK events : events = <<a>>
  OBVIOUS
<1>3. events \in Seq(TakerEvents) /\ events # <<>> /\ events[Len(events)] = a
  BY SMT, <1>2
<1>4. \A n \in 1..Len(events) : TakerEventOK(events[n], Upto(t_saved, events, n))'
  BY <1>1, <1>2
<1>. QED  BY <1>2, <1>3, <1>4, TakerReturnBatch DEF TakerGoesOn

\* A handler returns two events, which keep their promises in this order.
LEMMA TakerReturnTwo ==
  ASSUME TakerSide, Grows, NEW a \in TakerEvents, NEW b \in TakerEvents,
         TakerReturn(TakerGetCommand(b), <<a, b>>),
         TakerEventOK(a, t_saved \cup {a})', TakerEventOK(b, t_saved \cup {a, b})'
  PROVE  TakerSide'
<1>1. ASSUME NEW n \in 1..Len(<<a, b>>)
      PROVE  TakerEventOK(<<a, b>>[n], Upto(t_saved, <<a, b>>, n))'
  <2>1. CASE n = 1
    <3>1. Upto(t_saved', <<a, b>>, n) = t_saved' \cup {a}  BY SMT, <2>1 DEF Upto
    <3>. QED  BY <2>1, <3>1
  <2>2. CASE n = 2
    <3>1. {<<a, b>>[i] : i \in 1..2} = {a, b}  BY SMT
    <3>2. Upto(t_saved', <<a, b>>, n) = t_saved' \cup {a, b}  BY <2>2, <3>1 DEF Upto
    <3>. QED  BY <2>2, <3>2
  <2>. QED  BY SMT, <2>1, <2>2
<1>2. PICK events : events = <<a, b>>
  OBVIOUS
<1>3. events \in Seq(TakerEvents) /\ events # <<>> /\ events[Len(events)] = b
  BY SMT, <1>2
<1>4. \A n \in 1..Len(events) : TakerEventOK(events[n], Upto(t_saved, events, n))'
  BY <1>1, <1>2
<1>. QED  BY <1>2, <1>3, <1>4, TakerReturnBatch DEF TakerGoesOn

\* A handler returns three events, which keep their promises in this order.
LEMMA TakerReturnThree ==
  ASSUME TakerSide, Grows, NEW a \in TakerEvents, NEW b \in TakerEvents,
         NEW c \in TakerEvents, TakerReturn(TakerGetCommand(c), <<a, b, c>>),
         TakerEventOK(a, t_saved \cup {a})', TakerEventOK(b, t_saved \cup {a, b})',
         TakerEventOK(c, t_saved \cup {a, b, c})'
  PROVE  TakerSide'
<1>1. ASSUME NEW n \in 1..Len(<<a, b, c>>)
      PROVE  TakerEventOK(<<a, b, c>>[n], Upto(t_saved, <<a, b, c>>, n))'
  <2>1. CASE n = 1
    <3>1. Upto(t_saved', <<a, b, c>>, n) = t_saved' \cup {a}  BY SMT, <2>1 DEF Upto
    <3>. QED  BY <2>1, <3>1
  <2>2. CASE n = 2
    <3>1. {<<a, b, c>>[i] : i \in 1..2} = {a, b}  BY SMT
    <3>2. Upto(t_saved', <<a, b, c>>, n) = t_saved' \cup {a, b}  BY <2>2, <3>1 DEF Upto
    <3>. QED  BY <2>2, <3>2
  <2>3. CASE n = 3
    <3>1. {<<a, b, c>>[i] : i \in 1..3} = {a, b, c}  BY SMT
    <3>2. Upto(t_saved', <<a, b, c>>, n) = t_saved' \cup {a, b, c}  BY <2>3, <3>1 DEF Upto
    <3>. QED  BY <2>3, <3>2
  <2>. QED  BY SMT, <2>1, <2>2, <2>3
<1>2. PICK events : events = <<a, b, c>>
  OBVIOUS
<1>3. events \in Seq(TakerEvents) /\ events # <<>> /\ events[Len(events)] = c
  BY SMT, <1>2
<1>4. \A n \in 1..Len(events) : TakerEventOK(events[n], Upto(t_saved, events, n))'
  BY <1>1, <1>2
<1>. QED  BY <1>2, <1>3, <1>4, TakerReturnBatch DEF TakerGoesOn

\* A step that leaves the log alone and drops the batch keeps the log's promises.
LEMMA TakerLogStays ==
  ASSUME TakerSide, Grows, UNCHANGED t_saved, t_pending' = <<>>
  PROVE  TakerLogInv'
<1>1. ASSUME NEW event \in t_saved PROVE TakerEventOK(event, t_saved)'
  BY TakerEventStays DEF TakerSide, TakerLogInv
<1>. QED  BY SMT, <1>1 DEF TakerLogInv

\* A handler reaches its next await.
LEMMA TakerAwaitSide ==
  ASSUME TakerSide, Grows, NEW pc \in TakerAwaits, NEW deadline \in Nat,
         TakerAwait(pc, deadline),
         t_pc \in (TakerCommands \cup TakerAwaits) \ {"Start", "Finish"},
         TakerCommandAt(pc) = TakerCommandAt(t_pc)
  PROVE  TakerSide'
<1>1. TakerControlTypeOK'
  BY DEF TakerSide, TakerControlTypeOK, TakerAwait
<1>2. UNCHANGED <<t_saved, t_last, t_pending>> /\ t_pc' = pc
  BY DEF TakerAwait
<1>3. t_pending = <<>>
  BY DEF TakerSide, TakerControlInv, TakerCommands, TakerAwaits
<1>4. TakerLogInv'
  BY <1>2, <1>3, TakerLogStays
<1>5. TakerControlInv'
  BY <1>2, <1>3 DEF TakerSide, TakerControlInv, TakerCommands, TakerAwaits
<1>. QED  BY <1>1, <1>4, <1>5 DEF TakerSide

\* A handler gives up; nothing is promised.
LEMMA TakerFails ==
  ASSUME TakerSide, Grows, NEW event \in TakerFinishEvents \ {"MakerPaymentSpent"},
         TakerReturn("Finish", <<event>>)
  PROVE  TakerSide'
<1>1. event \in TakerEvents /\ TakerGetCommand(event) = "Finish"
  BY TakerCommandTable DEF TakerFinishEvents, TakerEvents
<1>2. TakerEventOK(event, t_saved \cup {event})'
  BY <1>1, TakerRequiresTable DEF TakerFinishEvents, TakerEventOK, TakerEventBacked
<1>. QED  BY <1>1, <1>2, TakerReturnOne DEF TakerGoesOn

\* A handler finishes with an event after which a restart would refund.
LEMMA TakerFailsAfterPayment ==
  ASSUME TakerSide, Grows,
         {"Started", "MakerPaymentReceived", "TakerPaymentSent"} \subseteq t_saved,
         NEW event \in TakerAbandons, TakerReturn("Finish", <<event>>)
  PROVE  TakerSide'
<1>1. event \in TakerEvents /\ TakerGetCommand(event) = "PrepareForTakerPaymentRefund"
  BY TakerCommandTable DEF TakerAbandons, TakerRefundEvents, TakerEvents
<1>2. TakerEventOK(event, t_saved \cup {event})'
  BY <1>1, TakerRequiresTable
  DEF Grows, TakerAbandons, TakerEventOK, TakerEventBacked
<1>. QED  BY <1>1, <1>2, TakerReturnOne DEF TakerGoesOn

\* A handler gives up after the payment was sent; the refund finds it.
LEMMA TakerFailsToRefund ==
  ASSUME TakerSide, Grows,
         {"Started", "MakerPaymentReceived", "TakerPaymentSent"} \subseteq t_saved,
         NEW event \in TakerRefundEvents, TakerReturnRefund(event)
  PROVE  TakerSide'
<1>. DEFINE wait == "TakerPaymentWaitRefundStarted"
<1>1. /\ event \in TakerEvents /\ TakerGetCommand(event) = "PrepareForTakerPaymentRefund"
      /\ wait \in TakerEvents /\ TakerGetCommand(wait) = "PrepareForTakerPaymentRefund"
  BY TakerCommandTable DEF TakerRefundEvents, TakerEvents
<1>2. TakerEventOK(event, t_saved \cup {event})'
  BY <1>1, TakerRequiresTable
  DEF Grows, TakerRefundEvents, TakerEventOK, TakerEventBacked
<1>3. TakerEventOK(wait, t_saved \cup {event, wait})'
  BY <1>1, TakerRequiresTable DEF Grows, TakerEventOK, TakerEventBacked
<1>. QED  BY <1>1, <1>2, <1>3, TakerReturnTwo DEF TakerReturnRefund

-----------------------------------------------------------------------------
(* The driver.                                                             *)

\* Saving an event moves its promise from the batch into the log.
LEMMA TakerSaveSide ==
  ASSUME TakerSide, Grows, TakerSaveEvent
  PROVE  TakerSide'
<1>0. PICK head : head = Head(t_pending)
  OBVIOUS
<1>1. /\ t_pc = "Saving"
      /\ t_pending \in Seq(TakerEvents) /\ t_pending # <<>>
      /\ TakerGoesOn(t_next, t_pending[Len(t_pending)])
  BY DEF TakerSaveEvent, TakerSide, TakerControlTypeOK, TakerControlInv
<1>2. /\ t_saved' = t_saved \cup {head}
      /\ t_last' = head
      /\ t_pending' = Tail(t_pending)
      /\ UNCHANGED t_deadline
  BY <1>0 DEF TakerSaveEvent
<1>3. /\ head \in TakerEvents /\ head = t_pending[1]
      /\ t_pending' \in Seq(TakerEvents)
      /\ Len(t_pending') = Len(t_pending) - 1
      /\ \A n \in 1..Len(t_pending') : t_pending'[n] = t_pending[n + 1]
  BY SMT, <1>0, <1>1, <1>2
<1>4. TakerControlTypeOK'
  BY <1>1, <1>2, <1>3 DEF TakerSaveEvent, TakerSide, TakerControlTypeOK
<1>5. TakerLogInv'
  <2>1. ASSUME NEW event \in t_saved PROVE TakerEventOK(event, t_saved)'
    BY <1>2, TakerEventStays DEF TakerSide, TakerLogInv
  <2>2. TakerEventOK(head, t_saved)'
    <3>1. TakerEventOK(head, Upto(t_saved, t_pending, 1))
      BY SMT, <1>1, <1>3 DEF TakerSide, TakerLogInv
    <3>2. Upto(t_saved, t_pending, 1) \subseteq t_saved'
      BY SMT, <1>2, <1>3 DEF Upto
    <3>. QED  BY <3>1, <3>2, TakerEventStays
  <2>3. ASSUME NEW n \in 1..Len(t_pending')
        PROVE  TakerEventOK(t_pending[n], Upto(t_saved, t_pending, n))'
    <3>1. TakerEventOK(t_pending[n + 1], Upto(t_saved, t_pending, n + 1))
      BY SMT, <1>1, <1>3 DEF TakerSide, TakerLogInv
    <3>2. Upto(t_saved, t_pending, n + 1) \subseteq Upto(t_saved', t_pending', n)
      <4>1. ASSUME NEW i \in 1..(n + 1), i # 1
            PROVE  i - 1 \in 1..n /\ t_pending'[i - 1] = t_pending[i]
        BY SMT, <1>1, <1>3, <4>1
      <4>2. ASSUME NEW i \in 1..(n + 1)
            PROVE  t_pending[i] \in Upto(t_saved', t_pending', n)
        BY <1>2, <1>3, <4>1 DEF Upto
      <4>3. t_saved \subseteq Upto(t_saved', t_pending', n)
        BY <1>2 DEF Upto
      <4>. QED  BY <4>2, <4>3 DEF Upto
    <3>3. t_pending'[n] = t_pending[n + 1]
      BY <1>3
    <3>. QED  BY <3>1, <3>2, <3>3, TakerEventStays
  <2>. QED  BY <1>2, <2>1, <2>2, <2>3 DEF TakerLogInv
<1>6. TakerControlInv'
  <2>1. CASE Len(t_pending) = 1
    <3>1. t_pending' = <<>> /\ TakerGoesOn(t_pc', head)
      BY SMT, <1>1, <1>2, <1>3, <2>1 DEF TakerSaveEvent
    <3>2. TakerCommandAt(t_pc') = t_pc'
      BY <3>1, TakerGetCommandType DEF TakerGoesOn, TakerCommandAt, TakerCommands
    <3>3. t_pc' \notin {"Saving", "Lost", "Panicked"}
      BY <3>1, TakerGetCommandType DEF TakerGoesOn, TakerCommands
    <3>. QED  BY <1>2, <3>1, <3>2, <3>3 DEF TakerControlInv
  <2>2. CASE Len(t_pending) # 1
    <3>1. t_pending' # <<>> /\ t_pending'[Len(t_pending')] = t_pending[Len(t_pending)]
      BY SMT, <1>1, <1>3, <2>2
    <3>2. t_pc' = "Saving" /\ t_next' = t_next
      BY <1>1, <2>2 DEF TakerSaveEvent
    <3>. QED  BY <1>1, <3>1, <3>2 DEF TakerControlInv, TakerCommands, TakerAwaits
  <2>. QED  BY <2>1, <2>2
<1>. QED  BY <1>4, <1>5, <1>6 DEF TakerSide

\* A restart continues at the command of the last event.
LEMMA TakerKickStartSide ==
  ASSUME TakerSide, Grows, TakerKickStart
  PROVE  TakerSide'
<1>1. /\ t_pc = "Down" /\ t_pc' = TakerGetCommand(t_last)
      /\ t_pending = <<>>
      /\ UNCHANGED <<t_next, t_pending, t_saved, t_last, t_deadline>>
  BY DEF TakerKickStart, TakerSide, TakerControlInv
<1>2. TakerControlTypeOK'
  BY <1>1, TakerGetCommandType DEF TakerSide, TakerControlTypeOK
<1>3. TakerLogInv'
  BY <1>1, TakerLogStays
<1>4. TakerControlInv'
  <2>1. t_pc' \in TakerCommands => t_last \in t_saved
    BY <1>1, TakerCommandTable DEF TakerSide, TakerControlTypeOK, TakerCommands
  <2>2. TakerCommandAt(t_pc') = t_pc'
    BY <1>1, TakerGetCommandType DEF TakerCommandAt, TakerCommands
  <2>. QED  BY <1>1, <2>1, <2>2, TakerGetCommandType
            DEF TakerControlInv, TakerGoesOn, TakerCommands, TakerAwaits
<1>. QED  BY <1>2, <1>3, <1>4 DEF TakerSide

\* A crash loses the batch and nothing else that was promised.
LEMMA TakerCrashSide ==
  ASSUME TakerSide, TakerDataTypeOK, Grows, TakerCrash
  PROVE  TakerSide' /\ TakerDataTypeOK'
<1>1. TakerControlTypeOK'
  BY SMT DEF TakerCrash, TakerSide, TakerControlTypeOK
<1>2. TakerLogInv'
  BY TakerLogStays DEF TakerCrash
<1>3. TakerControlInv'
  BY DEF TakerCrash, TakerControlInv, TakerCommands, TakerAwaits
<1>4. TakerDataTypeOK'
  BY DEF TakerCrash, TakerDataTypeOK
<1>. QED  BY <1>1, <1>2, <1>3, <1>4 DEF TakerSide

-----------------------------------------------------------------------------
(* The handlers.                                                           *)

\* Every handler keeps the taker's side.
LEMMA TakerHandlerSide ==
  ASSUME TakerSide, TakerDataTypeOK, ChainTypeOK, now \in Nat, NetInv, Grows,
         TakerHandler
  PROVE  TakerSide'
<1>. USE DEF TakerFinishEvents, TakerRefundEvents, TakerAbandons, TakerGoesOn
<1>1. CASE TakerStart
  <2>1. CASE TakerReturn("Negotiate", <<"Started">>)
    BY <2>1, TakerReturnOne, TakerCommandTable, TakerRequiresTable
    DEF TakerEvents, TakerEventOK, TakerEventBacked
  <2>. QED  BY <1>1, <2>1, TakerFails DEF TakerStart
<1>2. CASE TakerNegotiate
  BY <1>2, TakerAwaitSide, WaitUntilNat, LockAssumption
  DEF TakerNegotiate, TakerCommandAt, TakerCommands, TakerAwaits
<1>3. CASE TakerNegotiateRecv
  <2>1. t_pc = "Negotiate.recv"
    BY <1>3 DEF TakerNegotiateRecv
  <2>2. CASE TakerAwait("Negotiate.negotiated", WaitUntil(NegotiationTimeout))
    BY <2>1, <2>2, TakerAwaitSide, WaitUntilNat, LockAssumption
    DEF TakerCommandAt, TakerCommands, TakerAwaits
  <2>. QED  BY <1>3, <2>2, TakerFails DEF TakerNegotiateRecv
<1>4. CASE TakerNegotiated
  <2>1. "Started" \in t_saved
    BY <1>4, TakerPaths DEF TakerNegotiated
  <2>2. CASE TakerReturn("SendTakerFee", <<"Negotiated">>)
    BY <2>1, <2>2, TakerReturnOne, TakerCommandTable, TakerRequiresTable
    DEF Grows, TakerEvents, TakerEventOK, TakerEventBacked
  <2>. QED  BY <1>4, <2>2, TakerFails DEF TakerNegotiated
<1>5. CASE TakerNegotiateTimeout
  BY <1>5, TakerFails DEF TakerNegotiateTimeout
<1>6. CASE TakerSendFee
  <2>1. CASE t_pc = "SendTakerFee" /\ TakerAwait("SendTakerFee.send", 0)
    BY <2>1, TakerAwaitSide DEF TakerCommandAt, TakerCommands, TakerAwaits
  <2>. QED  BY <1>6, <2>1, TakerFails DEF TakerSendFee
<1>7. CASE TakerSendFeeSend
  <2>1. "Started" \in t_saved
    BY <1>7, TakerPaths DEF TakerSendFeeSend
  <2>2. CASE FeeSent /\ TakerReturn("WaitForMakerPayment", <<"TakerFeeSent">>)
    <3>1. paid'["taker_fee"] > 0
      BY SMT, <2>2 DEF FeeSent, ChainTypeOK, Transfers
    <3>. QED  BY <2>1, <2>2, <3>1, TakerReturnOne, TakerCommandTable, TakerRequiresTable
              DEF Grows, TakerEvents, TakerEventOK, TakerEventBacked
  <2>. QED  BY <1>7, <2>2, TakerFails DEF TakerSendFeeSend
<1>8. CASE TakerWaitForMakerPayment
  <2>1. t_pc = "WaitForMakerPayment"
    BY <1>8 DEF TakerWaitForMakerPayment
  <2>2. CASE TakerAwait("WaitForMakerPayment.recv", WaitUntil(FeeTimeout))
    BY <2>1, <2>2, TakerAwaitSide, WaitUntilNat, LockAssumption
    DEF TakerCommandAt, TakerCommands, TakerAwaits
  <2>. QED  BY <1>8, <2>2, TakerFails DEF TakerWaitForMakerPayment
<1>9. CASE TakerMakerPaymentRecv
  <2>. DEFINE a == "TakerPaymentInstructionsReceived"
              b == "MakerPaymentReceived"
              c == "MakerPaymentWaitConfirmStarted"
  <2>1. "Started" \in t_saved /\ OnChain("maker_payment")
    BY <1>9, TakerPaths DEF TakerMakerPaymentRecv, Received, NetInv
  <2>2. CASE TakerReturn("ValidateMakerPayment", <<a, b, c>>)
    <3>1. /\ TakerEventOK(a, t_saved \cup {a})'
          /\ TakerEventOK(c, t_saved \cup {a, b, c})'
      BY <2>1, TakerCommandTable, TakerRequiresTable
      DEF Grows, TakerEventOK, TakerEventBacked
    <3>2. TakerEventOK(b, t_saved \cup {a, b})'
      BY <2>1, TakerCommandTable, TakerRequiresTable
      DEF Grows, Payments, TakerEventOK, TakerEventBacked
    <3>. QED  BY ZenonT(30), <2>2, <3>1, <3>2, TakerReturnThree, TakerCommandTable DEF TakerEvents
  <2>. QED  BY <1>9, <2>2, TakerFails DEF TakerMakerPaymentRecv
<1>10. CASE TakerMakerPaymentRecvTimeout
  BY <1>10, TakerFails DEF TakerMakerPaymentRecvTimeout
<1>11. CASE TakerValidateMakerPayment
  <2>1. {"Started", "MakerPaymentReceived"} \subseteq t_saved
    BY <1>11, TakerPaths DEF TakerValidateMakerPayment
  <2>2. CASE /\ Confirmed("maker_payment")
             /\ TakerReturn("SendTakerPayment", <<"MakerPaymentValidatedAndConfirmed">>)
    BY <2>1, <2>2, TakerReturnOne, TakerCommandTable, TakerRequiresTable
    DEF Grows, Payments, TakerEvents, TakerEventOK, TakerEventBacked
  <2>3. \/ \E event \in TakerFinishEvents \ {"MakerPaymentSpent"} :
             TakerReturn("Finish", <<event>>)
        \/ /\ Confirmed("maker_payment")
           /\ TakerReturn("SendTakerPayment", <<"MakerPaymentValidatedAndConfirmed">>)
    BY <1>11 DEF TakerValidateMakerPayment, MakerPaymentConfirmedInTime
  <2>. QED  BY <2>2, <2>3, TakerFails
<1>12. CASE TakerValidatePanics
  <2>1. /\ t_pc = "ValidateMakerPayment" /\ t_pc' = "Panicked"
        /\ "MakerPaymentReceived" \notin t_saved
        /\ UNCHANGED <<t_next, t_pending, t_saved, t_last, t_deadline>>
    BY <1>12 DEF TakerValidatePanics
  <2>2. t_pending = <<>>
    BY <2>1 DEF TakerSide, TakerControlInv
  <2>3. TakerControlTypeOK'
    BY <2>1 DEF TakerSide, TakerControlTypeOK
  <2>4. TakerLogInv'
    BY <2>1, <2>2, TakerLogStays
  <2>5. TakerControlInv'
    BY <2>1, <2>2 DEF TakerControlInv, TakerCommands, TakerAwaits
  <2>. QED  BY <2>3, <2>4, <2>5 DEF TakerSide
<1>13. CASE TakerSendPayment
  <2>1. CASE t_pc = "SendTakerPayment" /\ TakerAwait("SendTakerPayment.send", 0)
    BY <2>1, TakerAwaitSide DEF TakerCommandAt, TakerCommands, TakerAwaits
  <2>. QED  BY <1>13, <2>1, TakerFails DEF TakerSendPayment
<1>14. CASE TakerSendPaymentSend
  <2>. DEFINE a == "TakerPaymentSent"
              b == "WatcherMessageSent"
  <2>1. {"Started", "MakerPaymentReceived"} \subseteq t_saved
    BY <1>14, TakerPaths DEF TakerSendPaymentSend
  <2>2. CASE TakerPaymentFound /\ \/ TakerReturn("WaitForTakerPaymentSpend", <<a>>)
                                  \/ TakerReturn("WaitForTakerPaymentSpend", <<a, b>>)
    <3>1. OnChain("taker_payment")'
      BY <2>2 DEF TakerPaymentFound, ChainUnchanged, SendPayment, OnChain, ChainTypeOK,
                  Payments
    <3>2. TakerEventOK(a, t_saved \cup {a})'
      BY <2>1, <3>1, TakerCommandTable, TakerRequiresTable
      DEF Grows, TakerEventOK, TakerEventBacked
    <3>3. TakerEventOK(b, t_saved \cup {a, b})'
      BY <2>1, TakerCommandTable, TakerRequiresTable
      DEF Grows, TakerEventOK, TakerEventBacked
    <3>. QED  BY <2>2, <3>2, <3>3, TakerReturnOne, TakerReturnTwo, TakerCommandTable
              DEF TakerEvents
  <2>3. \/ TakerReturn("Finish", <<"TakerPaymentTransactionFailed">>)
        \/ TakerPaymentFound /\ \/ TakerReturn("WaitForTakerPaymentSpend", <<a>>)
                                \/ TakerReturn("WaitForTakerPaymentSpend", <<a, b>>)
    BY <1>14 DEF TakerSendPaymentSend, TakerPaymentSentEvents
  <2>. QED  BY <2>2, <2>3, TakerFails
<1>15. CASE TakerWaitForPaymentSpend
  BY <1>15, TakerAwaitSide
  DEF TakerWaitForPaymentSpend, TakerCommandAt, TakerCommands, TakerAwaits
<1>16. CASE TakerPaymentWaitConfirm
  <2>1. /\ t_pc = "WaitForTakerPaymentSpend.confirm"
        /\ {"Started", "MakerPaymentReceived", "TakerPaymentSent"} \subseteq t_saved
    BY <1>16, TakerPaths DEF TakerPaymentWaitConfirm
  <2>2. CASE TakerAwait("WaitForTakerPaymentSpend.spend", 0)
    BY <2>1, <2>2, TakerAwaitSide DEF TakerCommandAt, TakerCommands, TakerAwaits
  <2>. QED  BY <1>16, <2>1, <2>2, TakerFailsToRefund DEF TakerPaymentWaitConfirm
<1>17. CASE TakerPaymentSpendSeen
  <2>1. /\ {"Started", "MakerPaymentReceived", "TakerPaymentSent"} \subseteq t_saved
        /\ Spent("taker_payment")
    BY <1>17, TakerPaths DEF TakerPaymentSpendSeen, TakerPaymentSpendFound
  <2>2. CASE TakerReturn("SpendMakerPayment", <<"TakerPaymentSpent">>)
    BY <2>1, <2>2, TakerReturnOne, TakerCommandTable, TakerRequiresTable
    DEF Grows, Payments, TakerEvents, TakerEventOK, TakerEventBacked
  <2>. QED  BY <1>17, <2>1, <2>2, TakerFailsAfterPayment DEF TakerPaymentSpendSeen
<1>18. CASE TakerPaymentSpendTimeout
  BY <1>18, TakerPaths, TakerFailsToRefund DEF TakerPaymentSpendTimeout
<1>19. CASE TakerSpendMakerPayment
  <2>1. {"Started", "MakerPaymentReceived", "TakerPaymentSent"} \subseteq t_saved
    BY <1>19, TakerPaths DEF TakerSpendMakerPayment
  <2>2. CASE SpendPayment("maker_payment") /\ TakerReturn("Finish", <<"MakerPaymentSpent">>)
    <3>1. Spent("maker_payment")'
      BY <2>2 DEF SpendPayment, Spent, ChainTypeOK, Payments
    <3>. QED  BY <2>2, <3>1, TakerReturnOne, TakerCommandTable, TakerRequiresTable
              DEF TakerEvents, TakerEventOK, TakerEventBacked
  <2>. QED  BY <1>19, <2>1, <2>2, TakerFailsAfterPayment DEF TakerSpendMakerPayment
<1>20. CASE TakerPrepareForRefund
  <2>1. {"Started", "MakerPaymentReceived", "TakerPaymentSent"} \subseteq t_saved
    BY <1>20, TakerPaths DEF TakerPrepareForRefund
  <2>. QED  BY <1>20, <2>1, TakerReturnOne, TakerCommandTable, TakerRequiresTable
            DEF TakerPrepareForRefund, Grows, TakerEvents, TakerEventOK, TakerEventBacked
<1>21. ASSUME t_pc = "RefundTakerPayment", Refunded("taker_payment")',
              TakerReturn("FinalizeTakerPaymentRefund", <<"TakerPaymentRefunded">>)
       PROVE  TakerSide'
  <2>1. {"Started", "MakerPaymentReceived", "TakerPaymentSent"} \subseteq t_saved
    BY <1>21, TakerPaths
  <2>. QED  BY <1>21, <2>1, TakerReturnOne, TakerCommandTable, TakerRequiresTable
            DEF Grows, TakerEvents, TakerEventOK, TakerEventBacked
<1>22. CASE TakerWaitAutoRefund
  BY <1>21, <1>22, TakerFails DEF TakerWaitAutoRefund, Grows, Payments
<1>23. CASE TakerRefundPayment
  <2>1. CASE RefundPayment("taker_payment")
    <3>1. Refunded("taker_payment")'
      BY <2>1 DEF RefundPayment, Refunded, ChainTypeOK, Payments
    <3>. QED  BY <1>21, <1>23, <3>1, TakerFails DEF TakerRefundPayment
  <2>. QED  BY <1>23, <2>1, TakerFails DEF TakerRefundPayment
<1>24. CASE TakerFinalizeRefund
  BY <1>24, TakerFails DEF TakerFinalizeRefund
<1>25. CASE TakerFinish
  BY <1>25, TakerReturnOne, TakerCommandTable, TakerRequiresTable
  DEF TakerFinish, TakerEvents, TakerEventOK, TakerEventBacked
<1>. QED  BY <1>1, <1>2, <1>3, <1>4, <1>5, <1>6, <1>7, <1>8, <1>9, <1>10, <1>11, <1>12,
             <1>13, <1>14, <1>15, <1>16, <1>17, <1>18, <1>19, <1>20, <1>22, <1>23,
             <1>24, <1>25, TakerSaveSide, TakerKickStartSide DEF TakerHandler

-----------------------------------------------------------------------------
(* What the taker does to the rest of the world.                           *)

TakerChainMove ==
  \/ ChainUnchanged
  \/ FeeSent
  \/ /\ t_pc = "SendTakerPayment.send"
     /\ ~OnChain("taker_payment")
     /\ SendPayment("taker_payment", TakerPaymentLock)
  \/ Spent("taker_payment") /\ Claimed("maker_payment")
  \/ Returned("taker_payment")
  \/ Returned("maker_payment") /\ Refunded("taker_payment")

\* The handlers touch the chains in five places only: the maker payment is claimed
\* with a secret that is public, and handed back only after the taker payment.
LEMMA TakerHandlerChain ==
  ASSUME TakerSide, TakerHandler
  PROVE  TakerChainMove
<1>. USE DEF TakerChainMove
<1>1. CASE TakerSendPaymentSend
  BY <1>1 DEF TakerSendPaymentSend, TakerPaymentFound
<1>2. CASE TakerSpendMakerPayment
  <2>1. Spent("taker_payment")
    BY <1>2, TakerPaths
    DEF TakerSpendMakerPayment, TakerSide, TakerLogInv, TakerEventOK, TakerEventBacked
  <2>. QED  BY <1>2, <2>1 DEF TakerSpendMakerPayment, Claimed
<1>3. CASE TakerFinalizeRefund
  <2>1. t_last \in t_saved /\ TakerGetCommand(t_last) = "FinalizeTakerPaymentRefund"
    BY <1>3 DEF TakerFinalizeRefund, TakerSide, TakerControlInv, TakerGoesOn, TakerCommandAt,
                TakerCommands
  <2>2. t_last = "TakerPaymentRefunded"
    BY <2>1 DEF TakerGetCommand, TakerRefundEvents, TakerFinishEvents
  <2>3. Refunded("taker_payment")
    BY <2>1, <2>2 DEF TakerSide, TakerLogInv, TakerEventOK, TakerEventBacked
  <2>. QED  BY <1>3, <2>3 DEF TakerFinalizeRefund, Returned
<1>4. CASE TakerRefundPayment
  BY <1>4 DEF TakerRefundPayment, RefundPayment, Returned, Payments
<1>5. CASE TakerSendFeeSend
  BY <1>5 DEF TakerSendFeeSend
<1>6. CASE \/ TakerStart \/ TakerNegotiate \/ TakerNegotiateRecv \/ TakerNegotiated
           \/ TakerNegotiateTimeout \/ TakerSendFee \/ TakerWaitForMakerPayment
           \/ TakerMakerPaymentRecv \/ TakerMakerPaymentRecvTimeout
           \/ TakerValidateMakerPayment \/ TakerValidatePanics
  BY <1>6
  DEF TakerStart, TakerNegotiate, TakerNegotiateRecv, TakerNegotiated,
      TakerNegotiateTimeout, TakerSendFee, TakerWaitForMakerPayment,
      TakerMakerPaymentRecv, TakerMakerPaymentRecvTimeout, TakerValidateMakerPayment,
      TakerValidatePanics
<1>7. CASE \/ TakerSendPayment \/ TakerWaitForPaymentSpend \/ TakerPaymentWaitConfirm
           \/ TakerPaymentSpendSeen \/ TakerPaymentSpendTimeout \/ TakerPrepareForRefund
           \/ TakerWaitAutoRefund \/ TakerFinish \/ TakerSaveEvent \/ TakerKickStart
  BY <1>7
  DEF TakerSendPayment, TakerWaitForPaymentSpend, TakerPaymentWaitConfirm,
      TakerPaymentSpendSeen, TakerPaymentSpendTimeout, TakerPrepareForRefund,
      TakerWaitAutoRefund, TakerFinish, TakerSaveEvent, TakerKickStart
<1>. QED  BY <1>1, <1>2, <1>3, <1>4, <1>5, <1>6, <1>7 DEF TakerHandler

\* Each of them is a step the chains allow.
LEMMA TakerMoveStep ==
  ASSUME TakerDataTypeOK, TakerChainMove
  PROVE  ChainStep
<1>1. TakerPaymentLock \in Nat
  BY SMT, LockAssumption DEF TakerDataTypeOK, TakerPaymentLock
<1>. QED  BY <1>1 DEF TakerChainMove, ChainStep, Locked, Payments

\* No handler forgets an event.
LEMMA TakerHandlerLog ==
  ASSUME TakerHandler
  PROVE  t_saved \subseteq t_saved'
<1>. USE DEF TakerReturn, TakerAwait
<1>1. CASE \/ TakerStart \/ TakerNegotiate \/ TakerNegotiateRecv \/ TakerNegotiated
           \/ TakerNegotiateTimeout \/ TakerSendFee \/ TakerSendFeeSend
           \/ TakerWaitForMakerPayment \/ TakerMakerPaymentRecv
  BY <1>1
  DEF TakerStart, TakerNegotiate, TakerNegotiateRecv, TakerNegotiated,
      TakerNegotiateTimeout, TakerSendFee, TakerSendFeeSend, TakerWaitForMakerPayment,
      TakerMakerPaymentRecv
<1>2. CASE \/ TakerMakerPaymentRecvTimeout \/ TakerValidateMakerPayment
           \/ TakerValidatePanics \/ TakerSendPayment \/ TakerSendPaymentSend
           \/ TakerWaitForPaymentSpend \/ TakerPaymentWaitConfirm
  BY <1>2
  DEF TakerMakerPaymentRecvTimeout, TakerValidateMakerPayment, TakerValidatePanics,
      TakerSendPayment, TakerSendPaymentSend, TakerWaitForPaymentSpend,
      TakerPaymentWaitConfirm, TakerReturnRefund
<1>3. CASE \/ TakerPaymentSpendSeen \/ TakerPaymentSpendTimeout \/ TakerSpendMakerPayment
           \/ TakerPrepareForRefund \/ TakerWaitAutoRefund \/ TakerRefundPayment
           \/ TakerFinalizeRefund \/ TakerFinish \/ TakerSaveEvent \/ TakerKickStart
  BY <1>3
  DEF TakerPaymentSpendSeen, TakerPaymentSpendTimeout, TakerSpendMakerPayment,
      TakerPrepareForRefund, TakerWaitAutoRefund, TakerRefundPayment,
      TakerFinalizeRefund, TakerFinish, TakerSaveEvent, TakerKickStart, TakerReturnRefund
<1>. QED  BY <1>1, <1>2, <1>3 DEF TakerHandler

\* The data of the swap, the topic and the error budget keep their types.
LEMMA TakerHandlerData ==
  ASSUME TakerDataTypeOK, now \in Nat, net \subseteq SwapMsg, faults \in Nat, TakerHandler
  PROVE  TakerDataTypeOK' /\ net' \subseteq SwapMsg /\ faults' \in Nat
<1>. USE DEF TakerDataTypeOK, TakerDataUnchanged, Fault, NoFault
<1>0. ASSUME NEW msg \in SwapMsg, Broadcast(msg) PROVE net' \subseteq SwapMsg
  BY <1>0 DEF Broadcast
<1>1. CASE TakerStart
  BY SMT, <1>1, BoundAssumption DEF TakerStart
<1>2. CASE TakerNegotiateRecv
  <2>1. ASSUME NEW msg \in Received("Negotiation") PROVE msg.payment_locktime \in Nat
    <3>1. msg \in SwapMsg /\ msg.kind = "Negotiation"
      BY DEF Received
    <3>. QED  BY <3>1, NegotiationMessageNat
  <2>2. TakerPaymentLock \in Nat
    BY SMT, LockAssumption DEF TakerPaymentLock
  <2>3. [kind |-> "NegotiationReply", started_at |-> t_started_at,
         payment_locktime |-> TakerPaymentLock] \in SwapMsg
    BY <2>2, MessageType
  <2>4. net' \subseteq SwapMsg
    BY <1>0, <1>2, <2>3 DEF TakerNegotiateRecv
  <2>5. t_maker_lock' \in Nat
    BY <1>2, <2>1 DEF TakerNegotiateRecv
  <2>. QED  BY SMT, <1>2, <2>4, <2>5 DEF TakerNegotiateRecv
<1>3. CASE TakerWaitForMakerPayment \/ TakerWaitForPaymentSpend
  <2>1. [kind |-> "TakerFee"] \in SwapMsg /\ [kind |-> "TakerPayment"] \in SwapMsg
    BY MessageType
  <2>. QED  BY SMT, <1>0, <1>3, <2>1 DEF TakerWaitForMakerPayment, TakerWaitForPaymentSpend
<1>4. CASE \/ TakerNegotiate \/ TakerNegotiated \/ TakerNegotiateTimeout \/ TakerSendFee
           \/ TakerSendFeeSend \/ TakerMakerPaymentRecv \/ TakerMakerPaymentRecvTimeout
           \/ TakerValidateMakerPayment \/ TakerValidatePanics \/ TakerSendPayment
           \/ TakerSendPaymentSend \/ TakerPaymentWaitConfirm
  BY SMT, <1>4
  DEF TakerNegotiate, TakerNegotiated, TakerNegotiateTimeout, TakerSendFee,
      TakerSendFeeSend, TakerMakerPaymentRecv, TakerMakerPaymentRecvTimeout,
      TakerValidateMakerPayment, TakerValidatePanics, TakerSendPayment,
      TakerSendPaymentSend, TakerPaymentWaitConfirm
<1>5. CASE \/ TakerPaymentSpendSeen \/ TakerPaymentSpendTimeout \/ TakerSpendMakerPayment
           \/ TakerPrepareForRefund \/ TakerWaitAutoRefund \/ TakerRefundPayment
           \/ TakerFinalizeRefund \/ TakerFinish \/ TakerSaveEvent \/ TakerKickStart
  BY SMT, <1>5
  DEF TakerPaymentSpendSeen, TakerPaymentSpendTimeout, TakerSpendMakerPayment,
      TakerPrepareForRefund, TakerWaitAutoRefund, TakerRefundPayment,
      TakerFinalizeRefund, TakerFinish, TakerSaveEvent, TakerKickStart
<1>. QED  BY <1>1, <1>2, <1>3, <1>4, <1>5 DEF TakerHandler

\* The taker announces its fee and its payment only when they were sent.
LEMMA TakerHandlerNet ==
  ASSUME TakerSide, NetInv, Grows, TakerHandler
  PROVE  NetInv'
<1>1. CASE TakerNegotiateRecv
  BY SMT, <1>1, NetStays DEF TakerNegotiateRecv, Broadcast, NetInv, Grows, Payments
<1>2. CASE TakerWaitForMakerPayment
  <2>1. paid["taker_fee"] > 0
    BY <1>2, TakerPaths
    DEF TakerWaitForMakerPayment, TakerSide, TakerLogInv, TakerEventOK, TakerEventBacked
  <2>. QED  BY SMT, <1>2, <2>1, NetStays
            DEF TakerWaitForMakerPayment, Broadcast, NetInv, Grows, Payments
<1>3. CASE TakerWaitForPaymentSpend
  <2>1. OnChain("taker_payment")
    BY <1>3, TakerPaths
    DEF TakerWaitForPaymentSpend, TakerSide, TakerLogInv, TakerEventOK, TakerEventBacked
  <2>. QED  BY SMT, <1>3, <2>1, NetStays
            DEF TakerWaitForPaymentSpend, Broadcast, NetInv, Grows, Payments
<1>4. CASE \/ TakerStart \/ TakerNegotiate \/ TakerNegotiated \/ TakerNegotiateTimeout
           \/ TakerSendFee \/ TakerSendFeeSend \/ TakerMakerPaymentRecv
           \/ TakerMakerPaymentRecvTimeout \/ TakerValidateMakerPayment
           \/ TakerValidatePanics \/ TakerSendPayment \/ TakerSendPaymentSend
           \/ TakerPaymentWaitConfirm
  BY <1>4, NetStays
  DEF TakerStart, TakerNegotiate, TakerNegotiated, TakerNegotiateTimeout, TakerSendFee,
      TakerSendFeeSend, TakerMakerPaymentRecv, TakerMakerPaymentRecvTimeout,
      TakerValidateMakerPayment, TakerValidatePanics, TakerSendPayment,
      TakerSendPaymentSend, TakerPaymentWaitConfirm
<1>5. CASE \/ TakerPaymentSpendSeen \/ TakerPaymentSpendTimeout \/ TakerSpendMakerPayment
           \/ TakerPrepareForRefund \/ TakerWaitAutoRefund \/ TakerRefundPayment
           \/ TakerFinalizeRefund \/ TakerFinish \/ TakerSaveEvent \/ TakerKickStart
  BY <1>5, NetStays
  DEF TakerPaymentSpendSeen, TakerPaymentSpendTimeout, TakerSpendMakerPayment,
      TakerPrepareForRefund, TakerWaitAutoRefund, TakerRefundPayment,
      TakerFinalizeRefund, TakerFinish, TakerSaveEvent, TakerKickStart
<1>. QED  BY <1>1, <1>2, <1>3, <1>4, <1>5 DEF TakerHandler

-----------------------------------------------------------------------------
(* The chains after a step of the taker.                                   *)

\* Each of the taker's moves finds in its database what the order of the payments
\* asks for: the confirmed maker payment behind its own, the secret behind the spend.
LEMMA TakerMoveChain ==
  ASSUME TakerSide, ChainTypeOK, ChainInv, Grows, TakerChainMove
  PROVE  ChainInv'
<1>. USE DEF ChainTypeOK, ChainInv, Grows, SecretPublic, OnChain, Confirmed, Spent,
             Payments, Transfers
<1>1. CASE ChainUnchanged
  BY <1>1 DEF ChainUnchanged
<1>2. CASE FeeSent
  BY <1>2 DEF FeeSent
<1>3. CASE /\ t_pc = "SendTakerPayment.send"
           /\ ~OnChain("taker_payment")
           /\ SendPayment("taker_payment", TakerPaymentLock)
  <2>1. /\ {"Started", "MakerPaymentReceived", "MakerPaymentValidatedAndConfirmed"}
             \subseteq t_saved
        /\ Confirmed("maker_payment")
    BY <1>3, TakerPaths DEF TakerSide, TakerLogInv, TakerEventOK, TakerEventBacked
  <2>. QED  BY SMT, <1>3, <2>1 DEF SendPayment
<1>4. CASE Spent("taker_payment") /\ Claimed("maker_payment")
  BY <1>4 DEF Claimed, SpendPayment, Unclaimed
<1>5. ASSUME NEW p \in Payments, Returned(p) PROVE ChainInv'
  BY <1>5 DEF Returned, Unclaimed
<1>. QED  BY <1>1, <1>2, <1>3, <1>4, <1>5 DEF TakerChainMove

-----------------------------------------------------------------------------
(* The order of the taker's events.                                        *)

\* The program counters before the taker may pay.
TakerEarlyPcs ==
  {"Start", "Negotiate", "Negotiate.recv", "Negotiate.negotiated", "SendTakerFee",
   "SendTakerFee.send", "WaitForMakerPayment", "WaitForMakerPayment.recv",
   "ValidateMakerPayment"}

\* Only early events lead to a handler before the payment, and only events that do not
\* give up lead to one after it.
LEMMA TakerPcOrder ==
  ASSUME TakerSide, TakerOrderInv, t_pc \in TakerCommands \cup TakerAwaits
  PROVE  /\ t_pc \in TakerEarlyPcs => t_saved \subseteq TakerEarly
         /\ t_pc \notin TakerEarlyPcs \cup {"Finish"} => t_saved \cap TakerGaveUp = {}
<1>. USE DEF TakerEarlyPcs, TakerCommands, TakerAwaits
<1>1. CASE t_pc = "Start"
  BY <1>1 DEF TakerOrderInv, LogOrdered
<1>2. CASE t_pc \notin {"Start", "Finish"}
  <2>1. TakerGetCommand(t_last) = TakerCommandAt(t_pc)
    BY <1>2 DEF TakerSide, TakerControlInv, TakerGoesOn, TakerCommandAt
  <2>2. t_pc \in TakerEarlyPcs => t_last \in TakerEarly
    BY <1>2, <2>1 DEF TakerCommandAt, TakerGetCommand, TakerRefundEvents, TakerFinishEvents,
                      TakerEarly
  <2>3. t_pc \notin TakerEarlyPcs => t_last \notin TakerGaveUp \cup {"Finished"}
    BY SMT, <1>2, <2>1, TakerCommandTable DEF TakerCommandAt, TakerGaveUp, TakerFinishEvents
  <2>. QED  BY <2>2, <2>3 DEF TakerOrderInv, LogOrdered
<1>. QED  BY <1>1, <1>2

\* A batch whose events may follow one another.
LEMMA TakerReturnOrder ==
  ASSUME TakerOrderInv, NEW command, NEW batch, TakerReturn(command, batch),
         \A n \in 1..Len(batch) :
           Follows(batch[n], Upto(t_saved, batch, n - 1), TakerEarly, TakerGaveUp)
  PROVE  TakerOrderInv'
BY DEF TakerOrderInv, TakerReturn

\* One event.
LEMMA TakerReturnOneOrder ==
  ASSUME TakerOrderInv, NEW command, NEW a, TakerReturn(command, <<a>>),
         Follows(a, t_saved, TakerEarly, TakerGaveUp)
  PROVE  TakerOrderInv'
<1>1. ASSUME NEW n \in 1..Len(<<a>>)
      PROVE  <<a>>[n] = a /\ Upto(t_saved, <<a>>, n - 1) = t_saved
  BY SMT DEF Upto
<1>. QED  BY <1>1, TakerReturnOrder

\* A handler before the payment returns one event of any kind, or the three of
\* wait_for_maker_payment.
LEMMA TakerEarlyReturn ==
  ASSUME TakerSide, TakerOrderInv, t_pc \in TakerEarlyPcs,
         \/ \E command, a : TakerReturn(command, <<a>>)
         \/ TakerReturn("ValidateMakerPayment",
                        <<"TakerPaymentInstructionsReceived", "MakerPaymentReceived",
                          "MakerPaymentWaitConfirmStarted">>)
  PROVE  TakerOrderInv'
<1>1. t_saved \subseteq TakerEarly
  BY TakerPcOrder DEF TakerEarlyPcs, TakerCommands, TakerAwaits
<1>2. \A event : Follows(event, t_saved, TakerEarly, TakerGaveUp)
  BY <1>1 DEF Follows, TakerEarly, TakerGaveUp
<1>3. ASSUME NEW command, NEW a, TakerReturn(command, <<a>>)
      PROVE  TakerOrderInv'
  BY <1>2, <1>3, TakerReturnOneOrder
<1>. DEFINE batch == <<"TakerPaymentInstructionsReceived", "MakerPaymentReceived",
                       "MakerPaymentWaitConfirmStarted">>
<1>4. ASSUME TakerReturn("ValidateMakerPayment", batch)
      PROVE  TakerOrderInv'
  <2>1. ASSUME NEW n \in 1..Len(batch)
        PROVE  Follows(batch[n], Upto(t_saved, batch, n - 1), TakerEarly, TakerGaveUp)
    <3>1. \A i \in 1..Len(batch) : batch[i] \in TakerEarly
      BY SMT DEF TakerEarly
    <3>2. Upto(t_saved, batch, n - 1) \subseteq TakerEarly
      BY SMT, <1>1, <3>1 DEF Upto
    <3>. QED  BY <3>1, <3>2 DEF Follows
  <2>. QED  BY <1>4, <2>1, TakerReturnOrder
<1>. QED  BY <1>3, <1>4

TakerLate == TakerEvents \ (TakerEarly \cup TakerGaveUp)

\* A handler after the payment returns neither an early event nor one that gives up.
LEMMA TakerLateReturn ==
  ASSUME TakerSide, TakerOrderInv, t_pc \in TakerCommands \cup TakerAwaits,
         t_pc \notin TakerEarlyPcs \cup {"Finish"},
         \E command : \/ \E a \in TakerLate : TakerReturn(command, <<a>>)
                      \/ \E a, b \in TakerLate : TakerReturn(command, <<a, b>>)
  PROVE  TakerOrderInv'
<1>1. t_saved \cap TakerGaveUp = {}
  BY TakerPcOrder
<1>2. ASSUME NEW command, NEW a \in TakerLate, TakerReturn(command, <<a>>)
      PROVE  TakerOrderInv'
  BY <1>1, <1>2, TakerReturnOneOrder DEF Follows, TakerLate
<1>3. ASSUME NEW command, NEW a \in TakerLate, NEW b \in TakerLate,
             TakerReturn(command, <<a, b>>)
      PROVE  TakerOrderInv'
  <2>. DEFINE batch == <<a, b>>
  <2>1. ASSUME NEW n \in 1..Len(batch)
        PROVE  Follows(batch[n], Upto(t_saved, batch, n - 1), TakerEarly, TakerGaveUp)
    <3>1. \A i \in 1..Len(batch) : batch[i] \in TakerLate
      BY SMT
    <3>2. Upto(t_saved, batch, n - 1) \cap TakerGaveUp = {}
      BY SMT, <1>1, <3>1 DEF Upto, TakerLate
    <3>. QED  BY <3>1, <3>2 DEF Follows, TakerLate
  <2>. QED  BY <1>3, <2>1, TakerReturnOrder
<1>. QED  BY <1>2, <1>3

\* A handler reaches its next await.
LEMMA TakerAwaitOrder ==
  ASSUME TakerOrderInv, NEW pc \in TakerAwaits, NEW deadline, TakerAwait(pc, deadline)
  PROVE  TakerOrderInv'
BY DEF TakerOrderInv, TakerAwait, TakerAwaits

\* Saving an event keeps the order; after the last one the swap is over or goes on.
LEMMA TakerSaveOrder ==
  ASSUME TakerSide, TakerOrderInv, TakerSaveEvent
  PROVE  TakerOrderInv'
<1>0. PICK head : head = Head(t_pending)
  OBVIOUS
<1>1. /\ t_pc = "Saving"
      /\ t_pending \in Seq(TakerEvents) /\ t_pending # <<>>
      /\ TakerGoesOn(t_next, t_pending[Len(t_pending)])
  BY DEF TakerSaveEvent, TakerSide, TakerControlTypeOK, TakerControlInv
<1>2. /\ t_saved' = t_saved \cup {head}
      /\ t_last' = head
      /\ t_pending' = Tail(t_pending)
  BY <1>0 DEF TakerSaveEvent
<1>3. head \in TakerEvents /\ head = t_pending[1] /\ head # "NoEvent" /\ 1 \in 1..Len(t_pending)
  BY SMT, <1>0, <1>1 DEF TakerEvents
<1>4. Follows(head, t_saved, TakerEarly, TakerGaveUp)
  <2>1. t_saved \subseteq Upto(t_saved, t_pending, 0)
    BY DEF Upto
  <2>2. Follows(head, Upto(t_saved, t_pending, 0), TakerEarly, TakerGaveUp)
    BY SMT, <1>3 DEF TakerOrderInv
  <2>. QED  BY <2>1, <2>2, FollowsShorter
<1>5. LogOrdered(t_last', t_saved', TakerEarly, TakerGaveUp)
  BY <1>2, <1>3, <1>4, SavedOrdered DEF TakerOrderInv, TakerEarly, TakerGaveUp
<1>6. t_saved' \cap TakerGaveUp # {} => "MakerPaymentValidatedAndConfirmed" \notin t_saved'
  BY <1>2, <1>4 DEF TakerOrderInv, Follows, TakerEarly, TakerGaveUp
<1>7. ASSUME NEW n \in 1..Len(t_pending')
      PROVE  Follows(t_pending[n], Upto(t_saved, t_pending, n - 1), TakerEarly, TakerGaveUp)'
  <2>1. /\ t_pending'[n] = t_pending[n + 1] /\ n + 1 \in 1..Len(t_pending)
        /\ Upto(t_saved', t_pending', n - 1) \subseteq Upto(t_saved, t_pending, n)
    BY <1>0, <1>1, <1>2, UptoTail
  <2>2. Follows(t_pending[n + 1], Upto(t_saved, t_pending, n), TakerEarly, TakerGaveUp)
    BY SMT, <2>1 DEF TakerOrderInv
  <2>. QED  BY <2>1, <2>2, FollowsShorter
<1>8. t_pc' \notin {"Start", "Down"} /\ (t_pc' = "None" => head = "Finished")
  <2>1. CASE Len(t_pending) = 1
    <3>1. TakerGoesOn(t_pc', head)
      BY <1>1, <1>3, <2>1 DEF TakerSaveEvent
    <3>. QED  BY <1>3, <3>1
              DEF TakerGoesOn, TakerGetCommand, TakerEvents, TakerRefundEvents,
                  TakerFinishEvents
  <2>2. CASE Len(t_pending) # 1
    BY <1>1, <2>2 DEF TakerSaveEvent
  <2>. QED  BY <2>1, <2>2
<1>. QED  BY <1>2, <1>5, <1>6, <1>7, <1>8 DEF TakerOrderInv

\* A crash keeps the record as it is.
LEMMA TakerCrashOrder ==
  ASSUME TakerOrderInv, TakerCrash
  PROVE  TakerOrderInv'
BY SMT DEF TakerOrderInv, TakerCrash

\* A restart finds the swap over only when its record says so.
LEMMA TakerKickStartOrder ==
  ASSUME TakerSide, TakerOrderInv, TakerKickStart
  PROVE  TakerOrderInv'
<1>1. t_last \in t_saved /\ t_last \in TakerEvents
  BY DEF TakerKickStart, TakerOrderInv, LogOrdered, TakerSide, TakerControlTypeOK
<1>2. t_pc' = TakerGetCommand(t_last)
  BY DEF TakerKickStart
<1>3. t_pc' \notin {"Start", "Down"} /\ (t_pc' = "None" => t_last = "Finished")
  BY <1>1, <1>2 DEF TakerGetCommand, TakerEvents, TakerRefundEvents, TakerFinishEvents
<1>. QED  BY <1>1, <1>3 DEF TakerKickStart, TakerOrderInv

\* Every handler keeps the order of the taker's events.
LEMMA TakerHandlerOrder ==
  ASSUME TakerSide, TakerOrderInv, TakerHandler
  PROVE  TakerOrderInv'
<1>. USE DEF TakerReturnRefund
<1>1. CASE TakerNegotiate \/ TakerWaitForPaymentSpend
  BY <1>1, TakerAwaitOrder DEF TakerNegotiate, TakerWaitForPaymentSpend, TakerAwaits
<1>2. CASE \/ TakerStart \/ TakerNegotiateRecv \/ TakerNegotiated \/ TakerNegotiateTimeout
           \/ TakerSendFee \/ TakerSendFeeSend
  <2>1. t_pc \in TakerEarlyPcs
    BY <1>2 DEF TakerStart, TakerNegotiateRecv, TakerNegotiated, TakerNegotiateTimeout,
                TakerSendFee, TakerSendFeeSend, TakerEarlyPcs
  <2>2. \/ \E pc \in TakerAwaits : \E deadline : TakerAwait(pc, deadline)
        \/ \E command, a : TakerReturn(command, <<a>>)
    BY <1>2 DEF TakerStart, TakerNegotiateRecv, TakerNegotiated, TakerNegotiateTimeout,
                TakerSendFee, TakerSendFeeSend, TakerAwaits
  <2>. QED  BY <2>1, <2>2, TakerEarlyReturn, TakerAwaitOrder
<1>3. CASE \/ TakerWaitForMakerPayment \/ TakerMakerPaymentRecv
           \/ TakerMakerPaymentRecvTimeout \/ TakerValidateMakerPayment
  <2>1. t_pc \in TakerEarlyPcs
    BY <1>3 DEF TakerWaitForMakerPayment, TakerMakerPaymentRecv,
                TakerMakerPaymentRecvTimeout, TakerValidateMakerPayment, TakerEarlyPcs
  <2>2. \/ \E pc \in TakerAwaits : \E deadline : TakerAwait(pc, deadline)
        \/ \E command, a : TakerReturn(command, <<a>>)
        \/ TakerReturn("ValidateMakerPayment",
                       <<"TakerPaymentInstructionsReceived", "MakerPaymentReceived",
                         "MakerPaymentWaitConfirmStarted">>)
    BY <1>3 DEF TakerWaitForMakerPayment, TakerMakerPaymentRecv,
                TakerMakerPaymentRecvTimeout, TakerValidateMakerPayment, TakerAwaits
  <2>. QED  BY <2>1, <2>2, TakerEarlyReturn, TakerAwaitOrder
<1>4. CASE TakerValidatePanics
  BY <1>4 DEF TakerValidatePanics, TakerOrderInv
<1>5. CASE \/ TakerSendPayment \/ TakerSendPaymentSend \/ TakerPaymentWaitConfirm
           \/ TakerPaymentSpendSeen \/ TakerPaymentSpendTimeout
  <2>1. /\ t_pc \in TakerCommands \cup TakerAwaits
        /\ t_pc \notin TakerEarlyPcs \cup {"Finish"}
    BY <1>5 DEF TakerSendPayment, TakerSendPaymentSend, TakerPaymentWaitConfirm,
                TakerPaymentSpendSeen, TakerPaymentSpendTimeout, TakerEarlyPcs,
                TakerCommands, TakerAwaits
  <2>2. \/ \E pc \in TakerAwaits : \E deadline : TakerAwait(pc, deadline)
        \/ \E command : \/ \E a \in TakerLate : TakerReturn(command, <<a>>)
                        \/ \E a, b \in TakerLate : TakerReturn(command, <<a, b>>)
    BY <1>5 DEF TakerSendPayment, TakerSendPaymentSend, TakerPaymentSentEvents,
                TakerPaymentWaitConfirm, TakerPaymentSpendSeen, TakerPaymentSpendTimeout,
                TakerAwaits, TakerLate, TakerEvents, TakerEarly, TakerGaveUp
  <2>. QED  BY <2>1, <2>2, TakerLateReturn, TakerAwaitOrder
<1>6. CASE \/ TakerSpendMakerPayment \/ TakerPrepareForRefund \/ TakerWaitAutoRefund
           \/ TakerRefundPayment \/ TakerFinalizeRefund
  <2>1. /\ t_pc \in TakerCommands \cup TakerAwaits
        /\ t_pc \notin TakerEarlyPcs \cup {"Finish"}
    BY <1>6 DEF TakerSpendMakerPayment, TakerPrepareForRefund, TakerWaitAutoRefund,
                TakerRefundPayment, TakerFinalizeRefund, TakerEarlyPcs, TakerCommands,
                TakerAwaits
  <2>2. \E command : \E a \in TakerLate : TakerReturn(command, <<a>>)
    BY <1>6 DEF TakerSpendMakerPayment, TakerPrepareForRefund, TakerWaitAutoRefund,
                TakerRefundPayment, TakerFinalizeRefund, TakerLate, TakerEvents,
                TakerEarly, TakerGaveUp
  <2>. QED  BY <2>1, <2>2, TakerLateReturn
<1>7. CASE TakerFinish
  BY <1>7, TakerReturnOneOrder DEF TakerFinish, Follows, TakerEarly, TakerGaveUp
<1>. QED  BY <1>1, <1>2, <1>3, <1>4, <1>5, <1>6, <1>7, TakerSaveOrder, TakerKickStartOrder
          DEF TakerHandler

=============================================================================
