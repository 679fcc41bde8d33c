------------------------ MODULE AtomicSwapInduction ------------------------
(***************************************************************************)
(* The inductive strengthening behind the safety of AtomicSwap.            *)
(*                                                                         *)
(* A restart knows only the database, so what makes the swap safe has to   *)
(* be a fact about the events saved so far: each event promises something  *)
(* about the chains that stays true, and the command that get_command      *)
(* derives from it finds the events it unwraps.  The events of a batch     *)
(* that is being saved promise the same, in the order they are saved in.   *)
(***************************************************************************)
EXTENDS AtomicSwap

\* The command a program counter belongs to.
MakerCommandAt(pc) ==
  CASE pc = "Negotiate.recv" -> "Negotiate"
    [] pc = "WaitForTakerFee.recv" -> "WaitForTakerFee"
    [] pc = "SendPayment.send" -> "SendPayment"
    [] pc \in {"WaitForTakerPayment.confirm", "WaitForTakerPayment.recv"}
         -> "WaitForTakerPayment"
    [] pc = "SpendTakerPayment.send" -> "SpendTakerPayment"
    [] OTHER -> pc

TakerCommandAt(pc) ==
  CASE pc \in {"Negotiate.recv", "Negotiate.negotiated"} -> "Negotiate"
    [] pc = "SendTakerFee.send" -> "SendTakerFee"
    [] pc = "WaitForMakerPayment.recv" -> "WaitForMakerPayment"
    [] pc = "SendTakerPayment.send" -> "SendTakerPayment"
    [] pc \in {"WaitForTakerPaymentSpend.confirm", "WaitForTakerPaymentSpend.spend"}
         -> "WaitForTakerPaymentSpend"
    [] OTHER -> pc

\* Events a handler of this command relies on.
MakerRequires(command) ==
  CASE command = "Negotiate" -> {"Started"}
    [] command = "WaitForTakerFee" -> {"Started", "Negotiated"}
    [] command = "SendPayment" -> {"Started", "Negotiated", "TakerFeeValidated"}
    [] command \in {"WaitForTakerPayment", "PrepareForMakerPaymentRefund",
                    "RefundMakerPayment", "FinalizeMakerPaymentRefund"}
         -> {"Started", "Negotiated", "MakerPaymentSent"}
    [] command = "ValidateTakerPayment"
         -> {"Started", "Negotiated", "MakerPaymentSent", "TakerPaymentReceived"}
    [] command = "SpendTakerPayment"
         -> {"Started", "Negotiated", "MakerPaymentSent", "TakerPaymentReceived",
             "TakerPaymentValidatedAndConfirmed"}
    [] command = "ConfirmTakerPaymentSpend"
         -> {"Started", "Negotiated", "MakerPaymentSent", "TakerPaymentReceived",
             "TakerPaymentValidatedAndConfirmed", "TakerPaymentSpent"}
    [] OTHER -> {}

\* validate_maker_payment is the one handler that may find its unwrap() empty.
TakerRequires(command) ==
  CASE command \in {"Negotiate", "SendTakerFee", "ValidateMakerPayment"} -> {"Started"}
    [] command = "WaitForMakerPayment" -> {"Started", "TakerFeeSent"}
    [] command = "SendTakerPayment"
         -> {"Started", "MakerPaymentReceived", "MakerPaymentValidatedAndConfirmed"}
    [] command \in {"WaitForTakerPaymentSpend", "PrepareForTakerPaymentRefund",
                    "RefundTakerPayment", "FinalizeTakerPaymentRefund"}
         -> {"Started", "MakerPaymentReceived", "TakerPaymentSent"}
    [] command = "SpendMakerPayment"
         -> {"Started", "MakerPaymentReceived", "TakerPaymentSent", "TakerPaymentSpent"}
    [] OTHER -> {}

\* What the event promises, the fee behind TakerFeeValidated included.
MakerEventOK(event, log) ==
  /\ MakerEventBacked(event)
  /\ event = "TakerFeeValidated" => paid["taker_fee"] > 0
  /\ MakerRequires(MakerGetCommand(event)) \subseteq log

TakerEventOK(event, log) ==
  /\ TakerEventBacked(event)
  /\ event = "MakerPaymentWaitConfirmStarted" => "MakerPaymentReceived" \in log
  /\ TakerRequires(TakerGetCommand(event)) \subseteq log

\* The log while the first n events of a batch are in it.
Upto(saved, pending, n) == saved \cup {pending[i] : i \in 1..n}

MakerLogInv ==
  /\ \A event \in m_saved : MakerEventOK(event, m_saved)
  /\ \A n \in 1..Len(m_pending) :
       MakerEventOK(m_pending[n], Upto(m_saved, m_pending, n))

TakerLogInv ==
  /\ \A event \in t_saved : TakerEventOK(event, t_saved)
  /\ \A n \in 1..Len(t_pending) :
       TakerEventOK(t_pending[n], Upto(t_saved, t_pending, n))

\* A batch is being saved and ends in the event that stands for the next command;
\* outside of it the program counter stands at the command of the last event.
MakerControlInv ==
  /\ m_pc = "Saving" =>
       m_pending # <<>> /\ m_next = MakerGetCommand(m_pending[Len(m_pending)])
  /\ m_pc # "Saving" => m_pending = <<>>
  /\ m_pc \in MakerCommands \cup MakerAwaits /\ m_pc # "Start" =>
       m_last \in m_saved /\ MakerCommandAt(m_pc) = MakerGetCommand(m_last)
  /\ m_pc = "Lost" => "Started" \notin m_saved

\* Events with which the taker finishes although get_command would refund.
TakerAbandons == {"TakerPaymentWaitForSpendFailed", "MakerPaymentSpendFailed"}

\* The taker goes on with the command of the event, or it finishes there.
TakerGoesOn(command, event) ==
  \/ command = TakerGetCommand(event)
  \/ command = "Finish" /\ event \in TakerAbandons

TakerControlInv ==
  /\ t_pc = "Saving" =>
       t_pending # <<>> /\ TakerGoesOn(t_next, t_pending[Len(t_pending)])
  /\ t_pc # "Saving" => t_pending = <<>>
  /\ t_pc \in TakerCommands \cup TakerAwaits /\ t_pc # "Start" =>
       t_last \in t_saved /\ TakerGoesOn(TakerCommandAt(t_pc), t_last)
  /\ t_pc = "Lost" => "Started" \notin t_saved
  /\ t_pc = "Panicked" => "MakerPaymentReceived" \notin t_saved

\* Events before a node may pay, and those with which it gives up before it pays.
MakerEarly == {"Started", "Negotiated", "MakerPaymentInstructionsReceived"}
MakerGaveUp == {"StartFailed", "NegotiateFailed", "TakerFeeValidateFailed"}

TakerEarly ==
  {"Started", "Negotiated", "TakerFeeSent", "TakerPaymentInstructionsReceived",
   "MakerPaymentReceived", "MakerPaymentWaitConfirmStarted"}
TakerGaveUp ==
  {"StartFailed", "NegotiateFailed", "TakerFeeSendFailed", "MakerPaymentValidateFailed",
   "MakerPaymentWaitConfirmFailed"}

\* The event may be saved after those in the log: the early ones come first, and
\* nothing but Finished comes after one that gives up.
Follows(event, log, early, gaveUp) ==
  /\ event \in early \cup gaveUp => log \subseteq early
  /\ event \notin early \cup gaveUp \cup {"Finished"} => log \cap gaveUp = {}

\* What the last event of a log says about the others.
LogOrdered(last, log, early, gaveUp) ==
  /\ last = "NoEvent" => log = {}
  /\ last \in early => log \subseteq early
  /\ last \notin gaveUp \cup {"Finished"} => log \cap gaveUp = {}

\* A node that gave up before it paid stays without a payment, and a swap that is over
\* has Finished in its record.
MakerOrderInv ==
  /\ LogOrdered(m_last, m_saved, MakerEarly, MakerGaveUp)
  /\ m_saved \cap MakerGaveUp # {} => "TakerFeeValidated" \notin m_saved
  /\ \A n \in 1..Len(m_pending) :
       Follows(m_pending[n], Upto(m_saved, m_pending, n - 1), MakerEarly, MakerGaveUp)
  /\ m_pc = "Start" => m_last = "NoEvent"
  /\ m_pc = "None" => "Finished" \in m_saved
  /\ m_pc = "Down" => "Started" \in m_saved

TakerOrderInv ==
  /\ LogOrdered(t_last, t_saved, TakerEarly, TakerGaveUp)
  /\ t_saved \cap TakerGaveUp # {} => "MakerPaymentValidatedAndConfirmed" \notin t_saved
  /\ \A n \in 1..Len(t_pending) :
       Follows(t_pending[n], Upto(t_saved, t_pending, n - 1), TakerEarly, TakerGaveUp)
  /\ t_pc = "Start" => t_last = "NoEvent"
  /\ t_pc = "None" => "Finished" \in t_saved
  /\ t_pc = "Down" => "Started" \in t_saved

\* A message on the topic is as good as the event its sender had saved.
NetInv ==
  \A msg \in net :
    /\ msg.kind = "TakerFee" => paid["taker_fee"] > 0
    /\ msg.kind = "MakerPayment" => OnChain("maker_payment")
    /\ msg.kind = "TakerPayment" => OnChain("taker_payment")

\* The chains, and what each side had in its database when it acted on them.
ChainInv ==
  /\ \A p \in Payments : paid[p] = IF OnChain(p) THEN 1 ELSE 0
  /\ OnChain("maker_payment") =>
       paid["taker_fee"] > 0 /\ {"Started", "TakerFeeValidated"} \subseteq m_saved
  /\ OnChain("taker_payment") =>
       /\ Confirmed("maker_payment")
       /\ {"Started", "MakerPaymentReceived", "MakerPaymentValidatedAndConfirmed"}
            \subseteq t_saved
  /\ Spent("maker_payment") => Spent("taker_payment")
  /\ SecretPublic => "TakerPaymentValidatedAndConfirmed" \in m_saved

\* The swap's inductive invariant: types, the two logs, the two program counters,
\* the messages in flight and the chains all agree with each other, at every
\* interleaving, crash and restart.
IndInv ==
  /\ TypeOK
  /\ MakerLogInv
  /\ TakerLogInv
  /\ MakerControlInv
  /\ TakerControlInv
  /\ MakerOrderInv
  /\ TakerOrderInv
  /\ NetInv
  /\ ChainInv

\* Only a crash leaves the first of the three events of wait_for_maker_payment as the
\* last one of the record.
TornInv ==
  /\ t_pc = "Saving" => t_pending[Len(t_pending)] # "TakerPaymentInstructionsReceived"
  /\ t_pc # "Saving" /\ t_last = "TakerPaymentInstructionsReceived" => crashes > 0
  /\ t_pc = "Panicked" => t_last = "TakerPaymentInstructionsReceived"

-----------------------------------------------------------------------------
(* Lock times and the clock.                                               *)

\* Nobody is later than a tick, and a fifth of the lock duration is longer than that
\* tick and the difference between the two starts.
DeadlineHasSlack ==
  /\ Synchronous
  /\ (LockDuration * 4) \div 5 + 1 + MaxStartedAtDiff <= LockDuration

\* The event is in the record, or in the batch being saved.
MakerLogged(event) ==
  event \in m_saved \/ \E n \in 1..Len(m_pending) : m_pending[n] = event

\* The lock times on the chains are those the two sides agreed on, and they agreed on
\* starts that are close to each other.
AgreedInv ==
  /\ MakerLogged("Negotiated") =>
       /\ m_started_at + LockDuration <= m_taker_lock + MaxStartedAtDiff
       /\ m_taker_lock <= m_started_at + LockDuration + MaxStartedAtDiff
  /\ MakerLogged("TakerPaymentValidatedAndConfirmed") => lock["taker_payment"] = m_taker_lock
  /\ OnChain("maker_payment") => lock["maker_payment"] = MakerPaymentLock
  /\ OnChain("taker_payment") => lock["taker_payment"] = TakerPaymentLock

\* The tick at which an actor had its last turn: in synchronous runs it has one more
\* before the clock moves on when it is overdue.
Turn(a) == IF a \in overdue THEN now - 1 ELSE now

\* The secret waits no longer than a tick between the look at the clock and the send.
SecretInv ==
  /\ AgreedInv
  /\ m_pc = "SpendTakerPayment.send" => Turn("maker") <= TakerPaymentSpendDeadline(m_started_at)

=============================================================================
