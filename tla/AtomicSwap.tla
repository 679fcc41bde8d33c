----------------------------- MODULE AtomicSwap -----------------------------
(***************************************************************************)
(* One atomic swap: a maker and a taker node, the two chains, the topic of *)
(* the swap and the clock, interleaved step by step.                       *)
(***************************************************************************)
EXTENDS MakerSwap, TakerSwap

vars == <<envVars, makerVars, takerVars>>

Init == EnvInit /\ MakerInit /\ TakerInit

TypeOK == EnvTypeOK /\ MakerTypeOK /\ TakerTypeOK

\* Actors with work to do now; a payment is one while a block has to include it.
Outstanding ==
  {a \in {"maker"} : MakerReady} \cup {a \in {"taker"} : TakerReady}
    \cup {p \in Payments : htlc[p] \in {"mempool", "spending", "refunding"}}

\* In synchronous runs nobody with work to do is overtaken by a second tick.
Tick ==
  /\ now < MaxTime
  /\ now >= StartWindow => m_pc # "Start" /\ t_pc # "Start"
  /\ overdue = {}
  /\ now' = now + 1
  /\ overdue' = IF Synchronous THEN Outstanding ELSE {}
  /\ UNCHANGED <<htlc, lock, paid, net, faults, crashes>>

Chain == \E p \in Payments : Mine(p) \/ AutoRefund(p)

Next ==
  \/ (MakerStep \/ MakerCrash \/ MakerRecoverFunds)
       /\ UNCHANGED takerVars
  \/ (TakerStep \/ TakerCrash \/ TakerRecoverFunds)
       /\ UNCHANGED makerVars
  \/ (Chain \/ Tick) /\ UNCHANGED <<makerVars, takerVars>>

Spec == Init /\ [][Next]_vars

(* Both tasks run, blocks are mined and time passes.  Messages may be lost *)
(* for good and nobody has to call recover_funds.                          *)
Fairness ==
  /\ WF_vars(MakerStep /\ UNCHANGED takerVars)
  /\ WF_vars(TakerStep /\ UNCHANGED makerVars)
  /\ WF_vars(Chain /\ UNCHANGED <<makerVars, takerVars>>)
  /\ WF_vars(Tick /\ UNCHANGED <<makerVars, takerVars>>)

FairSpec == Spec /\ Fairness

\* The operator calls recover_funds_of_swap again and again once a swap is over.
FairRecovery ==
  /\ WF_vars(MakerRecoverFunds /\ UNCHANGED takerVars)
  /\ WF_vars(TakerRecoverFunds /\ UNCHANGED makerVars)

RecoverySpec == FairSpec /\ FairRecovery

-----------------------------------------------------------------------------
(* Safety.                                                                 *)

\* Each side broadcasts at most one transaction for its payment, also when it
\* crashes after send_*_payment and before the event is saved: the second attempt
\* finds the first with check_if_my_payment_sent.
NoDoublePayment == \A p \in Payments : paid[p] <= 1

\* What an event in the maker's database says about the chains.
MakerEventBacked(event) ==
  /\ event = "MakerPaymentSent" => OnChain("maker_payment")
  /\ event = "TakerPaymentReceived" => OnChain("taker_payment")
  /\ event = "TakerPaymentValidatedAndConfirmed" => Confirmed("taker_payment")
  /\ event \in {"TakerPaymentSpent", "TakerPaymentSpendConfirmed"} => Spent("taker_payment")
  /\ event = "MakerPaymentRefunded" => Refunded("maker_payment")

\* What an event in the taker's database says about the chains.
TakerEventBacked(event) ==
  /\ event = "TakerFeeSent" => paid["taker_fee"] > 0
  /\ event = "MakerPaymentReceived" => OnChain("maker_payment")
  /\ event = "MakerPaymentValidatedAndConfirmed" => Confirmed("maker_payment")
  /\ event = "TakerPaymentSent" => OnChain("taker_payment")
  /\ event = "TakerPaymentSpent" => Spent("taker_payment")
  /\ event = "MakerPaymentSpent" => Spent("maker_payment")
  /\ event = "TakerPaymentRefunded" => Refunded("taker_payment")

\* The databases never claim what the chains do not show: a restart and
\* recover_funds, which know only the database, act on facts.
LogTellsChain ==
  /\ \A event \in m_saved : MakerEventBacked(event)
  /\ \A event \in t_saved : TakerEventBacked(event)

\* The maker pays only after a fee was paid, the taker pays only when the maker
\* payment is confirmed, and the secret leaves the maker's node only after
\* TakerPaymentValidatedAndConfirmed reached the database.
PaymentOrder ==
  /\ OnChain("maker_payment") => paid["taker_fee"] > 0
  /\ OnChain("taker_payment") => Confirmed("maker_payment")
  /\ SecretPublic => "TakerPaymentValidatedAndConfirmed" \in m_saved

\* Every unwrap() of maker_payment and taker_payment in the maker's handlers finds
\* a value, also when a kick-start picked the command.
MakerUnwraps ==
  /\ m_pc \in {"WaitForTakerPayment", "WaitForTakerPayment.confirm", "RefundMakerPayment"}
       => "MakerPaymentSent" \in m_saved
  /\ m_pc \in {"ValidateTakerPayment", "SpendTakerPayment", "SpendTakerPayment.send",
               "ConfirmTakerPaymentSpend"}
       => "TakerPaymentReceived" \in m_saved

\* Every unwrap() of maker_payment, taker_payment and taker_payment_spend in the
\* taker's handlers after validate_maker_payment finds a value.
TakerUnwraps ==
  /\ t_pc \in {"SendTakerPayment.send", "SpendMakerPayment",
               "PrepareForTakerPaymentRefund", "FinalizeTakerPaymentRefund"}
       => "MakerPaymentReceived" \in t_saved
  /\ t_pc \in {"WaitForTakerPaymentSpend", "WaitForTakerPaymentSpend.confirm",
               "WaitForTakerPaymentSpend.spend", "RefundTakerPayment"}
       => "TakerPaymentSent" \in t_saved
  /\ t_pc = "SpendMakerPayment" => "TakerPaymentSpent" \in t_saved

\* The unwrap() of validate_maker_payment panics only after a crash that cut the three
\* events of wait_for_maker_payment behind the first.
TakerPanicsOnlyTorn ==
  t_pc = "Panicked" => crashes > 0 /\ t_last = "TakerPaymentInstructionsReceived"

\* No unwrap() of a transaction in a handler meets None, whichever event a crash left
\* as the last one, but for the one of validate_maker_payment after a torn batch.
Unwraps == MakerUnwraps /\ TakerUnwraps /\ TakerPanicsOnlyTorn

\* A maker swap that is over with its payment expired and unclaimed, and the taker
\* payment not taken, is reported as recoverable, and recover_funds refunds it.
MakerNotStranded ==
  /\ m_pc = "None"
  /\ Unclaimed("maker_payment") /\ CanRefundHtlc("maker_payment")
  /\ "maker_payment" \notin AutoRefundable
  /\ ~Spent("taker_payment")
  => MakerIsRecoverable /\ MakerRecovery = "RefundedMyPayment"

\* A taker swap that is over with its payment expired and unclaimed, or claimed by
\* the maker while the maker payment is not, is reported as recoverable, and
\* recover_funds refunds the one or spends the other.
TakerNotStranded ==
  /\ /\ t_pc = "None"
     /\ Unclaimed("taker_payment") /\ CanRefundHtlc("taker_payment")
     /\ "taker_payment" \notin AutoRefundable
     => TakerIsRecoverable /\ TakerRecovery = "RefundedMyPayment"
  /\ /\ t_pc = "None"
     /\ Spent("taker_payment") /\ Unclaimed("maker_payment")
     => TakerIsRecoverable /\ TakerRecovery = "SpentOtherPayment"

\* No finished swap leaves a payment behind that recover_funds_of_swap does not find.
NotStranded == MakerNotStranded /\ TakerNotStranded

\* A swap that no kick-start can bring back has no payment of its node on a chain.
LostWithoutFunds ==
  /\ m_pc = "Lost" => ~OnChain("maker_payment")
  /\ t_pc \in {"Lost", "Panicked"} => ~OnChain("taker_payment")

\* The command the maker runs is the one a kick-start at this point would choose.
MakerKickStartContinues ==
  m_pc \in MakerCommands \ {"Start"} => m_pc = MakerGetCommand(m_last)

\* The same for the taker, except where the secret cannot be read from the spend or
\* the maker payment cannot be spent: the live swap finishes and a restarted one
\* starts a refund.
TakerKickStartContinues ==
  t_pc \in TakerCommands \ {"Start"} =>
    \/ t_pc = TakerGetCommand(t_last)
    \/ /\ t_pc = "Finish"
       /\ t_last \in {"TakerPaymentWaitForSpendFailed", "MakerPaymentSpendFailed"}

\* A restart continues where the live swap stood, on both sides.
KickStartContinues == MakerKickStartContinues /\ TakerKickStartContinues

\* No one ends with both payments: the taker payment is not spent when the maker
\* payment went back, and not back when the maker payment is spent.
NotOneSided ==
  /\ ~(Spent("taker_payment") /\ Refunded("maker_payment"))
  /\ ~(Spent("maker_payment") /\ Refunded("taker_payment"))

\* The secret is published while the taker payment cannot be refunded yet.
SecretInTime ==
  [][~SecretPublic /\ SecretPublic' => now <= lock["taker_payment"]]_vars

\* The chains show each payment as SwapPromise describes it.
PromiseState(p) ==
  CASE htlc[p] = "none" -> "unpaid"
    [] htlc[p] \in {"mempool", "confirmed"} -> "locked"
    [] htlc[p] \in {"spending", "spent"} -> "spent"
    [] htlc[p] \in {"refunding", "refunded"} -> "returned"

Promise == INSTANCE SwapPromise
             WITH maker <- PromiseState("maker_payment"), taker <- PromiseState("taker_payment")

\* Whatever the two nodes do, the payments behave as SwapPromise says.
KeepsPromise == Promise!Spec

-----------------------------------------------------------------------------
(* Liveness.                                                               *)

\* Every handler ends: both swap tasks finish, or died for good in a crash.
Termination ==
  <>(m_pc \in {"None", "Lost"} /\ t_pc \in {"None", "Lost", "Panicked"})

\* Every payment that reached its chain is taken or given back in the end.
FundsSettle ==
  \A p \in Payments : OnChain(p) ~> htlc[p] \in {"spent", "refunded"}

-----------------------------------------------------------------------------
(* What a comment of the code says and the code does not do.               *)

\* confirm_taker_payment_spend waits "to make sure our spend transaction is not
\* failed": once it says so, the spend is mined.
SpendConfirmedIsMined ==
  "TakerPaymentSpendConfirmed" \in m_saved => htlc["taker_payment"] = "spent"

=============================================================================
