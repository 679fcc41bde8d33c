------------------------ MODULE WatchedSwapInduction ------------------------
(***************************************************************************)
(* Why nobody ends with both payments: the inductive invariant behind      *)
(* WatchedNotOneSided.  It counts ticks.  The secret is public at the      *)
(* latest one tick after the maker's deadline; from then on the taker, or  *)
(* a watcher, is a known number of steps away from the maker payment, and  *)
(* each of them takes at most a tick.                                      *)
(***************************************************************************)
EXTENDS WatchedSwap

\* Steps between a taker that knows only of its own payment and the spend of the maker
\* payment: save, restart or tell, look for confirmations, see the spend, save, spend.
StepsOfTaker == 6

\* No errors, nobody later than a tick, and a lock long enough for the taker to start
\* over after every crash between the maker's last moment and its own lock time.
LockIsLong ==
  /\ Synchronous
  /\ MaxFaults = 0
  /\ (LockDuration * 4) \div 5 + 1 + MaxStartedAtDiff + StepsOfTaker * (MaxCrashes + 1)
       <= LockDuration

\* The taker's payment is out and it waits for the spend, or follows it.
TakerFollows ==
  \/ t_pc \in {"WaitForTakerPaymentSpend", "WaitForTakerPaymentSpend.confirm",
               "WaitForTakerPaymentSpend.spend", "SpendMakerPayment"}
  \/ /\ t_pc = "Saving"
     /\ t_pending \in {<<"WatcherMessageSent">>, <<"TakerPaymentSpent">>}
     /\ t_last \in {"TakerPaymentSent", "WatcherMessageSent"}
  \/ /\ t_pc = "Down"
     /\ t_last \in {"TakerPaymentSent", "WatcherMessageSent", "TakerPaymentSpent"}

\* How many steps the taker is away from having spent the maker payment.
TakerStepsLeft ==
  CASE t_pc = "SpendMakerPayment" -> 1
    [] t_pc = "Saving" /\ t_pending = <<"TakerPaymentSpent">> -> 2
    [] t_pc = "Down" /\ t_last = "TakerPaymentSpent" -> 2
    [] t_pc = "WaitForTakerPaymentSpend.spend" -> 3
    [] t_pc = "WaitForTakerPaymentSpend.confirm" -> 4
    [] t_pc = "WaitForTakerPaymentSpend" -> 5
    [] OTHER -> StepsOfTaker

\* TakerPaymentSent is saved first, and alone or with the message to the watchers.
SentBatch ==
  \A n \in 1..Len(t_pending) :
    t_pending[n] = "TakerPaymentSent" =>
      n = 1 /\ t_pending \in {<<"TakerPaymentSent">>,
                              <<"TakerPaymentSent", "WatcherMessageSent">>}

\* A taker whose payment the maker has heard of has not given up before its lock time.
PatientInv ==
  /\ \A msg \in net : msg.kind = "TakerPayment" => "TakerPaymentSent" \in t_saved
  /\ MakerLogged("TakerPaymentReceived") => "TakerPaymentSent" \in t_saved
  /\ SentBatch
  /\ "TakerPaymentSent" \in t_saved =>
       TakerFollows \/ now > TakerPaymentLock \/ Spent("maker_payment")

\* A maker payment went back after its lock time, or after the taker payment.
ReturnInv ==
  Refunded("maker_payment") => now > lock["maker_payment"] \/ Refunded("taker_payment")

\* Once the secret is public the taker gets to the maker payment before its own lock
\* time, however many of the crashes that are left still happen.
TakerInTime ==
  /\ crashes <= MaxCrashes
  /\ SecretPublic /\ ~away =>
       \/ Spent("maker_payment")
       \/ /\ TakerFollows
          /\ Turn("taker") + TakerStepsLeft + StepsOfTaker * (MaxCrashes - crashes)
               <= TakerPaymentLock

\* The tick at which a watcher had its last turn.
WatcherTurn(w) == IF w \in w_overdue THEN now - 1 ELSE now

\* A watcher that watches gets to the maker payment in time, or need not.
WatcherInTime(w) ==
  /\ w_pc[w] = "WaitForTakerPaymentSpend" /\ SecretPublic =>
       WatcherTurn(w) < TakerPaymentLock
  /\ w_pc[w] = "WaitForTakerPaymentSpend.maker_spend" =>
       WatcherTurn(w) <= TakerPaymentLock + 1
  /\ w_pc[w] = "SpendMakerPayment" => WatcherTurn(w) <= TakerPaymentLock + 2
  /\ w_pc[w] = "RefundTakerPayment" => ~SecretPublic /\ now > TakerPaymentLock
  /\ w_pc[w] = "Finished" => Spent("maker_payment") \/ Refunded("taker_payment")

InTimeInv ==
  /\ WatchedInv
  /\ SecretInv
  /\ PatientInv
  /\ ReturnInv
  /\ TakerInTime
  /\ \A w \in Watchers : WatcherInTime(w)

=============================================================================
