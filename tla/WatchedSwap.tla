---------------------------- MODULE WatchedSwap ----------------------------
(***************************************************************************)
(* The swap of AtomicSwap together with its watchers.  Once, while it      *)
(* waits for the spend of its payment, the taker's node may go down and    *)
(* stay down for any time, for good if it likes, which no synchronous run  *)
(* of AtomicSwap lets it do: its payments are then up to the watchers.     *)
(***************************************************************************)
EXTENDS AtomicSwapInduction, SwapWatcher

VARIABLE away   \* the taker's node went down for any time

watchedVars == <<vars, watcherVars, away>>

WatchedInit == Init /\ WatcherInit /\ away = FALSE

WatchedTypeOK == TypeOK /\ WatcherTypeOK /\ away \in BOOLEAN

\* send_taker_payment broadcasts the watcher message once the preimages are made, and
\* wait_for_taker_payment_spend repeats it when the event that carries them was saved.
TakerTells ==
  told' = IF \/ /\ t_pc = "SendTakerPayment.send"
                /\ t_pending' = <<"TakerPaymentSent", "WatcherMessageSent">>
             \/ t_pc = "WaitForTakerPaymentSpend" /\ "WatcherMessageSent" \in t_saved
          THEN told \cup {t_started_at} ELSE told

TakerRepeats ==
  /\ t_pc \in {"WaitForTakerPaymentSpend.confirm", "WaitForTakerPaymentSpend.spend"}
  /\ "WatcherMessageSent" \in t_saved

MakerMoves ==
  /\ MakerStep \/ MakerCrash \/ MakerRecoverFunds
  /\ UNCHANGED <<takerVars, watcherVars, away>>

TakerMoves ==
  /\ TakerStep \/ TakerCrash \/ TakerRecoverFunds
  /\ TakerTells
  /\ UNCHANGED <<makerVars, w_pc, w_started_at, w_overdue, away>>

\* The taker's node is stopped during the wait that takes hours.
TakerLeaves ==
  /\ t_pc = "WaitForTakerPaymentSpend.spend"
  /\ ~away
  /\ away' = TRUE
  /\ t_pc' = "Down"
  /\ t_reward' = FALSE
  /\ UNCHANGED <<t_next, t_pending, t_saved, t_last, t_started_at, t_maker_lock, t_deadline>>
  /\ UNCHANGED <<envVars, makerVars, watcherVars>>

WatcherMoves(w) ==
  /\ WatcherStep(w) \/ WatcherSpawn(w) \/ WatcherCrash(w)
  /\ UNCHANGED <<makerVars, takerVars, away>>

ChainMoves == Chain /\ UNCHANGED <<makerVars, takerVars, watcherVars, away>>

\* Whom time does not wait for.  In synchronous runs a message that is not repeated
\* arrives within a tick or not at all.
Unhurried == IF away /\ t_pc = "Down" THEN {"taker"} ELSE {}

WatchedTick ==
  /\ now < MaxTime
  /\ now >= StartWindow => m_pc # "Start" /\ t_pc # "Start"
  /\ overdue \subseteq Unhurried
  /\ w_overdue = {}
  /\ now' = now + 1
  /\ overdue' = IF Synchronous THEN Outstanding ELSE {}
  /\ w_overdue' = IF Synchronous THEN {w \in Watchers : WatcherReady(w)} ELSE {}
  /\ told' = IF Synchronous /\ ~TakerRepeats THEN {} ELSE told
  /\ UNCHANGED <<htlc, lock, paid, net, faults, crashes>>
  /\ UNCHANGED <<makerVars, takerVars, w_pc, w_started_at, away>>

WatchedNext ==
  \/ MakerMoves
  \/ TakerMoves
  \/ TakerLeaves
  \/ \E w \in Watchers : WatcherMoves(w)
  \/ ChainMoves
  \/ WatchedTick

WatchedSpec == WatchedInit /\ [][WatchedNext]_watchedVars

-----------------------------------------------------------------------------
(* Safety.                                                                 *)

\* A watcher that found the taker payment and has not failed since.
Watching(w) == w_pc[w] \in (WatcherStates \ {"ValidateTakerFee", "ValidateTakerPayment"})
                             \cup {"Finished"}

\* No one ends with both payments as long as every node comes back within a tick, and
\* also with the taker's node down for as long as it may be, once a watcher has
\* validated the taker payment.
WatchedNotOneSided ==
  ~away \/ (\E w \in Watchers : Watching(w)) => NotOneSided

\* A watcher that has the secret found it on the taker coin's chain, and it counts from
\* the start of the swap that the taker counts from.
WatcherKnows ==
  \A w \in Watchers :
    /\ w_pc[w] \in {"WaitForTakerPaymentSpend.maker_spend", "SpendMakerPayment"}
         => SecretPublic
    /\ w_pc[w] \in WatcherStates => w_started_at[w] = t_started_at

\* The inductive invariant of the swap holds with the watchers' transactions on the
\* chains, what a watcher knows agrees with it, and nobody is told of a swap that the
\* taker has not started.
WatchedInv ==
  /\ IndInv
  /\ WatcherTypeOK
  /\ WatcherKnows
  /\ \A start \in told : start = t_started_at
  /\ told # {} \/ (\E w \in Watchers : w_pc[w] \in WatcherStates) => t_pc # "Start"

\* Every step of a node, of a watcher or of a chain is one that SwapPromise allows.
PromiseSteps ==
  [][Promise!Next]_<<PromiseState("maker_payment"), PromiseState("taker_payment")>>

\* Time is past every deadline and nobody has anything left to do, except that the
\* taker's node may still be down.
Quiet ==
  /\ now = MaxTime
  /\ Outstanding \subseteq Unhurried
  /\ \A w \in Watchers : ~WatcherReady(w)

\* In the end every payment is taken or given back without a call of recover_funds,
\* when no node went down, and also when the taker's did and never came back but a
\* watcher had validated its payment.
QuietIsSettled ==
  /\ Quiet
  /\ \/ crashes = 0 /\ ~away
     \/ \E w \in Watchers : Watching(w)
  => \A p \in Payments : htlc[p] \in {"none", "spent", "refunded"}

=============================================================================
