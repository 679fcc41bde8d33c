---------------------------- MODULE SwapWatcher ----------------------------
(***************************************************************************)
(* The watchers of one swap: tasks on other nodes that the taker tells     *)
(* about its payment, with a signed spend of the maker payment that lacks  *)
(* only the secret and a signed refund of the taker payment.  A watcher    *)
(* follows both chains, and sends the one or the other for a taker who is  *)
(* away.  It keeps nothing on disk.                                        *)
(*                                                                         *)
(* Two watchers stand for two nodes, or for two tasks of one node whose    *)
(* entry in taker_swap_watchers expired while the first was running.       *)
(***************************************************************************)
EXTENDS SwapEnv

CONSTANT Watchers

VARIABLES
  told,          \* swap_started_at of the messages on the watcher topic
  w_pc,          \* state of each watcher's state machine
  w_started_at,  \* swap_started_at of the swap it watches
  w_overdue      \* synchronous runs: watchers that must step before the next tick

watcherVars == <<told, w_pc, w_started_at, w_overdue>>

\* Stopped is "Finished" with a WatcherSuccess and "Failed" with a WatcherError.
WatcherStopped == {"Idle", "Finished", "Failed"}

WatcherStates ==
  {"ValidateTakerFee", "ValidateTakerPayment", "WaitForTakerPaymentSpend",
   "WaitForTakerPaymentSpend.maker_spend", "SpendMakerPayment", "RefundTakerPayment"}

WatcherTypeOK ==
  /\ told \subseteq Nat
  /\ w_pc \in [Watchers -> WatcherStates \cup WatcherStopped]
  /\ w_started_at \in [Watchers -> Nat]
  /\ w_overdue \subseteq Watchers

WatcherInit ==
  /\ told = {}
  /\ w_pc = [w \in Watchers |-> "Idle"]
  /\ w_started_at = [w \in Watchers |-> 0]
  /\ w_overdue = {}

\* Faulty variant: the watcher waits for the taker until the maker may take it back.
WaitForMakerPaymentSpendDeadlineLate(w) == w_started_at[w] + 3 * LockDuration

\* The deadlines of WatcherContext with the default factors of WatcherConf.
TakerLocktime(w) == w_started_at[w] + LockDuration
WaitForMakerPaymentSpendDeadline(w) == w_started_at[w] + LockDuration
RefundStartTime(w) == w_started_at[w] + (LockDuration * 3) \div 2

\* An RPC, validation or broadcast error of a watcher: it ends the state machine, as a
\* crash does, and is charged to the same budget.
WatcherFault == crashes < MaxCrashes /\ crashes' = crashes + 1
NoWatcherFault == UNCHANGED crashes

ChangeState(w, state) ==
  /\ w_pc' = [w_pc EXCEPT ![w] = state]
  /\ UNCHANGED <<told, w_started_at>>

-----------------------------------------------------------------------------
\* spawn_taker_swap_watcher, from a message that may be late or a repetition: the
\* SwapWatcherLock keeps a second one away until the state machine has stopped.
SpawnTakerSwapWatcher(w) ==
  /\ w_pc[w] \in WatcherStopped
  /\ \E start \in told : w_started_at' = [w_started_at EXCEPT ![w] = start]
  /\ w_pc' = [w_pc EXCEPT ![w] = "ValidateTakerFee"]
  /\ NoWatcherFault
  /\ ChainUnchanged
  /\ UNCHANGED told

WatcherValidateTakerFee(w) ==
  /\ w_pc[w] = "ValidateTakerFee"
  /\ \/ /\ paid["taker_fee"] > 0
        /\ NoWatcherFault
        /\ ChangeState(w, "ValidateTakerPayment")
     \/ /\ WatcherFault
        /\ ChangeState(w, "Failed")
  /\ ChainUnchanged

\* wait_for_confirmations gives up.
WatcherWaitsTooLong(w) == now > TakerPaymentSpendDeadline(w_started_at[w])

WatcherValidateTakerPayment(w) ==
  /\ w_pc[w] = "ValidateTakerPayment"
  /\ \/ /\ ~WatcherWaitsTooLong(w)
        /\ Confirmed("taker_payment")
        /\ lock["taker_payment"] = TakerLocktime(w)
        /\ NoWatcherFault
        /\ ChangeState(w, "WaitForTakerPaymentSpend")
     \/ /\ IF WatcherWaitsTooLong(w) THEN NoWatcherFault ELSE WatcherFault
        /\ ChangeState(w, "Failed")
  /\ ChainUnchanged

\* Faulty variant: a refund is taken for a spend.
WatcherSpendFoundAny == OnChain("taker_payment") /\ ~Unclaimed("taker_payment")

\* watcher_search_for_swap_tx_spend answers Spent.
WatcherSpendFound == Spent("taker_payment")

\* The search may answer after the clock was read: a spend found late is a spend.
\* Its secret is needed only when the taker does not use it in time.
WatcherFindsSpend(w) ==
  /\ w_pc[w] = "WaitForTakerPaymentSpend"
  /\ WatcherSpendFound
  /\ \/ /\ NoWatcherFault
        /\ IF now < TakerLocktime(w)
           THEN ChangeState(w, "WaitForTakerPaymentSpend.maker_spend")
           ELSE ChangeState(w, "SpendMakerPayment")
     \/ /\ WatcherFault
        /\ ChangeState(w, "Failed")
  /\ ChainUnchanged

WatcherFindsRefund(w) ==
  /\ w_pc[w] = "WaitForTakerPaymentSpend"
  /\ Refunded("taker_payment")
  /\ ChangeState(w, "Finished")
  /\ NoWatcherFault
  /\ ChainUnchanged

\* Faulty variant: a spend that does not come is the end of the watch.
WatcherGivesUp(w) ==
  /\ w_pc[w] = "WaitForTakerPaymentSpend"
  /\ now > RefundStartTime(w)
  /\ ChangeState(w, "Finished")
  /\ NoWatcherFault
  /\ ChainUnchanged

WatcherWaitedLongEnough(w) ==
  /\ w_pc[w] = "WaitForTakerPaymentSpend"
  /\ now > RefundStartTime(w)
  /\ ChangeState(w, "RefundTakerPayment")
  /\ NoWatcherFault
  /\ ChainUnchanged

\* wait_for_htlc_tx_spend of the maker payment, then extract_secret.
WatcherWaitsForMakerSpend(w) ==
  /\ w_pc[w] = "WaitForTakerPaymentSpend.maker_spend"
  /\ \/ /\ Spent("maker_payment")
        /\ NoWatcherFault
        /\ ChangeState(w, "Finished")
     \/ /\ \/ NoWatcherFault /\ now > WaitForMakerPaymentSpendDeadline(w)
           \/ WatcherFault
        /\ ChangeState(w, "SpendMakerPayment")
     \/ /\ now > WaitForMakerPaymentSpendDeadline(w)
        /\ WatcherFault
        /\ ChangeState(w, "Failed")
  /\ ChainUnchanged

\* A failed broadcast may still hand the transaction to the tx helpers.
WatcherSpendMakerPayment(w) ==
  /\ w_pc[w] = "SpendMakerPayment"
  /\ \/ /\ NoWatcherFault
        /\ Unclaimed("maker_payment")
        /\ SpendPayment("maker_payment")
        /\ ChangeState(w, "Finished")
     \/ /\ NoWatcherFault
        /\ ~Unclaimed("maker_payment")
        /\ ChainUnchanged
        /\ ChangeState(w, "Failed")
     \/ /\ WatcherFault
        /\ Unclaimed("maker_payment")
        /\ ChainUnchanged \/ SpendPayment("maker_payment")
        /\ ChangeState(w, "Failed")

WatcherRefundTakerPayment(w) ==
  /\ w_pc[w] = "RefundTakerPayment"
  /\ now > TakerLocktime(w)
  /\ \/ /\ NoWatcherFault
        /\ Unclaimed("taker_payment")
        /\ RefundPayment("taker_payment")
        /\ ChangeState(w, "Finished")
     \/ /\ NoWatcherFault
        /\ ~Unclaimed("taker_payment")
        /\ ChainUnchanged
        /\ ChangeState(w, "Failed")
     \/ /\ WatcherFault
        /\ Unclaimed("taker_payment")
        /\ ChainUnchanged \/ RefundPayment("taker_payment")
        /\ ChangeState(w, "Failed")

-----------------------------------------------------------------------------
WatcherState(w) ==
  \/ WatcherValidateTakerFee(w)
  \/ WatcherValidateTakerPayment(w)
  \/ WatcherFindsSpend(w)
  \/ WatcherFindsRefund(w)
  \/ WatcherWaitedLongEnough(w)
  \/ WatcherWaitsForMakerSpend(w)
  \/ WatcherSpendMakerPayment(w)
  \/ WatcherRefundTakerPayment(w)

\* One step of the watcher's state machine, and the start of one.
WatcherStep(w) ==
  /\ WatcherState(w)
  /\ w_overdue' = w_overdue \ {w}
  /\ UNCHANGED <<now, net, faults, overdue>>

WatcherSpawn(w) ==
  /\ SpawnTakerSwapWatcher(w)
  /\ UNCHANGED <<now, net, faults, overdue, w_overdue>>

\* Nothing of a watcher survives its process.
WatcherCrash(w) ==
  /\ w_pc[w] \in WatcherStates
  /\ WatcherFault
  /\ ChangeState(w, "Idle")
  /\ w_overdue' = w_overdue \ {w}
  /\ ChainUnchanged
  /\ UNCHANGED <<now, net, faults, overdue>>

\* The state machine has something to do at once.
WatcherReady(w) ==
  CASE w_pc[w] = "ValidateTakerPayment" ->
         WatcherWaitsTooLong(w) \/ Confirmed("taker_payment")
    [] w_pc[w] = "WaitForTakerPaymentSpend" ->
         now > RefundStartTime(w) \/ ~Unclaimed("taker_payment")
    [] w_pc[w] = "WaitForTakerPaymentSpend.maker_spend" ->
         now > WaitForMakerPaymentSpendDeadline(w) \/ Spent("maker_payment")
    [] w_pc[w] = "RefundTakerPayment" -> now > TakerLocktime(w)
    [] OTHER -> w_pc[w] \in WatcherStates

=============================================================================
