-------------------------- MODULE AtomicSwapProofs --------------------------
(***************************************************************************)
(* The theorems about one swap, for every lock duration, every timeout and *)
(* any number of errors and crashes: IndInv is inductive, the safety       *)
(* properties follow from it, and the payments refine SwapPromise.  The    *)
(* second part proves the same of the swap with any number of watchers and *)
(* a taker who may leave for any time, and that a watcher never acts       *)
(* without the secret.  The third part proves that either side can go on   *)
(* with a record that recreate_swap_data made from the other's.            *)
(***************************************************************************)
EXTENDS TakerSwapProofs, WatchedSwap, RecreateSwap, NaturalsInduction, WellFoundedInduction

\* Zenon is the quicker of the two provers here, SMT the one that knows numbers and records.
USE ZenonT(30), SMTT(30)

-----------------------------------------------------------------------------
(* Both sides.                                                             *)


EnvDataTypeOK ==
  /\ now \in Nat
  /\ net \subseteq SwapMsg
  /\ faults \in Nat
  /\ crashes \in Nat
  /\ overdue \subseteq {"maker", "taker"} \cup Payments

World == EnvDataTypeOK /\ ChainTypeOK /\ NetInv /\ ChainInv
Maker == MakerSide /\ MakerDataTypeOK /\ MakerOrderInv
Taker == TakerSide /\ TakerDataTypeOK /\ TakerOrderInv

\* The invariant, sorted by who owns the state.
LEMMA IndInvParts == IndInv <=> World /\ Maker /\ Taker
<1>. USE DEF IndInv, World, Maker, Taker, EnvDataTypeOK, ChainTypeOK, MakerSide, TakerSide,
             MakerControlTypeOK, MakerDataTypeOK, TakerControlTypeOK, TakerDataTypeOK
<1>1. TypeOK <=> /\ EnvDataTypeOK /\ ChainTypeOK
                 /\ MakerControlTypeOK /\ MakerDataTypeOK
                 /\ TakerControlTypeOK /\ TakerDataTypeOK
  BY Zenon DEF TypeOK, EnvTypeOK, MakerTypeOK, TakerTypeOK
<1>. QED  BY <1>1, Zenon

\* The same for the next state.
LEMMA IndInvPartsNext == IndInv' <=> World' /\ Maker' /\ Taker'
BY IndInvParts, PTL

-----------------------------------------------------------------------------
(* Steps of others.                                                        *)

\* What others do leaves the maker's promises standing.
LEMMA MakerFrame ==
  ASSUME Maker, Grows, UNCHANGED makerVars
  PROVE  Maker'
<1>1. UNCHANGED <<m_pc, m_next, m_pending, m_saved, m_last, m_started_at, m_taker_lock,
                  m_reward, m_deadline>>
  BY DEF makerVars
<1>2. MakerControlTypeOK' /\ MakerDataTypeOK' /\ MakerControlInv' /\ MakerOrderInv'
  BY <1>1 DEF Maker, MakerSide, MakerControlTypeOK, MakerDataTypeOK, MakerControlInv, MakerOrderInv
<1>3. ASSUME NEW event \in m_saved PROVE MakerEventOK(event, m_saved)'
  BY <1>1, MakerEventStays DEF Maker, MakerSide, MakerLogInv
<1>4. ASSUME NEW n \in 1..Len(m_pending)
      PROVE  MakerEventOK(m_pending[n], Upto(m_saved, m_pending, n))'
  <2>1. MakerEventOK(m_pending[n], Upto(m_saved, m_pending, n))
    BY DEF Maker, MakerSide, MakerLogInv
  <2>2. /\ m_pending'[n] = m_pending[n]
        /\ Upto(m_saved', m_pending', n) = Upto(m_saved, m_pending, n)
    BY <1>1
  <2>. QED  BY <2>1, <2>2, MakerEventStays
<1>. QED  BY <1>1, <1>2, <1>3, <1>4 DEF Maker, MakerSide, MakerLogInv

\* What others do leaves the taker's promises standing.
LEMMA TakerFrame ==
  ASSUME Taker, Grows, UNCHANGED takerVars
  PROVE  Taker'
<1>1. UNCHANGED <<t_pc, t_next, t_pending, t_saved, t_last, t_started_at, t_maker_lock,
                  t_reward, t_deadline>>
  BY DEF takerVars
<1>2. TakerControlTypeOK' /\ TakerDataTypeOK' /\ TakerControlInv' /\ TakerOrderInv'
  BY <1>1 DEF Taker, TakerSide, TakerControlTypeOK, TakerDataTypeOK, TakerControlInv, TakerOrderInv
<1>3. ASSUME NEW event \in t_saved PROVE TakerEventOK(event, t_saved)'
  BY <1>1, TakerEventStays DEF Taker, TakerSide, TakerLogInv
<1>4. ASSUME NEW n \in 1..Len(t_pending)
      PROVE  TakerEventOK(t_pending[n], Upto(t_saved, t_pending, n))'
  <2>1. TakerEventOK(t_pending[n], Upto(t_saved, t_pending, n))
    BY DEF Taker, TakerSide, TakerLogInv
  <2>2. /\ t_pending'[n] = t_pending[n]
        /\ Upto(t_saved', t_pending', n) = Upto(t_saved, t_pending, n)
    BY <1>1
  <2>. QED  BY <2>1, <2>2, TakerEventStays
<1>. QED  BY <1>1, <1>2, <1>3, <1>4 DEF Taker, TakerSide, TakerLogInv

\* Payments that are mined, given back, or claimed with a public secret, stay in order.
LEMMA ChainKeepsOrder ==
  ASSUME ChainTypeOK, ChainInv, m_saved \subseteq m_saved', t_saved \subseteq t_saved',
         \/ ChainUnchanged
         \/ \E p \in Payments : Returned(p) \/ Mined(p)
         \/ Spent("taker_payment") /\ Claimed("maker_payment")
  PROVE  ChainInv'
<1>. USE DEF ChainTypeOK, ChainInv, SecretPublic, OnChain, Confirmed, Spent, Payments,
             Transfers
<1>1. CASE ChainUnchanged
  BY <1>1 DEF ChainUnchanged
<1>2. ASSUME NEW p \in Payments, Returned(p) PROVE ChainInv'
  BY <1>2 DEF Returned, Unclaimed
<1>3. ASSUME NEW p \in Payments, Mined(p) PROVE ChainInv'
  BY <1>3 DEF Mined
<1>4. CASE Spent("taker_payment") /\ Claimed("maker_payment")
  BY <1>4 DEF Claimed, SpendPayment, Unclaimed
<1>. QED  BY <1>1, <1>2, <1>3, <1>4

-----------------------------------------------------------------------------
(* The steps.                                                              *)

\* A step of the maker's task.
LEMMA MakerStepInv ==
  ASSUME World, Maker, Taker, MakerStep, UNCHANGED takerVars
  PROVE  World' /\ Maker' /\ Taker' /\ ChainStep
<1>1. MakerHandler /\ overdue' = overdue \ {"maker"} /\ UNCHANGED <<now, crashes>>
  BY DEF MakerStep
<1>2. MakerChainMove
  BY <1>1, MakerHandlerChain DEF Maker
<1>3. ChainStep
  BY <1>2, MakerMoveStep DEF Maker
<1>4. m_saved \subseteq m_saved' /\ t_saved \subseteq t_saved'
  BY <1>1, MakerHandlerLog DEF takerVars
<1>5. Grows /\ ChainTypeOK'
  BY <1>3, <1>4, ChainStepGrows, ChainStepType DEF World
<1>6. ChainInv'
  BY <1>2, <1>5, MakerMoveChain DEF World, Maker
<1>7. MakerDataTypeOK' /\ net' \subseteq SwapMsg /\ faults' \in Nat
  BY <1>1, MakerHandlerData DEF World, EnvDataTypeOK, Maker
<1>8. MakerSide'
  BY <1>1, <1>5, MakerHandlerSide DEF World, EnvDataTypeOK, Maker
<1>9. NetInv'
  BY <1>1, <1>5, MakerHandlerNet DEF World, Maker
<1>10. EnvDataTypeOK'
  BY <1>1, <1>7 DEF World, EnvDataTypeOK
<1>11. MakerOrderInv'
  BY <1>1, MakerHandlerOrder DEF Maker
<1>. QED  BY <1>3, <1>5, <1>6, <1>7, <1>8, <1>9, <1>10, <1>11, TakerFrame DEF World, Maker

\* A step of the taker's task.
LEMMA TakerStepInv ==
  ASSUME World, Maker, Taker, TakerStep, UNCHANGED makerVars
  PROVE  World' /\ Maker' /\ Taker' /\ ChainStep
<1>1. TakerHandler /\ overdue' = overdue \ {"taker"} /\ UNCHANGED <<now, crashes>>
  BY DEF TakerStep
<1>2. TakerChainMove
  BY <1>1, TakerHandlerChain DEF Taker
<1>3. ChainStep
  BY <1>2, TakerMoveStep DEF Taker
<1>4. m_saved \subseteq m_saved' /\ t_saved \subseteq t_saved'
  BY <1>1, TakerHandlerLog DEF makerVars
<1>5. Grows /\ ChainTypeOK'
  BY <1>3, <1>4, ChainStepGrows, ChainStepType DEF World
<1>6. ChainInv'
  BY <1>2, <1>5, TakerMoveChain DEF World, Taker
<1>7. TakerDataTypeOK' /\ net' \subseteq SwapMsg /\ faults' \in Nat
  BY <1>1, TakerHandlerData DEF World, EnvDataTypeOK, Taker
<1>8. TakerSide'
  BY <1>1, <1>5, TakerHandlerSide DEF World, EnvDataTypeOK, Taker
<1>9. NetInv'
  BY <1>1, <1>5, TakerHandlerNet DEF World, Taker
<1>10. EnvDataTypeOK'
  BY <1>1, <1>7 DEF World, EnvDataTypeOK
<1>11. TakerOrderInv'
  BY <1>1, TakerHandlerOrder DEF Taker
<1>. QED  BY <1>3, <1>5, <1>6, <1>7, <1>8, <1>9, <1>10, <1>11, MakerFrame DEF World, Taker

\* A crash of either process changes nothing outside of it.
LEMMA CrashInv ==
  ASSUME World, Maker, Taker,
         \/ MakerCrash /\ UNCHANGED takerVars
         \/ TakerCrash /\ UNCHANGED makerVars
  PROVE  World' /\ Maker' /\ Taker' /\ ChainStep
<1>1. /\ ChainUnchanged /\ UNCHANGED <<now, net, faults, overdue>>
      /\ crashes' = crashes + 1
      /\ m_saved \subseteq m_saved' /\ t_saved \subseteq t_saved'
  BY DEF MakerCrash, TakerCrash, ChainUnchanged, makerVars, takerVars
<1>2. ChainStep
  BY <1>1 DEF ChainStep
<1>3. Grows /\ ChainTypeOK'
  BY <1>1, <1>2, ChainStepGrows, ChainStepType DEF World
<1>4. World'
  BY SMT, <1>1, <1>3, ChainKeepsOrder, NetStays DEF World, EnvDataTypeOK
<1>5. Maker' /\ Taker'
  BY <1>3, MakerCrashSide, MakerCrashOrder, TakerCrashSide, TakerCrashOrder, MakerFrame,
     TakerFrame DEF Maker, Taker
<1>. QED  BY <1>2, <1>4, <1>5

\* Whatever only moves the chains: blocks, automatic refunds, recover_funds.
LEMMA ChainOnlyInv ==
  ASSUME World, Maker, Taker,
         \/ \E p \in Payments : Returned(p) \/ Mined(p)
         \/ Spent("taker_payment") /\ Claimed("maker_payment"),
         overdue' \subseteq overdue, UNCHANGED <<now, net, faults, crashes>>,
         UNCHANGED makerVars, UNCHANGED takerVars
  PROVE  World' /\ Maker' /\ Taker' /\ ChainStep
<1>1. ChainStep
  BY DEF ChainStep, Payments
<1>2. m_saved \subseteq m_saved' /\ t_saved \subseteq t_saved'
  BY DEF makerVars, takerVars
<1>3. Grows /\ ChainTypeOK'
  BY <1>1, <1>2, ChainStepGrows, ChainStepType DEF World
<1>4. World'
  BY <1>2, <1>3, ChainKeepsOrder, NetStays DEF World, EnvDataTypeOK
<1>. QED  BY <1>1, <1>3, <1>4, MakerFrame, TakerFrame

\* recover_funds of the maker only ever refunds: its other branch would need a spent
\* maker payment and a taker payment nobody took.
LEMMA MakerRecoverInv ==
  ASSUME World, Maker, Taker, MakerRecoverFunds, UNCHANGED takerVars
  PROVE  World' /\ Maker' /\ Taker' /\ ChainStep
<1>1. ~(Spent("maker_payment") /\ Unclaimed("taker_payment"))
  BY DEF World, ChainInv, Spent, Unclaimed
<1>2. Returned("maker_payment")
  BY <1>1
  DEF MakerRecoverFunds, MakerRecovery, RefundPayment, Returned
<1>. QED  BY <1>2, ChainOnlyInv DEF MakerRecoverFunds, Payments

\* recover_funds of the taker claims the maker payment with a public secret, or refunds.
LEMMA TakerRecoverInv ==
  ASSUME World, Maker, Taker, TakerRecoverFunds, UNCHANGED makerVars
  PROVE  World' /\ Maker' /\ Taker' /\ ChainStep
<1>1. \/ Spent("taker_payment") /\ Claimed("maker_payment")
      \/ Returned("taker_payment")
  BY DEF TakerRecoverFunds, TakerRecovery, TakerPaymentSpendFound, RefundPayment,
         Returned, Claimed
<1>. QED  BY <1>1, ChainOnlyInv DEF TakerRecoverFunds, Payments

\* Blocks and lightning nodes.
LEMMA ChainInvStep ==
  ASSUME World, Maker, Taker, Chain, UNCHANGED <<makerVars, takerVars>>
  PROVE  World' /\ Maker' /\ Taker' /\ ChainStep
<1>1. ASSUME NEW p \in Payments, Mine(p) PROVE Mined(p)
  BY <1>1 DEF Mine, Mined, World, ChainTypeOK
<1>2. ASSUME NEW p \in Payments, AutoRefund(p) PROVE Returned(p)
  BY <1>2 DEF AutoRefund, Returned
<1>3. /\ \E p \in Payments : Returned(p) \/ Mined(p)
      /\ overdue' \subseteq overdue /\ UNCHANGED <<now, net, faults, crashes>>
  BY <1>1, <1>2 DEF Chain, Mine, AutoRefund
<1>. QED  BY <1>3, ChainOnlyInv

\* The clock.
LEMMA TickInv ==
  ASSUME World, Maker, Taker, Tick, UNCHANGED <<makerVars, takerVars>>
  PROVE  World' /\ Maker' /\ Taker' /\ ChainStep
<1>1. /\ ChainUnchanged /\ now' = now + 1 /\ UNCHANGED <<net, faults, crashes>>
      /\ UNCHANGED makerVars /\ UNCHANGED takerVars
      /\ m_saved \subseteq m_saved' /\ t_saved \subseteq t_saved'
  BY DEF Tick, ChainUnchanged, makerVars, takerVars
<1>2. overdue' \subseteq {"maker", "taker"} \cup Payments
  BY DEF Tick, Outstanding
<1>3. ChainStep
  BY <1>1 DEF ChainStep
<1>4. Grows /\ ChainTypeOK'
  BY <1>1, <1>3, ChainStepGrows, ChainStepType DEF World
<1>5. World'
  BY SMT, <1>1, <1>2, <1>4, ChainKeepsOrder, NetStays DEF World, EnvDataTypeOK
<1>. QED  BY <1>1, <1>3, <1>4, <1>5, MakerFrame, TakerFrame

\* A step that changes nothing.
LEMMA StutterInv ==
  ASSUME World, Maker, Taker, UNCHANGED vars
  PROVE  World' /\ Maker' /\ Taker' /\ ChainStep
<1>1. /\ ChainUnchanged /\ UNCHANGED <<now, net, faults, crashes, overdue>>
      /\ UNCHANGED makerVars /\ UNCHANGED takerVars
      /\ m_saved \subseteq m_saved' /\ t_saved \subseteq t_saved'
  BY DEF vars, envVars, ChainUnchanged, makerVars, takerVars
<1>2. ChainStep
  BY <1>1 DEF ChainStep
<1>3. Grows /\ ChainTypeOK'
  BY <1>1, <1>2, ChainStepGrows, ChainStepType DEF World
<1>4. World'
  BY <1>1, <1>3, ChainKeepsOrder, NetStays DEF World, EnvDataTypeOK
<1>. QED  BY <1>1, <1>2, <1>3, <1>4, MakerFrame, TakerFrame

-----------------------------------------------------------------------------
(* The theorems.                                                           *)

\* Nothing has happened at first: the logs are empty and so is the topic.
LEMMA InitInv == Init => IndInv
<1>1. SUFFICES ASSUME Init PROVE World /\ Maker /\ Taker
  BY IndInvParts
<1>. USE DEF Init, EnvInit, MakerInit, TakerInit
<1>2. EnvDataTypeOK /\ ChainTypeOK
  BY <1>1 DEF EnvDataTypeOK, ChainTypeOK, HtlcStates, Payments, Transfers
<1>3. NetInv /\ ChainInv
  BY <1>1 DEF NetInv, ChainInv, OnChain, Spent, SecretPublic, Payments, Transfers
<1>4. MakerControlTypeOK /\ MakerDataTypeOK /\ MakerLogInv /\ MakerControlInv /\ MakerOrderInv
  <2>1. MakerControlTypeOK
    BY SMT, <1>1 DEF MakerControlTypeOK, MakerCommands
  <2>2. m_reward \in BOOLEAN
    BY <1>1, Zenon
  <2>3. MakerDataTypeOK
    BY <1>1, <2>2 DEF MakerDataTypeOK
  <2>4. MakerLogInv
    BY SMT, <1>1 DEF MakerLogInv
  <2>5. MakerControlInv
    BY <1>1 DEF MakerControlInv, MakerCommands, MakerAwaits
  <2>6. MakerOrderInv
    BY SMTT(30), <1>1 DEF MakerOrderInv, LogOrdered
  <2>. QED  BY <2>1, <2>3, <2>4, <2>5, <2>6
<1>5. TakerControlTypeOK /\ TakerDataTypeOK /\ TakerLogInv /\ TakerControlInv /\ TakerOrderInv
  <2>1. TakerControlTypeOK
    BY SMT, <1>1 DEF TakerControlTypeOK, TakerCommands
  <2>2. t_reward \in BOOLEAN
    BY <1>1, Zenon
  <2>3. TakerDataTypeOK
    BY <1>1, <2>2 DEF TakerDataTypeOK
  <2>4. TakerLogInv
    BY SMT, <1>1 DEF TakerLogInv
  <2>5. TakerControlInv
    BY <1>1 DEF TakerControlInv, TakerCommands, TakerAwaits
  <2>6. TakerOrderInv
    BY SMT, <1>1 DEF TakerOrderInv, LogOrdered
  <2>. QED  BY <2>1, <2>3, <2>4, <2>5, <2>6
<1>. QED  BY <1>2, <1>3, <1>4, <1>5 DEF World, Maker, Taker, MakerSide, TakerSide

\* Every step keeps the invariant and moves the chains as ChainStep says.
LEMMA NextInv ==
  ASSUME IndInv, [Next]_vars
  PROVE  IndInv' /\ ChainStep
<1>1. World /\ Maker /\ Taker
  BY IndInvParts
<1>2. World' /\ Maker' /\ Taker' /\ ChainStep
  <2>1. CASE (MakerStep \/ MakerCrash \/ MakerRecoverFunds) /\ UNCHANGED takerVars
    <3>1. CASE MakerStep
      BY <1>1, <2>1, <3>1, MakerStepInv
    <3>2. CASE MakerCrash
      <4>1. MakerCrash /\ UNCHANGED takerVars
        BY <2>1, <3>2
      <4>. QED  BY <1>1, <4>1, CrashInv
    <3>3. CASE MakerRecoverFunds
      BY <1>1, <2>1, <3>3, MakerRecoverInv
    <3>. QED  BY <2>1, <3>1, <3>2, <3>3
  <2>2. CASE (TakerStep \/ TakerCrash \/ TakerRecoverFunds) /\ UNCHANGED makerVars
    <3>1. CASE TakerStep
      BY <1>1, <2>2, <3>1, TakerStepInv
    <3>2. CASE TakerCrash
      <4>1. TakerCrash /\ UNCHANGED makerVars
        BY <2>2, <3>2
      <4>. QED  BY <1>1, <4>1, CrashInv
    <3>3. CASE TakerRecoverFunds
      BY <1>1, <2>2, <3>3, TakerRecoverInv
    <3>. QED  BY <2>2, <3>1, <3>2, <3>3
  <2>3. CASE (Chain \/ Tick) /\ UNCHANGED <<makerVars, takerVars>>
    BY <1>1, <2>3, ChainInvStep, TickInv
  <2>4. CASE UNCHANGED vars
    BY <1>1, <2>4, StutterInv
  <2>. QED  BY <2>1, <2>2, <2>3, <2>4 DEF Next
<1>. QED  BY <1>2, IndInvPartsNext

\* The two databases, the two program counters, the topic and the chains agree with
\* each other in every reachable state, whatever is delayed, lost, failed or crashed.
THEOREM Invariance == Spec => []IndInv
<1>1. IndInv /\ [Next]_vars => IndInv'
  BY NextInv
<1>. QED  BY <1>1, InitInv, PTL DEF Spec

\* The variables keep their types: a handler never returns an unknown command, and
\* the last event saved is in the database.
THEOREM TypeCorrect == Spec => []TypeOK
<1>1. IndInv => TypeOK
  BY DEF IndInv
<1>. QED  BY <1>1, Invariance, PTL

\* What the invariant says about the swap.
SwapSafety ==
  /\ NoDoublePayment /\ LogTellsChain /\ PaymentOrder
  /\ MakerUnwraps /\ TakerUnwraps
  /\ LostWithoutFunds /\ KickStartContinues

\* All of it follows from what the logs, the counters and the chains agree on.
LEMMA InvSafety ==
  ASSUME IndInv
  PROVE  SwapSafety
<1>1. NoDoublePayment
  BY SMT DEF IndInv, ChainInv, NoDoublePayment
<1>2. LogTellsChain
  BY DEF IndInv, MakerLogInv, TakerLogInv, MakerEventOK, TakerEventOK, LogTellsChain
<1>3. PaymentOrder
  BY DEF IndInv, ChainInv, PaymentOrder
<1>4. MakerUnwraps /\ TakerUnwraps
  <2>1. MakerSide /\ TakerSide
    BY IndInvParts DEF Maker, Taker
  <2>. QED  BY <2>1, MakerPaths, TakerPaths DEF MakerUnwraps, TakerUnwraps
<1>5. LostWithoutFunds
  BY DEF IndInv, ChainInv, MakerControlInv, TakerControlInv, LostWithoutFunds
<1>6. KickStartContinues
  <2>1. \A command \in MakerCommands : MakerCommandAt(command) = command
    BY DEF MakerCommands, MakerCommandAt
  <2>2. \A command \in TakerCommands : TakerCommandAt(command) = command
    BY DEF TakerCommands, TakerCommandAt
  <2>3. MakerKickStartContinues
    BY <2>1 DEF IndInv, MakerControlInv, MakerKickStartContinues
  <2>4. TakerKickStartContinues
    BY <2>2 DEF IndInv, TakerControlInv, TakerGoesOn, TakerAbandons, TakerKickStartContinues
  <2>. QED  BY <2>3, <2>4 DEF KickStartContinues
<1>. QED  BY <1>1, <1>2, <1>3, <1>4, <1>5, <1>6 DEF SwapSafety

\* However often a node crashes between sending its payment and saving the event, the
\* payment is sent once.
THEOREM PaymentsSentOnce == Spec => []NoDoublePayment
<1>1. IndInv => NoDoublePayment
  BY InvSafety DEF SwapSafety
<1>. QED  BY <1>1, Invariance, PTL

\* The events in both databases are backed by the chains: what a restart and
\* recover_funds act on is true.
THEOREM LogsAreTrue == Spec => []LogTellsChain
<1>1. IndInv => LogTellsChain
  BY InvSafety DEF SwapSafety
<1>. QED  BY <1>1, Invariance, PTL

\* The fee precedes the maker payment, its confirmation the taker payment, and the
\* saved validation of the taker payment the secret.
THEOREM PaymentsInOrder == Spec => []PaymentOrder
<1>1. IndInv => PaymentOrder
  BY InvSafety DEF SwapSafety
<1>. QED  BY <1>1, Invariance, PTL

\* No unwrap() of a transaction in the maker's handlers meets None.
THEOREM MakerNeverPanics == Spec => []MakerUnwraps
<1>1. IndInv => MakerUnwraps
  BY InvSafety DEF SwapSafety
<1>. QED  BY <1>1, Invariance, PTL

\* No unwrap() of a transaction in the taker's handlers after validate_maker_payment
\* meets None.
THEOREM TakerUnwrapsFindValues == Spec => []TakerUnwraps
<1>1. IndInv => TakerUnwraps
  BY InvSafety DEF SwapSafety
<1>. QED  BY <1>1, Invariance, PTL

\* A node whose swap task can never be started again had not paid.
THEOREM NothingLost == Spec => []LostWithoutFunds
<1>1. IndInv => LostWithoutFunds
  BY InvSafety DEF SwapSafety
<1>. QED  BY <1>1, Invariance, PTL

\* A node that restarts after a crash continues with the command it was about to run,
\* also in the middle of a batch of events; a taker that gives up on the secret or on
\* the maker payment is the one exception.
THEOREM RestartsInPlace == Spec => []KickStartContinues
<1>1. IndInv => KickStartContinues
  BY InvSafety DEF SwapSafety
<1>. QED  BY <1>1, Invariance, PTL

-----------------------------------------------------------------------------
(* Torn batches.                                                           *)

\* A handler of the taker never leaves the first event of wait_for_maker_payment as
\* the last one, and panics only where a crash did.
LEMMA TakerHandlerTorn ==
  ASSUME Taker, TornInv, TakerHandler, UNCHANGED crashes
  PROVE  TornInv'
<1>. USE DEF TakerReturn, TakerAwait, TakerReturnRefund
<1>1. CASE TakerValidatePanics
  <2>1. t_last \in t_saved /\ TakerGetCommand(t_last) = "ValidateMakerPayment"
    BY <1>1 DEF TakerValidatePanics, Taker, TakerSide, TakerControlInv, TakerGoesOn,
                TakerCommandAt, TakerCommands
  <2>2. t_last \notin {"MakerPaymentReceived", "MakerPaymentWaitConfirmStarted"}
    BY <1>1, <2>1 DEF TakerValidatePanics, Taker, TakerSide, TakerLogInv, TakerEventOK
  <2>3. t_last = "TakerPaymentInstructionsReceived"
    BY <2>1, <2>2 DEF TakerGetCommand, TakerRefundEvents, TakerFinishEvents
  <2>. QED  BY <1>1, <2>3 DEF TakerValidatePanics, TornInv
<1>2. CASE TakerSaveEvent
  <2>1. /\ t_pc = "Saving" /\ t_pending \in Seq(TakerEvents) /\ t_pending # <<>>
        /\ TakerGoesOn(t_next, t_pending[Len(t_pending)])
        /\ t_pending[Len(t_pending)] # "TakerPaymentInstructionsReceived"
    BY <1>2 DEF TakerSaveEvent, Taker, TakerSide, TakerControlTypeOK, TakerControlInv, TornInv
  <2>2. CASE Len(t_pending) = 1
    <3>1. t_last' = t_pending[Len(t_pending)] /\ t_pc' = t_next
      BY SMT, <1>2, <2>1, <2>2 DEF TakerSaveEvent
    <3>2. t_next \notin {"Saving", "Panicked"}
      BY <2>1, TakerGetCommandType DEF TakerGoesOn, TakerCommands
    <3>. QED  BY <2>1, <3>1, <3>2 DEF TornInv
  <2>3. CASE Len(t_pending) # 1
    <3>1. t_pc' = "Saving" /\ t_pending' = Tail(t_pending)
      BY <1>2, <2>1, <2>3 DEF TakerSaveEvent
    <3>2. /\ Len(t_pending') = Len(t_pending) - 1 /\ Len(t_pending') \in Nat \ {0}
          /\ \A n \in 1..Len(t_pending') : t_pending'[n] = t_pending[n + 1]
      BY SMT, <2>1, <2>3, <3>1
    <3>3. t_pending'[Len(t_pending')] = t_pending[Len(t_pending)]
      BY SMT, <2>1, <3>2
    <3>. QED  BY <2>1, <3>1, <3>3 DEF TornInv
  <2>. QED  BY <2>2, <2>3
<1>3. CASE TakerKickStart
  <2>1. t_pc = "Down" /\ UNCHANGED t_last /\ t_pc' \notin {"Saving", "Panicked"}
    BY <1>3, TakerGetCommandType DEF TakerKickStart, TakerCommands
  <2>. QED  BY <2>1 DEF TornInv
<1>4. CASE \/ TakerStart \/ TakerNegotiate \/ TakerNegotiateRecv \/ TakerNegotiateTimeout
           \/ TakerSendFee \/ TakerSendFeeSend \/ TakerWaitForMakerPayment
  BY SMT, <1>4
  DEF TornInv, TakerStart, TakerNegotiate, TakerNegotiateRecv, TakerNegotiateTimeout,
      TakerSendFee, TakerSendFeeSend, TakerWaitForMakerPayment
<1>5. CASE TakerNegotiated \/ TakerMakerPaymentRecv
  <2>1. \/ \E command, a : /\ a # "TakerPaymentInstructionsReceived"
                           /\ TakerReturn(command, <<a>>)
        \/ TakerReturn("ValidateMakerPayment",
                       <<"TakerPaymentInstructionsReceived", "MakerPaymentReceived",
                         "MakerPaymentWaitConfirmStarted">>)
    BY SMT, <1>5 DEF TakerNegotiated, TakerMakerPaymentRecv
  <2>. QED  BY SMTT(30), <2>1 DEF TornInv
<1>6. CASE \/ TakerMakerPaymentRecvTimeout \/ TakerValidateMakerPayment \/ TakerSendPayment
           \/ TakerSendPaymentSend \/ TakerWaitForPaymentSpend \/ TakerPaymentWaitConfirm
  BY SMT, <1>6
  DEF TornInv, TakerMakerPaymentRecvTimeout, TakerValidateMakerPayment, TakerSendPayment,
      TakerSendPaymentSend, TakerPaymentSentEvents, TakerWaitForPaymentSpend,
      TakerPaymentWaitConfirm
<1>7. CASE \/ TakerPaymentSpendSeen \/ TakerPaymentSpendTimeout \/ TakerSpendMakerPayment
           \/ TakerPrepareForRefund \/ TakerWaitAutoRefund \/ TakerRefundPayment
           \/ TakerFinalizeRefund \/ TakerFinish
  BY SMT, <1>7
  DEF TornInv, TakerPaymentSpendSeen, TakerPaymentSpendTimeout, TakerSpendMakerPayment,
      TakerPrepareForRefund, TakerWaitAutoRefund, TakerRefundPayment, TakerFinalizeRefund,
      TakerFinish
<1>. QED  BY <1>1, <1>2, <1>3, <1>4, <1>5, <1>6, <1>7 DEF TakerHandler

\* Nobody else touches the taker's record, and crashes are only ever added.
LEMMA TornStep ==
  ASSUME IndInv, TornInv, [Next]_vars
  PROVE  TornInv'
<1>1. Taker /\ crashes \in Nat
  BY IndInvParts DEF World, EnvDataTypeOK
<1>2. CASE TakerStep
  BY <1>1, <1>2, TakerHandlerTorn DEF TakerStep
<1>3. CASE TakerCrash
  BY SMT, <1>1, <1>3 DEF TakerCrash, TornInv
<1>4. CASE UNCHANGED <<t_pc, t_pending, t_last>> /\ crashes' \in {crashes, crashes + 1}
  BY SMT, <1>1, <1>4 DEF TornInv
<1>5. \/ TakerStep \/ TakerCrash
      \/ UNCHANGED <<t_pc, t_pending, t_last>> /\ crashes' \in {crashes, crashes + 1}
  BY DEF Next, MakerStep, MakerCrash, MakerRecoverFunds, TakerRecoverFunds, Chain, Mine,
         AutoRefund, Tick, takerVars, vars, envVars
<1>. QED  BY <1>2, <1>3, <1>4, <1>5

\* No unwrap() of a transaction in a handler of either side meets None, whichever event
\* a crash left as the last one, but for the one of validate_maker_payment after a crash
\* between the three events of wait_for_maker_payment.
THEOREM UnwrapsHold == Spec => []Unwraps
<1>1. Init => TornInv
  BY DEF Init, TakerInit, TornInv
<1>2. IndInv /\ TornInv /\ [Next]_vars => TornInv'
  BY TornStep
<1>3. TornInv /\ IndInv => TakerPanicsOnlyTorn
  BY DEF TornInv, TakerPanicsOnlyTorn
<1>. QED  BY <1>1, <1>2, <1>3, Invariance, MakerNeverPanics, TakerUnwrapsFindValues, PTL
          DEF Spec, Unwraps

-----------------------------------------------------------------------------
(* Recovery.                                                               *)

\* What recover_funds_of_swap needs to know of a finished maker swap.
LEMMA MakerRecovers ==
  ASSUME World, Maker
  PROVE  MakerNotStranded
<1>1. SUFFICES ASSUME m_pc = "None", Unclaimed("maker_payment"),
                      CanRefundHtlc("maker_payment"), "maker_payment" \notin AutoRefundable,
                      ~Spent("taker_payment")
               PROVE  MakerIsRecoverable /\ MakerRecovery = "RefundedMyPayment"
  BY DEF MakerNotStranded
<1>2. OnChain("maker_payment") /\ ~Spent("maker_payment") /\ ~Refunded("maker_payment")
  BY <1>1 DEF Unclaimed, OnChain, Spent, Refunded
<1>3. {"Started", "TakerFeeValidated", "Finished"} \subseteq m_saved
  BY <1>1, <1>2 DEF World, ChainInv, Maker, MakerOrderInv
<1>4. m_saved \cap MakerGaveUp = {}
  BY <1>3 DEF Maker, MakerOrderInv
<1>5. "TakerPaymentSpendConfirmed" \notin m_saved /\ "MakerPaymentRefunded" \notin m_saved
  BY <1>1, <1>2 DEF Maker, MakerSide, MakerLogInv, MakerEventOK, MakerEventBacked
<1>6. MakerIsRecoverable
  BY <1>3, <1>4, <1>5 DEF MakerIsRecoverable, MakerUnrecoverableEvents, MakerGaveUp
<1>7. MakerRecoverFundsAccepts
  BY <1>2, <1>3, <1>5 DEF MakerRecoverFundsAccepts, MakerRefundTxKnown
<1>. QED  BY <1>1, <1>2, <1>6, <1>7 DEF MakerRecovery

\* The same for the taker, who may also claim the maker payment.
LEMMA TakerRecovers ==
  ASSUME World, Taker
  PROVE  TakerNotStranded
<1>1. ASSUME t_pc = "None", OnChain("taker_payment"), ~Refunded("taker_payment"),
             ~Spent("maker_payment")
      PROVE  TakerIsRecoverable /\ TakerRecoverFundsAccepts
  <2>1. {"Started", "MakerPaymentReceived", "MakerPaymentValidatedAndConfirmed", "Finished"}
          \subseteq t_saved
    BY <1>1 DEF World, ChainInv, Taker, TakerOrderInv
  <2>2. t_saved \cap TakerGaveUp = {}
    BY <2>1 DEF Taker, TakerOrderInv
  <2>3. "TakerPaymentRefunded" \notin t_saved /\ "MakerPaymentSpent" \notin t_saved
    BY <1>1 DEF Taker, TakerSide, TakerLogInv, TakerEventOK, TakerEventBacked
  <2>4. TakerIsRecoverable
    BY <2>1, <2>2, <2>3 DEF TakerIsRecoverable, TakerUnrecoverableEvents, TakerGaveUp
  <2>5. TakerRecoverFundsAccepts
    BY <1>1, <2>1, <2>3 DEF TakerRecoverFundsAccepts, TakerRefundTxKnown
  <2>. QED  BY <2>4, <2>5
<1>2. ASSUME t_pc = "None", Unclaimed("taker_payment"), CanRefundHtlc("taker_payment"),
             "taker_payment" \notin AutoRefundable
      PROVE  TakerIsRecoverable /\ TakerRecovery = "RefundedMyPayment"
  <2>1. /\ OnChain("taker_payment") /\ ~Refunded("taker_payment") /\ ~Spent("taker_payment")
        /\ ~Spent("maker_payment")
    BY <1>2 DEF Unclaimed, OnChain, Spent, Refunded, World, ChainInv
  <2>. QED  BY <1>1, <1>2, <2>1 DEF TakerRecovery, TakerPaymentSpendFound
<1>3. ASSUME t_pc = "None", Spent("taker_payment"), Unclaimed("maker_payment")
      PROVE  TakerIsRecoverable /\ TakerRecovery = "SpentOtherPayment"
  <2>1. OnChain("taker_payment") /\ ~Refunded("taker_payment") /\ ~Spent("maker_payment")
    BY <1>3 DEF Unclaimed, OnChain, Spent, Refunded
  <2>. QED  BY <1>1, <1>3, <2>1 DEF TakerRecovery, TakerPaymentSpendFound
<1>. QED  BY <1>2, <1>3 DEF TakerNotStranded

\* However a swap ended, recover_funds_of_swap reaches a payment that is left behind: it
\* refunds an expired one, and spends the maker payment when the taker payment was spent.
THEOREM NothingStranded == Spec => []NotStranded
<1>1. IndInv => NotStranded
  BY IndInvParts, MakerRecovers, TakerRecovers DEF NotStranded
<1>. QED  BY <1>1, Invariance, PTL

-----------------------------------------------------------------------------
(* The refinement.                                                         *)

\* Every move on the chains is a step of SwapPromise or none at all.
LEMMA PromiseStep ==
  ASSUME ChainTypeOK, ChainStep, ChainInv'
  PROVE  [Promise!Next]_<<PromiseState("maker_payment"), PromiseState("taker_payment")>>
<1>. USE DEF ChainTypeOK, PromiseState, HtlcStates, Payments
<1>1. CASE ChainUnchanged
  BY <1>1 DEF ChainUnchanged
<1>2. CASE FeeSent
  BY <1>2 DEF FeeSent
<1>3. CASE Locked("maker_payment")
  BY <1>3 DEF Locked, SendPayment, OnChain, Promise!Next, Promise!LockMaker
<1>4. CASE Locked("taker_payment")
  BY <1>4 DEF Locked, SendPayment, OnChain, Confirmed, ChainInv, Promise!Next,
              Promise!LockTaker
<1>5. CASE Claimed("maker_payment")
  BY <1>5 DEF Claimed, SpendPayment, Unclaimed, Spent, ChainInv, Promise!Next,
              Promise!SpendMaker
<1>6. CASE Claimed("taker_payment")
  BY <1>6 DEF Claimed, SpendPayment, Unclaimed, Promise!Next, Promise!SpendTaker
<1>7. CASE Returned("maker_payment")
  BY <1>7 DEF Returned, Unclaimed, Promise!Next, Promise!ReturnMaker
<1>8. CASE Returned("taker_payment")
  BY <1>8 DEF Returned, Unclaimed, Promise!Next, Promise!ReturnTaker
<1>9. ASSUME NEW p \in Payments, Mined(p)
      PROVE  UNCHANGED <<PromiseState("maker_payment"), PromiseState("taker_payment")>>
  BY <1>9 DEF Mined
<1>. QED  BY <1>1, <1>2, <1>3, <1>4, <1>5, <1>6, <1>7, <1>8, <1>9 DEF ChainStep

\* The swap implements SwapPromise: each payment is locked once and leaves its lock
\* once, and the maker payment is spent only after the taker payment was.
THEOREM Refinement == Spec => KeepsPromise
<1>1. Init => Promise!Init
  BY DEF Init, EnvInit, PromiseState, Promise!Init, Payments
<1>2. IndInv /\ [Next]_vars
        => [Promise!Next]_<<PromiseState("maker_payment"), PromiseState("taker_payment")>>
  <2>1. SUFFICES ASSUME IndInv, [Next]_vars
                 PROVE  [Promise!Next]_<<PromiseState("maker_payment"),
                                         PromiseState("taker_payment")>>
    OBVIOUS
  <2>2. IndInv' /\ ChainStep
    BY <2>1, NextInv
  <2>3. ChainTypeOK
    BY <2>1, IndInvParts DEF World
  <2>4. ChainInv'
    BY <2>2, IndInvPartsNext DEF World
  <2>. QED  BY <2>2, <2>3, <2>4, PromiseStep
<1>. QED  BY <1>1, <1>2, Invariance, PTL DEF Spec, KeepsPromise, Promise!Spec

-----------------------------------------------------------------------------
(* The swap with its watchers.                                             *)

Told ==
  /\ \A start \in told : start = t_started_at
  /\ told # {} \/ (\E w \in Watchers : w_pc[w] \in WatcherStates) => t_pc # "Start"

Watched == WatcherTypeOK /\ WatcherKnows /\ Told

\* The invariant, sorted by who owns the state.
LEMMA WatchedInvParts == WatchedInv <=> World /\ Maker /\ Taker /\ Watched
BY IndInvParts, Zenon DEF WatchedInv, Watched, Told

\* The same for the next state.
LEMMA WatchedInvPartsNext == WatchedInv' <=> World' /\ Maker' /\ Taker' /\ Watched'
BY WatchedInvParts, PTL

-----------------------------------------------------------------------------
(* The swap, as the watchers and the clock see it.                         *)

\* Whoever is not a party to the swap leaves it in order: watchers, blocks, the clock.
LEMMA OthersInv ==
  ASSUME World, Maker, Taker,
         \/ ChainUnchanged
         \/ \E p \in Payments : Returned(p) \/ Mined(p)
         \/ Spent("taker_payment") /\ Claimed("maker_payment"),
         overdue' \subseteq {"maker", "taker"} \cup Payments,
         now' \in Nat, crashes' \in Nat, UNCHANGED <<net, faults>>,
         UNCHANGED makerVars, UNCHANGED takerVars
  PROVE  World' /\ Maker' /\ Taker' /\ ChainStep
<1>1. ChainStep
  BY DEF ChainStep, Payments
<1>2. m_saved \subseteq m_saved' /\ t_saved \subseteq t_saved'
  BY DEF makerVars, takerVars
<1>3. Grows /\ ChainTypeOK'
  BY <1>1, <1>2, ChainStepGrows, ChainStepType DEF World
<1>4. World'
  BY <1>2, <1>3, ChainKeepsOrder, NetStays DEF World, EnvDataTypeOK
<1>. QED  BY <1>1, <1>3, <1>4, MakerFrame, TakerFrame

\* The taker starts a swap once: no crash and no kick-start makes it start again.
LEMMA TakerStartsOnce ==
  ASSUME Taker, TakerStep \/ TakerCrash \/ TakerRecoverFunds, t_pc # "Start"
  PROVE  t_pc' # "Start" /\ t_started_at' = t_started_at
<1>1. \A event : TakerGetCommand(event) # "Start"
  BY DEF TakerGetCommand
<1>2. t_pc = "Saving" => t_next # "Start"
  BY <1>1 DEF Taker, TakerSide, TakerControlInv, TakerGoesOn
<1>3. CASE TakerCrash
  BY <1>3 DEF TakerCrash
<1>4. CASE TakerRecoverFunds
  BY <1>4 DEF TakerRecoverFunds, takerVars
<1>5. CASE TakerStep
  <2>1. TakerHandler
    BY <1>5 DEF TakerStep
  <2>. USE DEF TakerReturn, TakerAwait, TakerDataUnchanged, TakerReturnRefund
  <2>2. CASE \/ TakerStart \/ TakerNegotiate \/ TakerNegotiateRecv \/ TakerNegotiated
             \/ TakerNegotiateTimeout \/ TakerSendFee \/ TakerSendFeeSend
             \/ TakerWaitForMakerPayment \/ TakerMakerPaymentRecv
    BY <2>2
    DEF TakerStart, TakerNegotiate, TakerNegotiateRecv, TakerNegotiated,
        TakerNegotiateTimeout, TakerSendFee, TakerSendFeeSend, TakerWaitForMakerPayment,
        TakerMakerPaymentRecv
  <2>3. CASE \/ TakerMakerPaymentRecvTimeout \/ TakerValidateMakerPayment
             \/ TakerValidatePanics \/ TakerSendPayment \/ TakerSendPaymentSend
             \/ TakerWaitForPaymentSpend \/ TakerPaymentWaitConfirm
    BY <2>3
    DEF TakerMakerPaymentRecvTimeout, TakerValidateMakerPayment, TakerValidatePanics,
        TakerSendPayment, TakerSendPaymentSend, TakerWaitForPaymentSpend,
        TakerPaymentWaitConfirm
  <2>4. CASE \/ TakerPaymentSpendSeen \/ TakerPaymentSpendTimeout
             \/ TakerSpendMakerPayment \/ TakerPrepareForRefund \/ TakerWaitAutoRefund
             \/ TakerRefundPayment \/ TakerFinalizeRefund \/ TakerFinish
    BY <2>4
    DEF TakerPaymentSpendSeen, TakerPaymentSpendTimeout, TakerSpendMakerPayment,
        TakerPrepareForRefund, TakerWaitAutoRefund, TakerRefundPayment,
        TakerFinalizeRefund, TakerFinish
  <2>5. CASE TakerSaveEvent \/ TakerKickStart
    BY <1>1, <1>2, <2>5 DEF TakerSaveEvent, TakerKickStart
  <2>. QED  BY <2>1, <2>2, <2>3, <2>4, <2>5 DEF TakerHandler
<1>. QED  BY <1>3, <1>4, <1>5

-----------------------------------------------------------------------------
(* The watchers.                                                           *)

\* A watcher spends the maker payment with a secret that is public, refunds the taker
\* payment, or leaves the chains alone.
LEMMA WatcherChainMove ==
  ASSUME WatcherKnows, NEW w \in Watchers, WatcherMoves(w)
  PROVE  \/ ChainUnchanged
         \/ Returned("taker_payment")
         \/ Spent("taker_payment") /\ Claimed("maker_payment")
<1>1. CASE WatcherSpawn(w) \/ WatcherCrash(w)
  BY <1>1 DEF WatcherSpawn, SpawnTakerSwapWatcher, WatcherCrash
<1>2. CASE WatcherSpendMakerPayment(w)
  BY <1>2 DEF WatcherSpendMakerPayment, WatcherKnows, SecretPublic, Claimed
<1>3. CASE WatcherRefundTakerPayment(w)
  BY <1>3 DEF WatcherRefundTakerPayment, RefundPayment, Returned, Payments
<1>4. CASE \/ WatcherValidateTakerFee(w) \/ WatcherValidateTakerPayment(w)
           \/ WatcherFindsSpend(w) \/ WatcherFindsRefund(w)
           \/ WatcherWaitedLongEnough(w) \/ WatcherWaitsForMakerSpend(w)
  BY <1>4
  DEF WatcherValidateTakerFee, WatcherValidateTakerPayment, WatcherFindsSpend,
      WatcherFindsRefund, WatcherWaitedLongEnough, WatcherWaitsForMakerSpend
<1>. QED  BY <1>1, <1>2, <1>3, <1>4 DEF WatcherMoves, WatcherStep, WatcherState

\* A state machine has its types, starts only from a message of the taker, and turns
\* to the secret only when the chain shows it.
LEMMA WatcherControl ==
  ASSUME Watched, NEW w \in Watchers, WatcherMoves(w)
  PROVE  /\ told' = told
         /\ \E state \in WatcherStates \cup WatcherStopped :
              /\ w_pc' = [w_pc EXCEPT ![w] = state]
              /\ state \in {"WaitForTakerPaymentSpend.maker_spend", "SpendMakerPayment"}
                   => SecretPublic
              /\ \/ w_started_at' = w_started_at /\ w_pc[w] \in WatcherStates
                 \/ \E start \in told : w_started_at' = [w_started_at EXCEPT ![w] = start]
         /\ w_overdue' \subseteq w_overdue
<1>. USE DEF WatcherStates, WatcherStopped, ChangeState
<1>1. CASE WatcherSpawn(w)
  BY <1>1 DEF WatcherSpawn, SpawnTakerSwapWatcher
<1>2. CASE WatcherCrash(w)
  BY <1>2 DEF WatcherCrash
<1>3. CASE \/ WatcherValidateTakerFee(w) \/ WatcherValidateTakerPayment(w)
           \/ WatcherFindsRefund(w) \/ WatcherWaitedLongEnough(w)
           \/ WatcherSpendMakerPayment(w) \/ WatcherRefundTakerPayment(w)
  BY <1>3
  DEF WatcherMoves, WatcherStep, WatcherSpawn, WatcherCrash, SpawnTakerSwapWatcher,
      WatcherValidateTakerFee, WatcherValidateTakerPayment, WatcherFindsRefund,
      WatcherWaitedLongEnough, WatcherSpendMakerPayment, WatcherRefundTakerPayment
<1>4. CASE WatcherFindsSpend(w)
  BY <1>4
  DEF WatcherMoves, WatcherStep, WatcherSpawn, WatcherCrash, SpawnTakerSwapWatcher,
      WatcherFindsSpend, WatcherSpendFound, SecretPublic
<1>5. CASE WatcherWaitsForMakerSpend(w)
  BY <1>5
  DEF WatcherMoves, WatcherStep, WatcherSpawn, WatcherCrash, SpawnTakerSwapWatcher,
      WatcherWaitsForMakerSpend, Watched, WatcherKnows
<1>. QED  BY <1>1, <1>2, <1>3, <1>4, <1>5 DEF WatcherMoves, WatcherStep, WatcherState

\* A step of a watcher.
LEMMA WatcherInvStep ==
  ASSUME World, Maker, Taker, Watched, NEW w \in Watchers, WatcherMoves(w)
  PROVE  World' /\ Maker' /\ Taker' /\ Watched' /\ ChainStep
<1>1. /\ UNCHANGED makerVars /\ UNCHANGED takerVars /\ UNCHANGED <<now, net, faults, overdue>>
  BY DEF WatcherMoves, WatcherStep, WatcherSpawn, WatcherCrash
<1>2. crashes' \in Nat
  BY SMT DEF World, EnvDataTypeOK, WatcherMoves, WatcherStep, WatcherSpawn, WatcherCrash,
         WatcherState, WatcherFault, NoWatcherFault, SpawnTakerSwapWatcher,
         WatcherValidateTakerFee, WatcherValidateTakerPayment, WatcherFindsSpend,
         WatcherFindsRefund, WatcherWaitedLongEnough, WatcherWaitsForMakerSpend,
         WatcherSpendMakerPayment, WatcherRefundTakerPayment
<1>3. World' /\ Maker' /\ Taker' /\ ChainStep
  <2>1. \/ ChainUnchanged
        \/ \E p \in Payments : Returned(p) \/ Mined(p)
        \/ Spent("taker_payment") /\ Claimed("maker_payment")
    BY WatcherChainMove DEF Watched, Payments
  <2>. QED  BY <1>1, <1>2, <2>1, OthersInv DEF World, EnvDataTypeOK
<1>4. SecretPublic => SecretPublic'
  <2>1. m_saved \subseteq m_saved' /\ t_saved \subseteq t_saved'
    BY <1>1 DEF makerVars, takerVars
  <2>. QED  BY <1>3, <2>1, ChainStepGrows DEF World, Grows, SecretPublic, Payments
<1>5. UNCHANGED <<t_pc, t_started_at>>
  BY <1>1 DEF takerVars
<1>6. PICK state \in WatcherStates \cup WatcherStopped :
        /\ w_pc' = [w_pc EXCEPT ![w] = state]
        /\ state \in {"WaitForTakerPaymentSpend.maker_spend", "SpendMakerPayment"}
             => SecretPublic
        /\ \/ w_started_at' = w_started_at /\ w_pc[w] \in WatcherStates
           \/ \E start \in told : w_started_at' = [w_started_at EXCEPT ![w] = start]
  BY WatcherControl
<1>7. told' = told /\ w_overdue' \subseteq w_overdue
  BY WatcherControl
<1>8. WatcherTypeOK'
  BY <1>6, <1>7 DEF Watched, WatcherTypeOK
<1>9. WatcherKnows'
  BY <1>4, <1>5, <1>6 DEF Watched, WatcherTypeOK, WatcherKnows, Told
<1>10. Told'
  BY <1>5, <1>6, <1>7 DEF Watched, WatcherTypeOK, Told
<1>. QED  BY <1>3, <1>8, <1>9, <1>10 DEF Watched

-----------------------------------------------------------------------------
(* The steps of the others, as the watchers see them.                      *)

\* The watchers' own state and the start of the swap stand: so does what they know.
LEMMA WatchedFrame ==
  ASSUME Watched, Grows, UNCHANGED <<w_pc, w_started_at>>,
         w_overdue' \subseteq Watchers, told' \subseteq told,
         t_pc # "Start" => t_pc' # "Start" /\ t_started_at' = t_started_at
  PROVE  Watched'
<1>1. WatcherTypeOK'
  BY DEF Watched, WatcherTypeOK
<1>2. WatcherKnows'
  BY DEF Watched, WatcherKnows, Told, Grows, SecretPublic, Payments
<1>3. Told'
  BY DEF Watched, Told
<1>. QED  BY <1>1, <1>2, <1>3 DEF Watched

\* A step that keeps the swap in order and moves the chains lets them grow.
LEMMA StepGrows ==
  ASSUME World, ChainStep, m_saved \subseteq m_saved', t_saved \subseteq t_saved'
  PROVE  Grows
BY ChainStepGrows DEF World

\* A step of the maker.
LEMMA MakerMovesInv ==
  ASSUME World, Maker, Taker, Watched, MakerMoves
  PROVE  World' /\ Maker' /\ Taker' /\ Watched' /\ ChainStep
<1>1. UNCHANGED takerVars /\ UNCHANGED watcherVars
  BY DEF MakerMoves
<1>2. World' /\ Maker' /\ Taker' /\ ChainStep
  <2>1. CASE MakerStep
    BY <1>1, <2>1, MakerStepInv
  <2>2. CASE MakerCrash
    <3>1. MakerCrash /\ UNCHANGED takerVars
      BY <1>1, <2>2
    <3>. QED  BY <3>1, CrashInv
  <2>3. CASE MakerRecoverFunds
    BY <1>1, <2>3, MakerRecoverInv
  <2>. QED  BY <2>1, <2>2, <2>3 DEF MakerMoves
<1>3. m_saved \subseteq m_saved' /\ t_saved \subseteq t_saved'
  BY <1>1, MakerHandlerLog
  DEF MakerMoves, MakerStep, MakerCrash, MakerRecoverFunds, makerVars, takerVars
<1>4. Grows
  BY <1>2, <1>3, StepGrows
<1>5. Watched'
  BY <1>1, <1>4, WatchedFrame DEF takerVars, watcherVars, Watched, WatcherTypeOK
<1>. QED  BY <1>2, <1>5

\* A step of the taker, who may tell the watchers of the swap it started.
LEMMA TakerMovesInv ==
  ASSUME World, Maker, Taker, Watched, TakerMoves
  PROVE  World' /\ Maker' /\ Taker' /\ Watched' /\ ChainStep
<1>1. UNCHANGED makerVars /\ UNCHANGED <<w_pc, w_started_at, w_overdue>>
  BY DEF TakerMoves
<1>2. World' /\ Maker' /\ Taker' /\ ChainStep
  <2>1. CASE TakerStep
    BY <1>1, <2>1, TakerStepInv
  <2>2. CASE TakerCrash
    <3>1. TakerCrash /\ UNCHANGED makerVars
      BY <1>1, <2>2
    <3>. QED  BY <3>1, CrashInv
  <2>3. CASE TakerRecoverFunds
    BY <1>1, <2>3, TakerRecoverInv
  <2>. QED  BY <2>1, <2>2, <2>3 DEF TakerMoves
<1>3. m_saved \subseteq m_saved' /\ t_saved \subseteq t_saved'
  BY <1>1, TakerHandlerLog
  DEF TakerMoves, TakerStep, TakerCrash, TakerRecoverFunds, makerVars, takerVars
<1>4. Grows
  BY <1>2, <1>3, StepGrows
<1>5. t_pc # "Start" => t_pc' # "Start" /\ t_started_at' = t_started_at
  BY TakerStartsOnce DEF TakerMoves
<1>6. CASE told' = told
  BY <1>1, <1>2, <1>4, <1>5, <1>6, WatchedFrame DEF Watched, WatcherTypeOK
<1>7. CASE told' = told \cup {t_started_at} /\ t_pc # "Start"
  <2>1. t_started_at \in Nat
    BY DEF Taker, TakerDataTypeOK
  <2>2. WatcherTypeOK'
    BY <1>1, <1>7, <2>1 DEF Watched, WatcherTypeOK
  <2>3. WatcherKnows'
    BY <1>1, <1>4, <1>5, <1>7 DEF Watched, WatcherKnows, Grows, SecretPublic, Payments
  <2>4. Told'
    BY <1>1, <1>5, <1>7 DEF Watched, Told
  <2>. QED  BY <1>2, <2>2, <2>3, <2>4 DEF Watched
<1>8. told' = told \/ (told' = told \cup {t_started_at} /\ t_pc # "Start")
  BY DEF TakerMoves, TakerTells
<1>. QED  BY <1>2, <1>6, <1>7, <1>8

\* The taker's node goes down during the wait for the spend.
LEMMA TakerLeavesInv ==
  ASSUME World, Maker, Taker, Watched, TakerLeaves
  PROVE  World' /\ Maker' /\ Taker' /\ Watched' /\ ChainStep
<1>1. /\ ChainUnchanged /\ UNCHANGED <<now, net, faults, overdue, crashes>>
      /\ UNCHANGED makerVars /\ UNCHANGED watcherVars
      /\ m_saved \subseteq m_saved' /\ t_saved \subseteq t_saved'
  BY DEF TakerLeaves, ChainUnchanged, envVars, makerVars
<1>2. ChainStep
  BY <1>1 DEF ChainStep
<1>3. Grows /\ ChainTypeOK'
  BY <1>1, <1>2, StepGrows, ChainStepType DEF World
<1>4. World'
  BY <1>1, <1>3, ChainKeepsOrder, NetStays DEF World, EnvDataTypeOK
<1>5. Maker'
  BY <1>1, <1>3, MakerFrame
<1>6. t_pending = <<>> /\ t_pending' = <<>>
  BY DEF TakerLeaves, Taker, TakerSide, TakerControlInv
<1>7. TakerLogInv'
  BY <1>3, <1>6, TakerLogStays DEF TakerLeaves, Taker
<1>8. TakerControlInv' /\ TakerControlTypeOK'
  BY <1>6 DEF TakerLeaves, Taker, TakerSide, TakerControlInv, TakerControlTypeOK,
              TakerCommands, TakerAwaits
<1>9. TakerDataTypeOK'
  <2>1. t_reward' \in BOOLEAN
    BY Zenon DEF TakerLeaves
  <2>. QED  BY <2>1 DEF TakerLeaves, Taker, TakerDataTypeOK
<1>10. Taker'
  <2>1. "Started" \in t_saved
    BY TakerPaths DEF TakerLeaves, Taker
  <2>2. TakerOrderInv'
    BY <1>6, <2>1 DEF TakerLeaves, Taker, TakerOrderInv
  <2>. QED  BY <1>7, <1>8, <1>9, <2>2 DEF Taker, TakerSide
<1>11. Watched'
  BY <1>1, <1>3, WatchedFrame DEF TakerLeaves, watcherVars, Watched, WatcherTypeOK
<1>. QED  BY <1>2, <1>4, <1>5, <1>10, <1>11

\* Blocks, lightning nodes and the clock.
LEMMA RestInv ==
  ASSUME World, Maker, Taker, Watched, ChainMoves \/ WatchedTick
  PROVE  World' /\ Maker' /\ Taker' /\ Watched' /\ ChainStep
<1>1. UNCHANGED makerVars /\ UNCHANGED takerVars /\ UNCHANGED <<w_pc, w_started_at>>
  BY DEF ChainMoves, WatchedTick, watcherVars
<1>2. World' /\ Maker' /\ Taker' /\ ChainStep
  <2>1. CASE ChainMoves
    BY <2>1, ChainInvStep DEF ChainMoves
  <2>2. CASE WatchedTick
    <3>1. /\ ChainUnchanged /\ UNCHANGED <<net, faults, crashes>>
          /\ overdue' \subseteq {"maker", "taker"} \cup Payments
          /\ now' = now + 1
      BY <2>2 DEF WatchedTick, ChainUnchanged, Outstanding
    <3>. QED  BY SMT, <1>1, <3>1, OthersInv DEF World, EnvDataTypeOK
  <2>. QED  BY <2>1, <2>2
<1>3. Grows
  BY <1>1, <1>2, StepGrows DEF makerVars, takerVars
<1>4. w_overdue' \subseteq Watchers /\ told' \subseteq told
  BY DEF ChainMoves, WatchedTick, watcherVars, Watched, WatcherTypeOK
<1>5. Watched'
  BY <1>1, <1>3, <1>4, WatchedFrame DEF takerVars
<1>. QED  BY <1>2, <1>5

\* A step that changes nothing.
LEMMA WatchedStutterInv ==
  ASSUME World, Maker, Taker, Watched, UNCHANGED watchedVars
  PROVE  World' /\ Maker' /\ Taker' /\ Watched' /\ ChainStep
<1>1. UNCHANGED vars /\ UNCHANGED watcherVars
  BY DEF watchedVars
<1>2. World' /\ Maker' /\ Taker' /\ ChainStep
  BY <1>1, StutterInv
<1>3. UNCHANGED makerVars /\ UNCHANGED takerVars
  BY <1>1 DEF vars
<1>4. Grows
  BY <1>2, <1>3, StepGrows DEF makerVars, takerVars
<1>5. Watched'
  BY <1>1, <1>3, <1>4, WatchedFrame DEF takerVars, watcherVars, Watched, WatcherTypeOK
<1>. QED  BY <1>2, <1>5

-----------------------------------------------------------------------------
(* The theorems.                                                           *)

\* Nobody is told anything at first.
LEMMA WatchedInitInv == WatchedInit => WatchedInv
<1>1. SUFFICES ASSUME WatchedInit PROVE IndInv /\ Watched
  BY Zenon DEF WatchedInv, Watched, Told
<1>2. IndInv
  BY <1>1, InitInv DEF WatchedInit
<1>3. Watched
  BY <1>1 DEF WatchedInit, WatcherInit, Watched, WatcherTypeOK, WatcherKnows, Told,
              WatcherStates, WatcherStopped
<1>. QED  BY <1>2, <1>3

\* Every step keeps the invariant and moves the chains as ChainStep says.
LEMMA WatchedNextInv ==
  ASSUME WatchedInv, [WatchedNext]_watchedVars
  PROVE  WatchedInv' /\ ChainStep
<1>1. World /\ Maker /\ Taker /\ Watched
  BY WatchedInvParts
<1>2. World' /\ Maker' /\ Taker' /\ Watched' /\ ChainStep
  <2>1. CASE MakerMoves
    BY <1>1, <2>1, MakerMovesInv
  <2>2. CASE TakerMoves
    BY <1>1, <2>2, TakerMovesInv
  <2>3. CASE TakerLeaves
    BY <1>1, <2>3, TakerLeavesInv
  <2>4. ASSUME NEW w \in Watchers, WatcherMoves(w)
        PROVE  World' /\ Maker' /\ Taker' /\ Watched' /\ ChainStep
    BY <1>1, <2>4, WatcherInvStep
  <2>5. CASE ChainMoves \/ WatchedTick
    BY <1>1, <2>5, RestInv
  <2>6. CASE UNCHANGED watchedVars
    BY <1>1, <2>6, WatchedStutterInv
  <2>. QED  BY <2>1, <2>2, <2>3, <2>4, <2>5, <2>6 DEF WatchedNext
<1>. QED  BY <1>2, WatchedInvPartsNext

\* With any number of watchers, and with the taker away for any time, the databases,
\* the program counters, the topic, the chains and the watchers agree with each other.
THEOREM WatchedInvariance == WatchedSpec => []WatchedInv
<1>1. WatchedInv /\ [WatchedNext]_watchedVars => WatchedInv'
  BY WatchedNextInv
<1>. QED  BY <1>1, WatchedInitInv, PTL DEF WatchedSpec

\* A watcher that is about to spend the maker payment has its secret from the chain,
\* and counts its deadlines from the start the taker counts from.
THEOREM WatchersKnow == WatchedSpec => []WatcherKnows
<1>1. WatchedInv => WatcherKnows
  BY DEF WatchedInv
<1>. QED  BY <1>1, WatchedInvariance, PTL

\* No watcher takes a step that SwapPromise does not allow: none spends the maker
\* payment before the taker payment is spent, and none moves a payment that has left
\* its lock.
THEOREM WatchedPromiseSteps == WatchedSpec => PromiseSteps
<1>1. WatchedInv /\ [WatchedNext]_watchedVars
        => [Promise!Next]_<<PromiseState("maker_payment"), PromiseState("taker_payment")>>
  <2>1. SUFFICES ASSUME WatchedInv, [WatchedNext]_watchedVars
                 PROVE  [Promise!Next]_<<PromiseState("maker_payment"),
                                         PromiseState("taker_payment")>>
    OBVIOUS
  <2>2. WatchedInv' /\ ChainStep
    BY <2>1, WatchedNextInv
  <2>3. ChainTypeOK
    BY <2>1, WatchedInvParts DEF World
  <2>4. ChainInv'
    BY <2>2, WatchedInvPartsNext DEF World
  <2>. QED  BY <2>2, <2>3, <2>4, PromiseStep
<1>. QED  BY <1>1, WatchedInvariance, PTL DEF WatchedSpec, PromiseSteps

\* The swap with its watchers implements SwapPromise.
THEOREM WatchedRefinement == WatchedSpec => KeepsPromise
<1>1. WatchedInit => Promise!Init
  BY DEF WatchedInit, Init, EnvInit, PromiseState, Promise!Init, Payments
<1>. QED  BY <1>1, WatchedPromiseSteps, PTL
          DEF WatchedSpec, PromiseSteps, KeepsPromise, Promise!Spec

-----------------------------------------------------------------------------
(* The two records together.                                               *)

\* The maker's step ends with the events of B to be saved; those that the records are
\* compared by come from the handlers that return them.
MakerPushes(B) ==
  /\ UNCHANGED <<m_saved, m_last>> /\ MakerBatch = {} /\ MakerBatch' = B
  /\ ~({"MakerPaymentSent", "MakerPaymentTransactionFailed"} \subseteq B)
  /\ "TakerFeeValidated" \in B => m_pc = "WaitForTakerFee.recv" /\ Received("TakerFee") # {}
  /\ "MakerPaymentSent" \in B => m_pc = "SendPayment.send"
  /\ "MakerPaymentTransactionFailed" \in B =>
       m_pc \in {"SendPayment", "SendPayment.send", "ValidateTakerPayment"}
  /\ "TakerPaymentWaitConfirmFailed" \in B => m_pc = "ValidateTakerPayment"
  /\ "TakerPaymentSpendFailed" \in B => m_pc \in {"SpendTakerPayment", "SpendTakerPayment.send"}

TakerPushes(B) ==
  /\ UNCHANGED <<t_saved, t_last>> /\ TakerBatch = {} /\ TakerBatch' = B
  /\ ~({"TakerFeeSent", "TakerFeeSendFailed"} \subseteq B)
  /\ "Started" \in B => t_pc = "Start"
  /\ "Negotiated" \in B => t_pc = "Negotiate.negotiated"
  /\ "TakerFeeSent" \in B => t_pc = "SendTakerFee.send"
  /\ "TakerFeeSendFailed" \in B => t_pc \in {"SendTakerFee", "SendTakerFee.send"}
  /\ "MakerPaymentReceived" \in B =>
       t_pc = "WaitForMakerPayment.recv" /\ Received("MakerPayment") # {}
  /\ "MakerPaymentWaitConfirmFailed" \in B => "MakerPaymentReceived" \in t_saved
  /\ "TakerPaymentTransactionFailed" \in B => "MakerPaymentReceived" \in t_saved

\* The batch a handler of the maker returns.
LEMMA MakerBatches ==
  /\ m_pending' = m_pending => MakerBatch' = MakerBatch
  /\ m_pending = <<>> => MakerBatch = {}
  /\ \A command, a : MakerReturn(command, <<a>>) => MakerBatch' = {a}
  /\ \A command, a, b : MakerReturn(command, <<a, b>>) => MakerBatch' = {a, b}
  /\ \A command, events : MakerReturn(command, events) => UNCHANGED <<m_saved, m_last>>
<1>1. \A a : {<<a>>[n] : n \in 1..Len(<<a>>)} = {a}
  BY SMT
<1>2. \A a, b : {<<a, b>>[n] : n \in 1..Len(<<a, b>>)} = {a, b}
  BY SMT
<1>3. {<<>>[n] : n \in 1..Len(<<>>)} = {}
  BY SMT
<1>. QED  BY SMT, <1>1, <1>2, <1>3 DEF MakerReturn, MakerBatch

\* The batch a handler of the taker returns.
LEMMA TakerBatches ==
  /\ t_pending' = t_pending => TakerBatch' = TakerBatch
  /\ t_pending = <<>> => TakerBatch = {}
  /\ \A command, a : TakerReturn(command, <<a>>) => TakerBatch' = {a}
  /\ \A command, a, b : TakerReturn(command, <<a, b>>) => TakerBatch' = {a, b}
  /\ \A command, a, b, c : TakerReturn(command, <<a, b, c>>) => TakerBatch' = {a, b, c}
  /\ \A command, events : TakerReturn(command, events) => UNCHANGED <<t_saved, t_last>>
<1>1. \A a : {<<a>>[n] : n \in 1..Len(<<a>>)} = {a}
  BY SMT
<1>2. \A a, b : {<<a, b>>[n] : n \in 1..Len(<<a, b>>)} = {a, b}
  BY SMT
<1>3. \A a, b, c : {<<a, b, c>>[n] : n \in 1..Len(<<a, b, c>>)} = {a, b, c}
  BY SMT
<1>4. {<<>>[n] : n \in 1..Len(<<>>)} = {}
  BY SMT
<1>. QED  BY SMTT(90), <1>1, <1>2, <1>3, <1>4 DEF TakerReturn, TakerBatch

\* What the maker's handlers return.
LEMMA MakerHandlerPushes ==
  ASSUME MakerSide, MakerHandler
  PROVE  MakerSaveEvent \/ \E B : MakerPushes(B)
<1>. SUFFICES ASSUME ~MakerSaveEvent PROVE MakerPushes(MakerBatch')
  OBVIOUS
<1>. USE MakerBatches DEF MakerPushes
<1>1. CASE \/ MakerNegotiate \/ MakerWaitTakerFee \/ MakerKickStart
  <2>1. UNCHANGED <<m_saved, m_last, m_pending>> /\ MakerBatch = {}
    BY <1>1 DEF MakerNegotiate, MakerWaitTakerFee, MakerKickStart, MakerAwait, MakerSide,
                MakerControlInv
  <2>. QED  BY <2>1
<1>2. CASE \/ MakerStart \/ MakerNegotiateRecv \/ MakerNegotiateTimeout
           \/ MakerWaitTakerFeeTimeout \/ MakerFinalizeRefund \/ MakerFinish
           \/ MakerPrepareForRefund \/ MakerWaitAutoRefund \/ MakerRefundPayment
  <2>1. /\ MakerBatch = {}
        /\ \E command : \E a \in MakerEvents \ {"TakerFeeValidated", "MakerPaymentSent",
               "MakerPaymentTransactionFailed", "TakerPaymentWaitConfirmFailed",
               "TakerPaymentSpendFailed"} : MakerReturn(command, <<a>>)
    BY <1>2
    DEF MakerStart, MakerNegotiateRecv, MakerNegotiateTimeout, MakerNegotiateFailed,
        MakerWaitTakerFeeTimeout, MakerFinalizeRefund, MakerFinish, MakerPrepareForRefund,
        MakerWaitAutoRefund, MakerRefundPayment, MakerSide, MakerControlInv, MakerEvents
  <2>. QED  BY SMT, <2>1
<1>3. CASE MakerWaitTakerFeeRecv
  <2>1. /\ MakerBatch = {} /\ m_pc = "WaitForTakerFee.recv" /\ Received("TakerFee") # {}
        /\ \/ MakerReturn("Finish", <<"TakerFeeValidateFailed">>)
           \/ MakerReturn("SendPayment",
                          <<"MakerPaymentInstructionsReceived", "TakerFeeValidated">>)
    BY <1>3 DEF MakerWaitTakerFeeRecv, MakerSide, MakerControlInv
  <2>2. MakerBatch' \in {{"TakerFeeValidateFailed"},
                         {"MakerPaymentInstructionsReceived", "TakerFeeValidated"}}
    BY <2>1
  <2>. QED  BY <2>1, <2>2
<1>4. CASE MakerSendPayment \/ MakerSendPaymentSend
  <2>1. /\ MakerBatch = {} /\ UNCHANGED <<m_saved, m_last>>
        /\ m_pc \in {"SendPayment", "SendPayment.send"}
        /\ \/ MakerBatch' \in {{}, {"MakerPaymentTransactionFailed"}}
           \/ m_pc = "SendPayment.send" /\ MakerBatch' = {"MakerPaymentSent"}
    BY <1>4 DEF MakerSendPayment, MakerSendPaymentSend, MakerAwait, MakerSide, MakerControlInv
  <2>. QED  BY <2>1
<1>5. CASE MakerWaitForTakerPayment \/ MakerPaymentWaitConfirm
           \/ MakerTakerPaymentRecv \/ MakerTakerPaymentRecvTimeout
           \/ MakerConfirmTakerPaymentSpend
  <2>1. /\ MakerBatch = {} /\ UNCHANGED <<m_saved, m_last>>
        /\ MakerBatch' \in {{}, {"MakerPaymentDataSendFailed", "MakerPaymentWaitRefundStarted"},
             {"MakerPaymentWaitConfirmFailed", "MakerPaymentWaitRefundStarted"},
             {"TakerPaymentValidateFailed", "MakerPaymentWaitRefundStarted"},
             {"TakerPaymentReceived", "TakerPaymentWaitConfirmStarted"},
             {"TakerPaymentSpendConfirmed"},
             {"TakerPaymentSpendConfirmFailed", "MakerPaymentWaitRefundStarted"}}
    BY <1>5
    DEF MakerWaitForTakerPayment, MakerPaymentWaitConfirm, MakerTakerPaymentRecv,
        MakerTakerPaymentRecvTimeout, MakerConfirmTakerPaymentSpend, MakerReturnRefund,
        MakerAwait, MakerSide, MakerControlInv
  <2>. QED  BY <2>1
<1>6. CASE MakerValidateTakerPayment
  <2>1. /\ MakerBatch = {} /\ UNCHANGED <<m_saved, m_last>> /\ m_pc = "ValidateTakerPayment"
        /\ MakerBatch' \in {{"TakerPaymentWaitConfirmFailed", "MakerPaymentWaitRefundStarted"},
             {"MakerPaymentTransactionFailed"},
             {"TakerPaymentValidateFailed", "MakerPaymentWaitRefundStarted"},
             {"TakerPaymentValidatedAndConfirmed"}}
    BY <1>6 DEF MakerValidateTakerPayment, MakerReturnRefund, MakerSide, MakerControlInv
  <2>. QED  BY <2>1
<1>7. CASE MakerSpendTakerPayment \/ MakerSpendTakerPaymentSend
  <2>1. /\ MakerBatch = {} /\ UNCHANGED <<m_saved, m_last>>
        /\ m_pc \in {"SpendTakerPayment", "SpendTakerPayment.send"}
        /\ MakerBatch' \in {{}, {"TakerPaymentSpendFailed", "MakerPaymentWaitRefundStarted"},
             {"TakerPaymentSpent", "TakerPaymentSpendConfirmStarted"}}
    BY <1>7 DEF MakerSpendTakerPayment, MakerSpendTakerPaymentSend, MakerReturnRefund,
                MakerAwait, MakerSide, MakerControlInv
  <2>. QED  BY <2>1
<1>. QED  BY <1>1, <1>2, <1>3, <1>4, <1>5, <1>6, <1>7 DEF MakerHandler

\* What the taker's handlers return.
LEMMA TakerHandlerPushes ==
  ASSUME TakerSide, TakerHandler
  PROVE  TakerSaveEvent \/ \E B : TakerPushes(B)
<1>. SUFFICES ASSUME ~TakerSaveEvent PROVE TakerPushes(TakerBatch')
  OBVIOUS
<1>. USE TakerBatches DEF TakerPushes
<1>1. CASE \/ TakerNegotiate \/ TakerKickStart \/ TakerValidatePanics
           \/ TakerWaitForPaymentSpend
  <2>1. UNCHANGED <<t_saved, t_last, t_pending>> /\ TakerBatch = {}
    BY <1>1 DEF TakerNegotiate, TakerKickStart, TakerValidatePanics,
                TakerWaitForPaymentSpend, TakerAwait, TakerSide, TakerControlInv
  <2>. QED  BY <2>1
<1>2. CASE TakerStart \/ TakerNegotiated
  <2>1. /\ TakerBatch = {} /\ UNCHANGED <<t_saved, t_last>>
        /\ \/ TakerBatch' \in {{"StartFailed"}, {"NegotiateFailed"}}
           \/ t_pc = "Start" /\ TakerBatch' = {"Started"}
           \/ t_pc = "Negotiate.negotiated" /\ TakerBatch' = {"Negotiated"}
    BY <1>2 DEF TakerStart, TakerNegotiated, TakerSide, TakerControlInv
  <2>. QED  BY <2>1
<1>3. CASE \/ TakerNegotiateRecv \/ TakerNegotiateTimeout \/ TakerWaitForMakerPayment
           \/ TakerMakerPaymentRecvTimeout
  <2>1. /\ TakerBatch = {} /\ UNCHANGED <<t_saved, t_last>>
        /\ TakerBatch' \in {{}, {"NegotiateFailed"}, {"MakerPaymentValidateFailed"}}
    BY <1>3 DEF TakerNegotiateRecv, TakerNegotiateTimeout, TakerWaitForMakerPayment,
                TakerMakerPaymentRecvTimeout, TakerAwait, TakerSide, TakerControlInv
  <2>. QED  BY <2>1
<1>4. CASE TakerSendFee \/ TakerSendFeeSend
  <2>1. /\ TakerBatch = {} /\ UNCHANGED <<t_saved, t_last>>
        /\ t_pc \in {"SendTakerFee", "SendTakerFee.send"}
        /\ \/ TakerBatch' \in {{}, {"TakerFeeSendFailed"}}
           \/ t_pc = "SendTakerFee.send" /\ TakerBatch' = {"TakerFeeSent"}
    BY <1>4 DEF TakerSendFee, TakerSendFeeSend, TakerAwait, TakerSide, TakerControlInv
  <2>. QED  BY <2>1
<1>5. CASE TakerMakerPaymentRecv
  <2>1. /\ TakerBatch = {} /\ t_pc = "WaitForMakerPayment.recv" /\ Received("MakerPayment") # {}
        /\ \/ TakerReturn("Finish", <<"MakerPaymentValidateFailed">>)
           \/ TakerReturn("ValidateMakerPayment",
                          <<"TakerPaymentInstructionsReceived", "MakerPaymentReceived",
                            "MakerPaymentWaitConfirmStarted">>)
    BY <1>5 DEF TakerMakerPaymentRecv, TakerSide, TakerControlInv
  <2>2. TakerBatch' \in {{"MakerPaymentValidateFailed"},
                         {"TakerPaymentInstructionsReceived", "MakerPaymentReceived",
                          "MakerPaymentWaitConfirmStarted"}}
    BY <2>1
  <2>. QED  BY <2>1, <2>2
<1>6. CASE TakerValidateMakerPayment \/ TakerSendPayment \/ TakerSendPaymentSend
  <2>1. "MakerPaymentReceived" \in t_saved
    BY <1>6, TakerPaths DEF TakerValidateMakerPayment, TakerSendPayment, TakerSendPaymentSend
  <2>2. /\ TakerBatch = {} /\ UNCHANGED <<t_saved, t_last>>
        /\ TakerBatch' \in {{}, {"MakerPaymentWaitConfirmFailed"},
             {"TakerPaymentTransactionFailed"}, {"MakerPaymentValidateFailed"},
             {"MakerPaymentValidatedAndConfirmed"}, {"TakerPaymentSent"},
             {"TakerPaymentSent", "WatcherMessageSent"}}
    BY SMT, <1>6 DEF TakerValidateMakerPayment, TakerSendPayment, TakerSendPaymentSend,
                TakerPaymentSentEvents, TakerAwait, TakerSide, TakerControlInv
  <2>. QED  BY <2>1, <2>2
<1>7. CASE \/ TakerPaymentWaitConfirm \/ TakerPaymentSpendSeen \/ TakerPaymentSpendTimeout
           \/ TakerSpendMakerPayment
  <2>1. /\ TakerBatch = {} /\ UNCHANGED <<t_saved, t_last>>
        /\ TakerBatch' \in {{}, {"TakerPaymentWaitConfirmFailed", "TakerPaymentWaitRefundStarted"},
             {"TakerPaymentSpent"}, {"TakerPaymentWaitForSpendFailed"},
             {"TakerPaymentWaitForSpendFailed", "TakerPaymentWaitRefundStarted"},
             {"MakerPaymentSpent"}, {"MakerPaymentSpendFailed"}}
    BY <1>7 DEF TakerPaymentWaitConfirm, TakerPaymentSpendSeen, TakerPaymentSpendTimeout,
                TakerSpendMakerPayment, TakerReturnRefund, TakerAwait, TakerSide,
                TakerControlInv
  <2>. QED  BY <2>1
<1>8. CASE \/ TakerPrepareForRefund \/ TakerWaitAutoRefund \/ TakerRefundPayment
           \/ TakerFinalizeRefund \/ TakerFinish
  <2>1. /\ TakerBatch = {} /\ UNCHANGED <<t_saved, t_last>>
        /\ TakerBatch' \in {{"TakerPaymentRefundStarted"}, {"TakerPaymentRefunded"},
             {"TakerPaymentRefundFailed"}, {"TakerPaymentRefundFinished"}, {"Finished"}}
    BY <1>8 DEF TakerPrepareForRefund, TakerWaitAutoRefund, TakerRefundPayment,
                TakerFinalizeRefund, TakerFinish, TakerSide, TakerControlInv
  <2>. QED  BY <2>1
<1>. QED  BY <1>1, <1>2, <1>3, <1>4, <1>5, <1>6, <1>7, <1>8 DEF TakerHandler

\* The maker announces its payment in wait_for_taker_payment and nothing of the taker's.
LEMMA MakerHandlerSays ==
  ASSUME MakerHandler
  PROVE  \A msg \in net' : \/ msg \in net
                           \/ /\ msg.kind # "TakerFee"
                              /\ msg.kind = "MakerPayment" => m_pc = "WaitForTakerPayment"
<1>1. \/ UNCHANGED net
      \/ \E msg : /\ Broadcast(msg) /\ msg.kind # "TakerFee"
                  /\ msg.kind = "MakerPayment" => m_pc = "WaitForTakerPayment"
  <2>1. CASE \/ MakerStart \/ MakerNegotiate \/ MakerNegotiateRecv \/ MakerNegotiateTimeout
             \/ MakerWaitTakerFee \/ MakerWaitTakerFeeRecv \/ MakerWaitTakerFeeTimeout
             \/ MakerSendPayment \/ MakerSendPaymentSend \/ MakerWaitForTakerPayment
    BY SMT, <2>1
    DEF MakerStart, MakerNegotiate, MakerNegotiateRecv, MakerNegotiateTimeout,
        MakerNegotiateFailed, MakerWaitTakerFee, MakerWaitTakerFeeRecv,
        MakerWaitTakerFeeTimeout, MakerSendPayment, MakerSendPaymentSend,
        MakerWaitForTakerPayment
  <2>2. CASE \/ MakerPaymentWaitConfirm \/ MakerTakerPaymentRecv
             \/ MakerTakerPaymentRecvTimeout \/ MakerValidateTakerPayment
             \/ MakerSpendTakerPayment \/ MakerSpendTakerPaymentSend
             \/ MakerConfirmTakerPaymentSpend \/ MakerPrepareForRefund
             \/ MakerWaitAutoRefund \/ MakerRefundPayment \/ MakerFinalizeRefund
             \/ MakerFinish \/ MakerSaveEvent \/ MakerKickStart
    BY <2>2
    DEF MakerPaymentWaitConfirm, MakerTakerPaymentRecv, MakerTakerPaymentRecvTimeout,
        MakerValidateTakerPayment, MakerSpendTakerPayment, MakerSpendTakerPaymentSend,
        MakerConfirmTakerPaymentSpend, MakerPrepareForRefund, MakerWaitAutoRefund,
        MakerRefundPayment, MakerFinalizeRefund, MakerFinish, MakerSaveEvent, MakerKickStart
  <2>. QED  BY <2>1, <2>2 DEF MakerHandler
<1>. QED  BY <1>1 DEF Broadcast

\* The taker announces its fee in wait_for_maker_payment and nothing of the maker's.
LEMMA TakerHandlerSays ==
  ASSUME TakerHandler
  PROVE  \A msg \in net' : \/ msg \in net
                           \/ /\ msg.kind # "MakerPayment"
                              /\ msg.kind = "TakerFee" => t_pc = "WaitForMakerPayment"
<1>1. \/ UNCHANGED net
      \/ \E msg : /\ Broadcast(msg) /\ msg.kind # "MakerPayment"
                  /\ msg.kind = "TakerFee" => t_pc = "WaitForMakerPayment"
  <2>1. CASE TakerNegotiateRecv \/ TakerWaitForMakerPayment \/ TakerWaitForPaymentSpend
    BY SMT, <2>1 DEF TakerNegotiateRecv, TakerWaitForMakerPayment, TakerWaitForPaymentSpend
  <2>2. CASE \/ TakerStart \/ TakerNegotiate \/ TakerNegotiated \/ TakerNegotiateTimeout
             \/ TakerSendFee \/ TakerSendFeeSend \/ TakerMakerPaymentRecv
             \/ TakerMakerPaymentRecvTimeout \/ TakerValidateMakerPayment
             \/ TakerValidatePanics \/ TakerSendPayment \/ TakerSendPaymentSend
             \/ TakerPaymentWaitConfirm
    BY <2>2
    DEF TakerStart, TakerNegotiate, TakerNegotiated, TakerNegotiateTimeout, TakerSendFee,
        TakerSendFeeSend, TakerMakerPaymentRecv, TakerMakerPaymentRecvTimeout,
        TakerValidateMakerPayment, TakerValidatePanics, TakerSendPayment,
        TakerSendPaymentSend, TakerPaymentWaitConfirm
  <2>3. CASE \/ TakerPaymentSpendSeen \/ TakerPaymentSpendTimeout \/ TakerSpendMakerPayment
             \/ TakerPrepareForRefund \/ TakerWaitAutoRefund \/ TakerRefundPayment
             \/ TakerFinalizeRefund \/ TakerFinish \/ TakerSaveEvent \/ TakerKickStart
    BY <2>3
    DEF TakerPaymentSpendSeen, TakerPaymentSpendTimeout, TakerSpendMakerPayment,
        TakerPrepareForRefund, TakerWaitAutoRefund, TakerRefundPayment,
        TakerFinalizeRefund, TakerFinish, TakerSaveEvent, TakerKickStart
  <2>. QED  BY <2>1, <2>2, <2>3 DEF TakerHandler
<1>. QED  BY <1>1 DEF Broadcast

\* Saving an event moves it from the batch into the record.
LEMMA MakerSaveRecord ==
  ASSUME MakerSide, MakerSaveEvent
  PROVE  /\ MakerRecord' = MakerRecord /\ MakerBatch' \subseteq MakerBatch
         /\ m_saved \subseteq m_saved' /\ m_saved' \subseteq MakerRecord
         /\ m_last' \in MakerBatch
<1>1. m_pending \in Seq(MakerEvents) /\ m_pending # <<>>
  BY DEF MakerSaveEvent, MakerSide, MakerControlTypeOK, MakerControlInv
<1>2. /\ m_saved' = m_saved \cup {Head(m_pending)} /\ m_last' = Head(m_pending)
      /\ m_pending' = Tail(m_pending)
  BY DEF MakerSaveEvent, MakerSaved
<1>3. /\ Head(m_pending) = m_pending[1] /\ 1 \in 1..Len(m_pending)
      /\ \A n \in 1..Len(Tail(m_pending)) :
           n + 1 \in 1..Len(m_pending) /\ Tail(m_pending)[n] = m_pending[n + 1]
  BY SMT, <1>1
<1>4. ASSUME NEW n \in 1..Len(m_pending), n # 1
      PROVE  n - 1 \in 1..Len(Tail(m_pending)) /\ Tail(m_pending)[n - 1] = m_pending[n]
  BY SMT, <1>1, <1>4
<1>5. Head(m_pending) \in MakerBatch /\ MakerBatch' \subseteq MakerBatch
  BY SMT, <1>2, <1>3 DEF MakerBatch
<1>6. ASSUME NEW n \in 1..Len(m_pending)
      PROVE  m_pending[n] \in MakerBatch' \cup {Head(m_pending)}
  BY <1>2, <1>3, <1>4 DEF MakerBatch
<1>7. MakerBatch \subseteq MakerBatch' \cup {Head(m_pending)}
  BY <1>6 DEF MakerBatch
<1>. QED  BY <1>2, <1>5, <1>7 DEF MakerRecord

\* The same for the taker.
LEMMA TakerSaveRecord ==
  ASSUME TakerSide, TakerSaveEvent
  PROVE  /\ TakerRecord' = TakerRecord /\ TakerBatch' \subseteq TakerBatch
         /\ t_saved \subseteq t_saved' /\ t_saved' \subseteq TakerRecord
         /\ t_last' \in TakerBatch
<1>1. t_pending \in Seq(TakerEvents) /\ t_pending # <<>>
  BY DEF TakerSaveEvent, TakerSide, TakerControlTypeOK, TakerControlInv
<1>2. /\ t_saved' = t_saved \cup {Head(t_pending)} /\ t_last' = Head(t_pending)
      /\ t_pending' = Tail(t_pending)
  BY DEF TakerSaveEvent
<1>3. /\ Head(t_pending) = t_pending[1] /\ 1 \in 1..Len(t_pending)
      /\ \A n \in 1..Len(Tail(t_pending)) :
           n + 1 \in 1..Len(t_pending) /\ Tail(t_pending)[n] = t_pending[n + 1]
  BY SMT, <1>1
<1>4. ASSUME NEW n \in 1..Len(t_pending), n # 1
      PROVE  n - 1 \in 1..Len(Tail(t_pending)) /\ Tail(t_pending)[n - 1] = t_pending[n]
  BY SMT, <1>1, <1>4
<1>5. Head(t_pending) \in TakerBatch /\ TakerBatch' \subseteq TakerBatch
  BY SMT, <1>2, <1>3 DEF TakerBatch
<1>6. ASSUME NEW n \in 1..Len(t_pending)
      PROVE  t_pending[n] \in TakerBatch' \cup {Head(t_pending)}
  BY <1>2, <1>3, <1>4 DEF TakerBatch
<1>7. TakerBatch \subseteq TakerBatch' \cup {Head(t_pending)}
  BY <1>6 DEF TakerBatch
<1>. QED  BY <1>2, <1>5, <1>7 DEF TakerRecord

\* The maker's record after a step of the maker.
LEMMA MakerRecordStep ==
  ASSUME Maker, MakerRecordInv, MakerHandler
  PROVE  MakerRecordInv'
<1>. USE DEF MakerRecordInv
<1>1. CASE MakerSaveEvent
  BY <1>1, MakerSaveRecord DEF Maker
<1>2. ASSUME NEW B, MakerPushes(B) PROVE MakerRecordInv'
  <2>1. /\ UNCHANGED <<m_saved, m_last>> /\ MakerBatch' = B
        /\ MakerRecord = m_saved /\ MakerRecord' = m_saved \cup B
    BY <1>2 DEF MakerPushes, MakerRecord
  <2>2. m_pc \in {"SendPayment", "SendPayment.send"} => m_last = "TakerFeeValidated"
    BY DEF Maker, MakerSide, MakerControlInv, MakerCommands, MakerAwaits, MakerCommandAt,
           MakerGetCommand, MakerRefundEvents, MakerFinishEvents
  <2>3. m_pc = "WaitForTakerFee.recv" =>
          m_saved \cap {"MakerPaymentSent", "MakerPaymentTransactionFailed"} = {}
    BY MakerPcOrder DEF Maker, MakerEarlyPcs, MakerAwaits, MakerEarly
  <2>4. m_pc \in {"ValidateTakerPayment", "SpendTakerPayment", "SpendTakerPayment.send"} =>
          "TakerPaymentReceived" \in m_saved
    BY MakerPaths DEF Maker
  <2>5. "TakerFeeValidated" \in B =>
          MakerRecord' \cap {"MakerPaymentSent", "MakerPaymentTransactionFailed"} = {}
    BY <1>2, <2>1, <2>3 DEF MakerPushes
  <2>6. {"MakerPaymentSent", "MakerPaymentTransactionFailed"} \subseteq MakerRecord' =>
          "TakerPaymentReceived" \in m_saved
    BY <1>2, <2>1, <2>2, <2>4 DEF MakerPushes
  <2>7. MakerRecord' \cap {"TakerPaymentWaitConfirmFailed", "TakerPaymentSpendFailed"} # {} =>
          "TakerPaymentReceived" \in m_saved
    BY <1>2, <2>1, <2>4 DEF MakerPushes
  <2>. QED  BY <2>1, <2>5, <2>6, <2>7
<1>. QED  BY <1>1, <1>2, MakerHandlerPushes DEF Maker

\* The taker's record after a step of the taker.
LEMMA TakerRecordStep ==
  ASSUME Taker, TakerRecordInv, TakerHandler
  PROVE  TakerRecordInv'
<1>. USE DEF TakerRecordInv
<1>1. CASE TakerSaveEvent
  BY <1>1, TakerSaveRecord DEF Taker
<1>2. ASSUME NEW B, TakerPushes(B) PROVE TakerRecordInv'
  <2>1. /\ UNCHANGED <<t_saved, t_last>> /\ TakerBatch' = B
        /\ TakerRecord = t_saved /\ TakerRecord' = t_saved \cup B
    BY <1>2 DEF TakerPushes, TakerRecord
  <2>2. /\ t_pc = "Negotiate.negotiated" => t_last = "Started"
        /\ t_pc \in {"SendTakerFee", "SendTakerFee.send"} => t_last = "Negotiated"
    BY DEF Taker, TakerSide, TakerControlInv, TakerCommands, TakerAwaits, TakerCommandAt,
           TakerGoesOn, TakerGetCommand, TakerRefundEvents, TakerFinishEvents
  <2>3. t_pc = "Start" => t_saved = {}
    BY DEF Taker, TakerOrderInv, LogOrdered
  <2>4. t_pc = "SendTakerFee.send" => "TakerFeeSendFailed" \notin t_saved
    BY TakerPcOrder DEF Taker, TakerEarlyPcs, TakerAwaits, TakerEarly
  <2>5. B \cap {"Started", "Negotiated"} # {} => "TakerFeeSent" \notin TakerRecord'
    BY <1>2, <2>1, <2>2, <2>3 DEF TakerPushes
  <2>6. ~({"TakerFeeSent", "TakerFeeSendFailed"} \subseteq TakerRecord')
    BY <1>2, <2>1, <2>2, <2>4 DEF TakerPushes
  <2>7. TakerRecord' \cap {"MakerPaymentWaitConfirmFailed", "TakerPaymentTransactionFailed"} # {}
          => "MakerPaymentReceived" \in t_saved
    BY <1>2, <2>1 DEF TakerPushes
  <2>. QED  BY <2>1, <2>5, <2>6, <2>7
<1>. QED  BY <1>1, <1>2, TakerHandlerPushes DEF Taker

\* What the maker announces and hears.
LEMMA MakerAnnounces ==
  ASSUME Maker, AnnouncedInv, MakerHandler, UNCHANGED takerVars
  PROVE  AnnouncedInv'
<1>1. UNCHANGED t_saved /\ TakerRecord' = TakerRecord /\ m_saved \subseteq m_saved'
  BY MakerHandlerLog DEF takerVars, TakerRecord, TakerBatch
<1>2. m_pc = "WaitForTakerPayment" => "MakerPaymentSent" \in m_saved
  BY MakerPaths DEF Maker
<1>3. \A msg \in net' : /\ msg.kind = "TakerFee" => "TakerFeeSent" \in t_saved
                        /\ msg.kind = "MakerPayment" => "MakerPaymentSent" \in m_saved
  BY <1>2, MakerHandlerSays DEF AnnouncedInv
<1>4. "TakerFeeValidated" \in MakerRecord' =>
        "TakerFeeValidated" \in MakerRecord \/ Received("TakerFee") # {}
  BY MakerHandlerPushes, MakerSaveRecord DEF Maker, MakerPushes, MakerRecord
<1>5. Received("TakerFee") # {} => "TakerFeeSent" \in t_saved
  BY DEF Received, AnnouncedInv
<1>. QED  BY <1>1, <1>3, <1>4, <1>5 DEF AnnouncedInv

\* What the taker announces and hears.
LEMMA TakerAnnounces ==
  ASSUME Taker, AnnouncedInv, TakerHandler, UNCHANGED makerVars
  PROVE  AnnouncedInv'
<1>1. UNCHANGED m_saved /\ MakerRecord' = MakerRecord /\ t_saved \subseteq t_saved'
  BY TakerHandlerLog DEF makerVars, MakerRecord, MakerBatch
<1>2. t_pc = "WaitForMakerPayment" => "TakerFeeSent" \in t_saved
  BY TakerPaths DEF Taker
<1>3. \A msg \in net' : /\ msg.kind = "TakerFee" => "TakerFeeSent" \in t_saved
                        /\ msg.kind = "MakerPayment" => "MakerPaymentSent" \in m_saved
  BY <1>2, TakerHandlerSays DEF AnnouncedInv
<1>4. "MakerPaymentReceived" \in TakerRecord' =>
        "MakerPaymentReceived" \in TakerRecord \/ Received("MakerPayment") # {}
  BY TakerHandlerPushes, TakerSaveRecord DEF Taker, TakerPushes, TakerRecord
<1>5. Received("MakerPayment") # {} => "MakerPaymentSent" \in m_saved
  BY DEF Received, AnnouncedInv
<1>. QED  BY <1>1, <1>3, <1>4, <1>5 DEF AnnouncedInv

\* Every step keeps what the records say about each other.
LEMMA RecordStep ==
  ASSUME IndInv, RecordInv, [Next]_vars
  PROVE  RecordInv'
<1>. USE DEF RecordInv
<1>1. Maker /\ Taker
  BY IndInvParts
<1>2. UNCHANGED makerVars => MakerRecordInv' /\ MakerRecord' = MakerRecord /\ UNCHANGED m_saved
  BY DEF makerVars, MakerRecordInv, MakerRecord, MakerBatch
<1>3. UNCHANGED takerVars => TakerRecordInv' /\ TakerRecord' = TakerRecord /\ UNCHANGED t_saved
  BY DEF takerVars, TakerRecordInv, TakerRecord, TakerBatch
<1>4. CASE MakerStep /\ UNCHANGED takerVars
  BY <1>1, <1>3, <1>4, MakerRecordStep, MakerAnnounces DEF MakerStep
<1>5. CASE TakerStep /\ UNCHANGED makerVars
  BY <1>1, <1>2, <1>5, TakerRecordStep, TakerAnnounces DEF TakerStep
<1>6. CASE MakerCrash /\ UNCHANGED takerVars
  <2>1. /\ UNCHANGED <<m_saved, m_last, net>> /\ MakerBatch' = {}
        /\ MakerRecord' \subseteq MakerRecord
    BY <1>6, SMT DEF MakerCrash, MakerBatch, MakerRecord
  <2>. QED  BY <1>3, <1>6, <2>1 DEF MakerRecordInv, AnnouncedInv
<1>7. CASE TakerCrash /\ UNCHANGED makerVars
  <2>1. /\ UNCHANGED <<t_saved, t_last, net>> /\ TakerBatch' = {}
        /\ TakerRecord' \subseteq TakerRecord
    BY <1>7, SMT DEF TakerCrash, TakerBatch, TakerRecord
  <2>. QED  BY <1>2, <1>7, <2>1 DEF TakerRecordInv, AnnouncedInv
<1>8. CASE UNCHANGED makerVars /\ UNCHANGED takerVars /\ UNCHANGED net
  BY <1>2, <1>3, <1>8 DEF AnnouncedInv
<1>9. \/ MakerStep /\ UNCHANGED takerVars
      \/ TakerStep /\ UNCHANGED makerVars
      \/ MakerCrash /\ UNCHANGED takerVars
      \/ TakerCrash /\ UNCHANGED makerVars
      \/ UNCHANGED makerVars /\ UNCHANGED takerVars /\ UNCHANGED net
  BY DEF Next, MakerRecoverFunds, TakerRecoverFunds, Chain, Mine, AutoRefund, Tick, vars,
         envVars
<1>. QED  BY <1>4, <1>5, <1>6, <1>7, <1>8, <1>9

-----------------------------------------------------------------------------
(* The loops of recreate_swap_data: what they compute is found by induction *)
(* over the numbers, which is derived for sets from the well-foundedness   *)
(* of <.                                                                   *)

\* Induction over the numbers, for membership in a set.
LEMMA NatSetInduction ==
  ASSUME NEW P, 0 \in P, \A n \in Nat : n \in P => n + 1 \in P
  PROVE  \A n \in Nat : n \in P
<1>. DEFINE R == OpToRel(<, Nat)
            T == Nat \ P
<1>1. IsWellFoundedOn(R, Nat)
  BY NatLessThanWellFounded DEF OpToRel
<1>2. \A x, y \in Nat : x < y => <<x, y>> \in R
  BY DEF OpToRel
<1>3. SUFFICES ASSUME T # {} PROVE FALSE
  OBVIOUS
<1>. HIDE DEF R
<1>4. T \subseteq Nat
  OBVIOUS
<1>. HIDE DEF T
<1>5. PICK x \in T : \A y \in T : ~(<<y, x>> \in R)
  BY <1>1, <1>3, <1>4, WFMin
<1>. USE DEF T
<1>6. x \in Nat /\ x # 0
  BY <1>5
<1>7. x - 1 \in Nat /\ x - 1 < x
  BY SMT, <1>6
<1>8. x - 1 \in P
  BY <1>2, <1>5, <1>6, <1>7
<1>9. (x - 1) + 1 = x
  BY SMT, <1>6
<1>. QED  BY <1>5, <1>6, <1>7, <1>8, <1>9

\* A computation of N steps: step n takes v to G[n][v].
Computes(f, N, a, G) == f = [n \in 0 .. N |-> IF n = 0 THEN a ELSE G[n][f[n - 1]]]

\* There is one, if every step has a value in S for a value in S.
LEMMA Computation ==
  ASSUME NEW N \in Nat, NEW S, NEW a \in S, NEW G \in [1 .. N -> [S -> S]]
  PROVE  \E f \in [0 .. N -> S] : Computes(f, N, a, G)
<1>. DEFINE P == {k \in Nat : k <= N => \E f \in [0 .. k -> S] : Computes(f, k, a, G)}
<1>1. 0 \in P
  <2>. DEFINE f == [n \in 0 .. 0 |-> a]
  <2>1. f \in [0 .. 0 -> S] /\ Computes(f, 0, a, G)
    BY SMT DEF Computes
  <2>. QED  BY <2>1
<1>2. ASSUME NEW k \in Nat, k \in P PROVE k + 1 \in P
  <2>. SUFFICES ASSUME k + 1 <= N PROVE \E f \in [0 .. k + 1 -> S] : Computes(f, k + 1, a, G)
    BY SMT
  <2>1. PICK f \in [0 .. k -> S] : Computes(f, k, a, G)
    BY SMT, <1>2
  <2>. DEFINE g == [n \in 0 .. k + 1 |-> IF n = k + 1 THEN G[n][f[k]] ELSE f[n]]
  <2>2. f[k] \in S /\ G[k + 1] \in [S -> S]
    BY SMT
  <2>3. G[k + 1][f[k]] \in S
    BY <2>2
  <2>4. g \in [0 .. k + 1 -> S]
    BY SMT, <2>1, <2>3
  <2>5. ASSUME NEW n \in 0 .. k + 1 PROVE g[n] = IF n = 0 THEN a ELSE G[n][g[n - 1]]
    <3>1. CASE n = k + 1
      BY SMT, <3>1
    <3>2. CASE n # k + 1 /\ n # 0
      <4>1. n \in 0 .. k /\ n - 1 \in 0 .. k /\ n - 1 # k + 1
        BY SMT, <3>2
      <4>2. f[n] = G[n][f[n - 1]]
        BY <2>1, <3>2, <4>1 DEF Computes
      <4>. QED  BY SMT, <3>2, <4>1, <4>2
    <3>3. CASE n # k + 1 /\ n = 0
      BY SMTT(30), <2>1, <3>3 DEF Computes
    <3>. QED  BY <3>1, <3>2, <3>3
  <2>6. Computes(g, k + 1, a, G)
    BY <2>4, <2>5 DEF Computes
  <2>. QED  BY <2>4, <2>6
<1>. HIDE DEF P
<1>3. N \in P
  BY <1>1, <1>2, NatSetInduction
<1>. QED  BY SMT, <1>3 DEF P

\* The record being made, with events of one side.
Conversion(Events) ==
  [events : SUBSET Events, last : Events, fee : BOOLEAN, over : BOOLEAN]

\* Updates of such a record, with any set in the place of the Booleans.
LEMMA RecordUpdates ==
  ASSUME NEW E, NEW L, NEW B,
         NEW r \in [events : E, last : L, fee : B, over : B],
         NEW e \in E, NEW l \in L, NEW b \in B
  PROVE  /\ [r EXCEPT !.events = e, !.last = l] \in [events : E, last : L, fee : B, over : B]
         /\ [r EXCEPT !.events = e, !.last = l].events = e
         /\ [r EXCEPT !.events = e, !.last = l].last = l
         /\ [r EXCEPT !.events = e, !.last = l].over = r.over
         /\ [r EXCEPT !.over = b] \in [events : E, last : L, fee : B, over : B]
         /\ [r EXCEPT !.over = b].events = r.events
         /\ [r EXCEPT !.over = b].last = r.last
         /\ [r EXCEPT !.over = b].over = b
         /\ [r EXCEPT !.fee = b] \in [events : E, last : L, fee : B, over : B]
         /\ [r EXCEPT !.fee = b].events = r.events
         /\ [r EXCEPT !.fee = b].last = r.last
         /\ [r EXCEPT !.fee = b].over = r.over
<1>. DEFINE R == [events : E, last : L, fee : B, over : B]
<1>1. /\ r = [events |-> r.events, last |-> r.last, fee |-> r.fee, over |-> r.over]
      /\ r.events \in E /\ r.last \in L /\ r.fee \in B /\ r.over \in B
  OBVIOUS
<1>2. /\ [r EXCEPT !.events = e, !.last = l]
           = [events |-> e, last |-> l, fee |-> r.fee, over |-> r.over]
      /\ [r EXCEPT !.over = b] = [events |-> r.events, last |-> r.last, fee |-> r.fee, over |-> b]
      /\ [r EXCEPT !.fee = b] = [events |-> r.events, last |-> r.last, fee |-> b, over |-> r.over]
  <2>1. [r EXCEPT !.over = b] = [events |-> r.events, last |-> r.last, fee |-> r.fee, over |-> b]
    BY SMT, <1>1
  <2>2. [r EXCEPT !.fee = b] = [events |-> r.events, last |-> r.last, fee |-> b, over |-> r.over]
    BY SMT, <1>1
  <2>3. [r EXCEPT !.events = e, !.last = l]
           = [events |-> e, last |-> l, fee |-> r.fee, over |-> r.over]
    <3>. DEFINE q == [r EXCEPT !.events = e]
    <3>1. q = [events |-> e, last |-> r.last, fee |-> r.fee, over |-> r.over]
      BY SMT, <1>1
    <3>2. [q EXCEPT !.last = l] = [events |-> e, last |-> l, fee |-> r.fee, over |-> r.over]
      <4>. HIDE DEF q
      <4>. QED  BY SMT, <3>1
    <3>. QED  BY <3>2
  <2>. QED  BY <2>1, <2>2, <2>3
<1>3. \A e1 \in E, l1 \in L, b1 \in B, b2 \in B :
        [events |-> e1, last |-> l1, fee |-> b1, over |-> b2] \in R
  BY Zenon
<1>. QED  BY Zenon, <1>1, <1>2, <1>3

\* What push_event does to it.
LEMMA Pushes ==
  ASSUME NEW Events, NEW acc \in Conversion(Events), NEW events \in SUBSET Events,
         NEW last \in Events
  PROVE  /\ Push(acc, events, last) \in Conversion(Events)
         /\ Push(acc, events, last).events = acc.events \cup events \cup {last}
         /\ Push(acc, events, last).last = last
<1>1. acc.events \cup events \cup {last} \in SUBSET Events
  BY Zenon DEF Conversion
<1>. QED  BY Zenon, <1>1, RecordUpdates DEF Conversion, Push

\* And what it does before the function returns.
LEMMA LastPushes ==
  ASSUME NEW Events, NEW acc \in Conversion(Events), NEW events \in SUBSET Events,
         NEW last \in Events
  PROVE  /\ PushLast(acc, events, last) \in Conversion(Events)
         /\ PushLast(acc, events, last).events = acc.events \cup events \cup {last}
         /\ PushLast(acc, events, last).last = last
<1>. DEFINE pushed == Push(acc, events, last)
<1>1. /\ pushed \in Conversion(Events)
      /\ pushed.events = acc.events \cup events \cup {last}
      /\ pushed.last = last
  BY SMT, Pushes
<1>2. TRUE \in BOOLEAN
  OBVIOUS
<1>. HIDE DEF pushed
<1>3. /\ [pushed EXCEPT !.over = TRUE] \in Conversion(Events)
      /\ [pushed EXCEPT !.over = TRUE].events = pushed.events
      /\ [pushed EXCEPT !.over = TRUE].last = pushed.last
  BY Zenon, <1>1, <1>2, RecordUpdates DEF Conversion
<1>. QED  BY Zenon, <1>1, <1>3 DEF PushLast, pushed

\* The loop is over then.
LEMMA LastIsOver ==
  ASSUME NEW Events, NEW acc \in Conversion(Events), NEW events \in SUBSET Events,
         NEW last \in Events
  PROVE  PushLast(acc, events, last).over
<1>1. Push(acc, events, last) \in Conversion(Events)
  BY SMT, Pushes
<1>2. TRUE \in BOOLEAN
  OBVIOUS
<1>. QED  BY Zenon, <1>1, <1>2, RecordUpdates DEF Conversion, PushLast

\* Where the events are that the loops depend on.
LEMMA LogPositions ==
  /\ Len(TakerLogOrder) = 23 /\ Len(MakerLogOrder) = 23
  /\ TakerLogOrder[4] = "MakerPaymentReceived"
  /\ \A i \in 1..4 : TakerLogOrder[i] \in
       {"TakerFeeSent", "TakerFeeSendFailed", "TakerPaymentInstructionsReceived",
        "MakerPaymentReceived"}
  /\ MakerLogOrder[4] = "MakerPaymentSent" /\ MakerLogOrder[7] = "TakerPaymentReceived"
  /\ \A i \in 1..4 : MakerLogOrder[i] \in
       {"MakerPaymentInstructionsReceived", "TakerFeeValidated", "TakerFeeValidateFailed",
        "MakerPaymentSent"}
  /\ \A i \in 5..7 : MakerLogOrder[i] \in
       {"MakerPaymentDataSendFailed", "MakerPaymentWaitConfirmFailed", "TakerPaymentReceived"}
<1>1. \A i \in 1..4 : i = 1 \/ i = 2 \/ i = 3 \/ i = 4
  BY SMT
<1>2. \A i \in 5..7 : i = 5 \/ i = 6 \/ i = 7
  BY SMT
<1>3. Len(TakerLogOrder) = 23
  BY SMT DEF TakerLogOrder
<1>4. Len(MakerLogOrder) = 23
  BY SMT DEF MakerLogOrder
<1>5. /\ TakerLogOrder[1] = "TakerFeeSent"
      /\ TakerLogOrder[2] = "TakerFeeSendFailed"
      /\ TakerLogOrder[3] = "TakerPaymentInstructionsReceived"
      /\ TakerLogOrder[4] = "MakerPaymentReceived"
  BY SMT DEF TakerLogOrder
<1>6. /\ MakerLogOrder[1] = "MakerPaymentInstructionsReceived"
      /\ MakerLogOrder[2] = "TakerFeeValidated"
      /\ MakerLogOrder[3] = "TakerFeeValidateFailed"
      /\ MakerLogOrder[4] = "MakerPaymentSent"
  BY SMT DEF MakerLogOrder
<1>7. /\ MakerLogOrder[5] = "MakerPaymentDataSendFailed"
      /\ MakerLogOrder[6] = "MakerPaymentWaitConfirmFailed"
      /\ MakerLogOrder[7] = "TakerPaymentReceived"
  BY SMT DEF MakerLogOrder
<1>8. /\ TakerLogOrder \in Seq(TakerEvents) /\ MakerLogOrder \in Seq(MakerEvents)
  BY SMT DEF TakerLogOrder, MakerLogOrder, TakerEvents, MakerEvents
<1>. QED  BY Zenon, <1>1, <1>2, <1>3, <1>4, <1>5, <1>6, <1>7

\* A property of the rounds that each of them keeps.
LEMMA LoopKeeps ==
  ASSUME NEW N \in Nat, NEW S, NEW I \in [0 .. N -> SUBSET S], NEW w,
         w[0] \in I[0],
         \A i \in 1 .. N : w[i - 1] \in I[i - 1] => w[i] \in I[i]
  PROVE  \A k \in 0 .. N : w[k] \in I[k]
<1>. DEFINE P == {k \in Nat : k <= N => w[k] \in I[k]}
<1>1. 0 \in P
  BY SMT
<1>2. ASSUME NEW k \in Nat, k \in P PROVE k + 1 \in P
  <2>. SUFFICES ASSUME k + 1 <= N PROVE w[k + 1] \in I[k + 1]
    BY SMT
  <2>1. k + 1 \in 1 .. N /\ (k + 1) - 1 = k /\ w[k] \in I[k]
    BY SMT, <1>2
  <2>. QED  BY <2>1
<1>. HIDE DEF P
<1>3. \A k \in Nat : k \in P
  BY <1>1, <1>2, NatSetInduction
<1>. QED  BY SMT, <1>3 DEF P

-----------------------------------------------------------------------------
(* The maker's record from the taker's.                                    *)

\* One round of the loop.
MakerRound(i, acc) ==
  IF TakerLogOrder[i] \notin t_saved THEN acc ELSE ConvertTakerEvent(acc, TakerLogOrder[i])

\* What holds of the record after i rounds.
MakerLoop(i) ==
  {acc \in Conversion(MakerEvents) :
     /\ {"Started", "Negotiated"} \subseteq acc.events
     /\ \A event \in acc.events : MakerEventBacked(event)
     /\ \/ MakerRequires(MakerGetCommand(acc.last)) \subseteq acc.events
        \/ "MakerPaymentValidateFailed" \in t_saved /\ "MakerPaymentReceived" \notin t_saved
     /\ acc.last = "Finished" => ~OnChain("maker_payment") \/ Spent("taker_payment")
     /\ i >= 4 /\ ~acc.over /\ "MakerPaymentReceived" \in t_saved =>
          "MakerPaymentSent" \in acc.events}

\* What the taker's record says that the conversion relies on.
LEMMA TakerRecordSays ==
  ASSUME IndInv, RecordInv
  PROVE  /\ \A event \in t_saved : TakerEventBacked(event)
         /\ t_saved \cap {"MakerPaymentWaitConfirmFailed", "TakerPaymentTransactionFailed",
                          "TakerPaymentDataSendFailed", "TakerPaymentWaitConfirmFailed",
                          "TakerPaymentSent", "TakerPaymentSpent",
                          "TakerPaymentWaitForSpendFailed"} # {}
              => "MakerPaymentReceived" \in t_saved
         /\ "TakerFeeSendFailed" \in t_saved => ~OnChain("maker_payment")
<1>1. \A event \in t_saved : /\ TakerEventBacked(event)
                             /\ TakerRequires(TakerGetCommand(event)) \subseteq t_saved
  BY DEF IndInv, TakerLogInv, TakerEventOK
<1>2. \A event \in {"TakerPaymentDataSendFailed", "TakerPaymentWaitConfirmFailed",
                    "TakerPaymentSent", "TakerPaymentSpent", "TakerPaymentWaitForSpendFailed"} :
        "MakerPaymentReceived" \in TakerRequires(TakerGetCommand(event))
  <2>1. \A event \in {"TakerPaymentDataSendFailed", "TakerPaymentWaitConfirmFailed",
                      "TakerPaymentWaitForSpendFailed"} :
          TakerGetCommand(event) = "PrepareForTakerPaymentRefund"
    BY TakerCommandTable DEF TakerRefundEvents
  <2>2. \A command \in {"PrepareForTakerPaymentRefund", "WaitForTakerPaymentSpend", "SpendMakerPayment"} :
          "MakerPaymentReceived" \in TakerRequires(command)
    BY DEF TakerRequires
  <2>. QED  BY <2>1, <2>2, TakerCommandTable
<1>3. t_saved \cap {"MakerPaymentWaitConfirmFailed", "TakerPaymentTransactionFailed"} # {}
        => "MakerPaymentReceived" \in t_saved
  BY DEF RecordInv, TakerRecordInv, TakerRecord
<1>4. ASSUME "TakerFeeSendFailed" \in t_saved PROVE ~OnChain("maker_payment")
  <2>1. "TakerFeeSent" \notin t_saved
    BY <1>4 DEF RecordInv, TakerRecordInv, TakerRecord
  <2>2. "TakerFeeValidated" \notin m_saved
    BY <2>1 DEF RecordInv, AnnouncedInv, MakerRecord
  <2>. QED  BY <2>2 DEF IndInv, ChainInv
<1>. QED  BY <1>1, <1>2, <1>3, <1>4

\* The commands of the events the conversion ends with, and what they rely on.
LEMMA MakerEndings ==
  /\ MakerRequires(MakerGetCommand("Negotiated")) = {"Started", "Negotiated"}
  /\ MakerRequires(MakerGetCommand("Finished")) = {}
  /\ MakerRequires(MakerGetCommand("MakerPaymentSent"))
       = {"Started", "Negotiated", "MakerPaymentSent"}
  /\ MakerRequires(MakerGetCommand("MakerPaymentWaitRefundStarted"))
       = {"Started", "Negotiated", "MakerPaymentSent"}
  /\ MakerRequires(MakerGetCommand("TakerPaymentWaitConfirmStarted"))
       = {"Started", "Negotiated", "MakerPaymentSent", "TakerPaymentReceived"}
<1>1. /\ MakerGetCommand("MakerPaymentWaitRefundStarted") = "PrepareForMakerPaymentRefund"
      /\ MakerGetCommand("Finished") = "None"
  BY MakerCommandTable DEF MakerRefundEvents
<1>2. /\ MakerRequires("WaitForTakerFee") = {"Started", "Negotiated"}
      /\ MakerRequires("WaitForTakerPayment") = {"Started", "Negotiated", "MakerPaymentSent"}
      /\ MakerRequires("PrepareForMakerPaymentRefund")
           = {"Started", "Negotiated", "MakerPaymentSent"}
      /\ MakerRequires("ValidateTakerPayment")
           = {"Started", "Negotiated", "MakerPaymentSent", "TakerPaymentReceived"}
      /\ MakerRequires("None") = {}
  BY DEF MakerRequires
<1>. QED  BY <1>1, <1>2, MakerCommandTable

\* A longer record keeps it, if the new events do.
LEMMA MakerLonger ==
  ASSUME NEW i, NEW j, NEW acc \in MakerLoop(j), NEW r \in Conversion(MakerEvents),
         acc.events \subseteq r.events,
         \A event \in r.events \ acc.events : MakerEventBacked(event),
         \/ MakerRequires(MakerGetCommand(r.last)) \subseteq r.events
         \/ "MakerPaymentValidateFailed" \in t_saved /\ "MakerPaymentReceived" \notin t_saved,
         r.last = "Finished" => ~OnChain("maker_payment") \/ Spent("taker_payment"),
         i >= 4 /\ ~r.over /\ "MakerPaymentReceived" \in t_saved => "MakerPaymentSent" \in r.events
  PROVE  r \in MakerLoop(i)
BY DEF MakerLoop

\* Every round keeps it.
LEMMA MakerRoundKeeps ==
  ASSUME IndInv, RecordInv, NEW i \in 1 .. 23, NEW acc \in MakerLoop(i - 1)
  PROVE  MakerRound(i, acc) \in MakerLoop(i)
<1>. DEFINE event == TakerLogOrder[i]
            made == MakerRound(i, acc)
            missing == "MakerPaymentValidateFailed" \in t_saved
                         /\ "MakerPaymentReceived" \notin t_saved
<1>0. acc \in Conversion(MakerEvents)
  BY DEF MakerLoop
<1>1. /\ acc \in Conversion(MakerEvents) /\ acc.over \in BOOLEAN
      /\ acc.events \subseteq MakerEvents /\ acc.last \in MakerEvents
      /\ {"Started", "Negotiated"} \subseteq acc.events
      /\ MakerRequires(MakerGetCommand(acc.last)) \subseteq acc.events \/ missing
      /\ acc.last = "Finished" => ~OnChain("maker_payment") \/ Spent("taker_payment")
  BY DEF MakerLoop, Conversion
<1>2. i >= 5 /\ ~acc.over /\ "MakerPaymentReceived" \in t_saved => "MakerPaymentSent" \in acc.events
  <2>1. i >= 5 => i - 1 >= 4
    BY SMT
  <2>. QED  BY <2>1 DEF MakerLoop
<1>3. i >= 5 \/ event \in {"TakerFeeSent", "TakerFeeSendFailed",
                           "TakerPaymentInstructionsReceived", "MakerPaymentReceived"}
  <2>1. i >= 5 \/ i \in 1 .. 4
    BY SMT
  <2>. QED  BY <2>1, LogPositions
<1>4. i >= 4 => i >= 5 \/ event = "MakerPaymentReceived"
  <2>1. i >= 4 => i >= 5 \/ i = 4
    BY SMT
  <2>. QED  BY <2>1, LogPositions
<1>. HIDE DEF event
<1>5. ASSUME NEW r \in Conversion(MakerEvents), r.events = acc.events, r.last = acc.last,
             r.over = acc.over, event \in t_saved /\ ~r.over => event # "MakerPaymentReceived"
      PROVE  r \in MakerLoop(i)
  <2>1. i >= 4 /\ ~r.over /\ "MakerPaymentReceived" \in t_saved => "MakerPaymentSent" \in r.events
    BY <1>2, <1>4, <1>5
  <2>. QED  BY <1>1, <1>5, <2>1, MakerLonger
<1>6. CASE event \notin t_saved \/ acc.over
  <2>1. made = acc
    BY <1>6 DEF MakerRound, ConvertTakerEvent, event
  <2>. QED  BY <1>1, <1>5, <1>6, <2>1
<1>. SUFFICES ASSUME event \in t_saved, ~acc.over PROVE made \in MakerLoop(i)
  BY <1>6
<1>7. made = ConvertTakerEvent(acc, event)
  BY DEF MakerRound, event
<1>. HIDE DEF made
<1>8. CASE event = "TakerFeeSent"
  <2>1. made = [acc EXCEPT !.fee = TRUE]
    BY <1>7, <1>8 DEF ConvertTakerEvent, TakerFailedAfterPayment
  <2>2. /\ made \in Conversion(MakerEvents) /\ made.events = acc.events /\ made.last = acc.last
        /\ made.over = acc.over
    BY Zenon, <1>1, <2>1, RecordUpdates DEF Conversion
  <2>. QED  BY <1>5, <1>8, <2>2
<1>9. CASE event = "TakerFeeSendFailed"
  <2>1. made = PushLast(acc, {"TakerFeeValidateFailed"}, "Finished")
    BY <1>7, <1>9 DEF ConvertTakerEvent, TakerFailedAfterPayment
  <2>2. {"TakerFeeValidateFailed"} \in SUBSET MakerEvents /\ "Finished" \in MakerEvents
    BY DEF MakerEvents
  <2>3. /\ made \in Conversion(MakerEvents) /\ made.last = "Finished"
        /\ made.events = acc.events \cup {"TakerFeeValidateFailed"} \cup {"Finished"}
    BY SMTT(30), <1>0, <2>1, <2>2, LastPushes
  <2>0. made.over
    BY SMTT(30), <1>0, <2>1, <2>2, LastIsOver
  <2>4. MakerEventBacked("TakerFeeValidateFailed") /\ MakerEventBacked("Finished")
    BY DEF MakerEventBacked
  <2>5. ~OnChain("maker_payment")
    BY <1>9, TakerRecordSays
  <2>. QED  BY <2>0, <2>3, <2>4, <2>5, MakerEndings, MakerLonger
<1>10. CASE event = "MakerPaymentReceived"
  <2>. DEFINE unpaid == [acc EXCEPT !.fee = FALSE]
              fee == IF acc.fee THEN {"TakerFeeValidated"} ELSE {}
  <2>1. made = Push(unpaid, fee, "MakerPaymentSent")
    BY <1>7, <1>10 DEF ConvertTakerEvent, TakerFailedAfterPayment
  <2>2. fee \in SUBSET MakerEvents /\ "MakerPaymentSent" \in MakerEvents
    BY DEF MakerEvents
  <2>3. /\ unpaid \in Conversion(MakerEvents) /\ unpaid.events = acc.events
    BY Zenon, <1>1, RecordUpdates DEF Conversion
  <2>4. fee \subseteq {"TakerFeeValidated"}
    OBVIOUS
  <2>. HIDE DEF unpaid, fee
  <2>5. /\ made \in Conversion(MakerEvents) /\ made.last = "MakerPaymentSent"
        /\ made.events = acc.events \cup fee \cup {"MakerPaymentSent"}
    BY SMT, <2>1, <2>2, <2>3, Pushes
  <2>6. MakerEventBacked("TakerFeeValidated")
    BY DEF MakerEventBacked
  <2>7. MakerEventBacked("MakerPaymentSent")
    BY <1>10, TakerRecordSays DEF MakerEventBacked, TakerEventBacked
  <2>. QED  BY ZenonT(90), <1>1, <2>4, <2>5, <2>6, <2>7, MakerEndings, MakerLonger
<1>11. CASE event \in TakerFailedAfterPayment \cup {"TakerPaymentWaitForSpendFailed"}
  <2>1. PICK failed \in {"TakerPaymentValidateFailed", "TakerPaymentSpendFailed"} :
          made = PushLast(acc, {failed}, "MakerPaymentWaitRefundStarted")
    BY <1>7, <1>11 DEF ConvertTakerEvent, TakerFailedAfterPayment
  <2>2. {failed} \in SUBSET MakerEvents /\ "MakerPaymentWaitRefundStarted" \in MakerEvents
    BY DEF MakerEvents
  <2>3. /\ made \in Conversion(MakerEvents) /\ made.last = "MakerPaymentWaitRefundStarted"
        /\ made.events = acc.events \cup {failed} \cup {"MakerPaymentWaitRefundStarted"}
    BY SMTT(30), <1>0, <2>1, <2>2, LastPushes
  <2>0. made.over
    BY SMTT(30), <1>0, <2>1, <2>2, LastIsOver
  <2>4. MakerEventBacked(failed) /\ MakerEventBacked("MakerPaymentWaitRefundStarted")
    BY DEF MakerEventBacked
  <2>5. i >= 5 /\ (missing \/ "MakerPaymentReceived" \in t_saved)
    BY <1>3, <1>11, TakerRecordSays DEF TakerFailedAfterPayment
  <2>. QED  BY <1>1, <1>2, <2>0, <2>3, <2>4, <2>5, MakerEndings, MakerLonger
<1>12. CASE event = "TakerPaymentSent"
  <2>1. made = Push(acc, {"TakerPaymentReceived"}, "TakerPaymentWaitConfirmStarted")
    BY <1>7, <1>12 DEF ConvertTakerEvent, TakerFailedAfterPayment
  <2>2. {"TakerPaymentReceived"} \in SUBSET MakerEvents
          /\ "TakerPaymentWaitConfirmStarted" \in MakerEvents
    BY DEF MakerEvents
  <2>3. /\ made \in Conversion(MakerEvents) /\ made.last = "TakerPaymentWaitConfirmStarted"
        /\ made.events = acc.events \cup {"TakerPaymentReceived"}
                                    \cup {"TakerPaymentWaitConfirmStarted"}
    BY SMTT(30), <1>0, <2>1, <2>2, Pushes
  <2>4. MakerEventBacked("TakerPaymentReceived")
    BY <1>12, TakerRecordSays DEF MakerEventBacked, TakerEventBacked
  <2>5. MakerEventBacked("TakerPaymentWaitConfirmStarted")
    BY DEF MakerEventBacked
  <2>6. "MakerPaymentSent" \in acc.events
    BY <1>2, <1>3, <1>12, TakerRecordSays
  <2>. QED  BY <1>1, <2>3, <2>4, <2>5, <2>6, MakerEndings, MakerLonger
<1>13. CASE event = "TakerPaymentSpent"
  <2>. DEFINE spent == {"TakerPaymentValidatedAndConfirmed", "TakerPaymentSpent",
                        "TakerPaymentSpendConfirmStarted", "TakerPaymentSpendConfirmed"}
  <2>1. made = PushLast(acc, spent, "Finished")
    BY <1>7, <1>13 DEF ConvertTakerEvent, TakerFailedAfterPayment
  <2>2. spent \in SUBSET MakerEvents /\ "Finished" \in MakerEvents
    BY DEF MakerEvents
  <2>. HIDE DEF spent
  <2>3. /\ made \in Conversion(MakerEvents) /\ made.last = "Finished"
        /\ made.events = acc.events \cup spent \cup {"Finished"}
    BY SMTT(30), <1>0, <2>1, <2>2, LastPushes
  <2>0. made.over
    BY SMTT(30), <1>0, <2>1, <2>2, LastIsOver
  <2>4. Spent("taker_payment")
    BY <1>13, TakerRecordSays DEF TakerEventBacked
  <2>5. \A e \in spent \cup {"Finished"} : MakerEventBacked(e)
    BY <2>4 DEF MakerEventBacked, Spent, Confirmed, spent
  <2>. QED  BY <2>0, <2>3, <2>4, <2>5, MakerEndings, MakerLonger
<1>14. CASE event \notin TakerFailedAfterPayment \cup
              {"TakerFeeSent", "TakerFeeSendFailed", "MakerPaymentReceived",
               "TakerPaymentSent", "TakerPaymentSpent", "TakerPaymentWaitForSpendFailed"}
  <2>1. made = acc
    BY <1>7, <1>14 DEF ConvertTakerEvent, TakerFailedAfterPayment
  <2>. QED  BY <1>1, <1>5, <1>14, <2>1
<1>. QED  BY <1>8, <1>9, <1>10, <1>11, <1>12, <1>13, <1>14

\* The record before the loop.
LEMMA MakerLoopBegins == Unconverted \in MakerLoop(0)
<1>1. Unconverted \in Conversion(MakerEvents)
  <2>1. {"Started", "Negotiated"} \in SUBSET MakerEvents /\ "Negotiated" \in MakerEvents
    BY DEF MakerEvents
  <2>. QED  BY Zenon, <2>1 DEF Unconverted, Conversion
<1>2. Unconverted.events = {"Started", "Negotiated"} /\ Unconverted.last = "Negotiated"
  BY DEF Unconverted
<1>3. MakerEventBacked("Started") /\ MakerEventBacked("Negotiated")
  BY DEF MakerEventBacked
<1>4. ~(0 >= 4)
  BY SMT
<1>. QED  BY <1>1, <1>2, <1>3, <1>4, MakerEndings DEF MakerLoop

\* And after it.
LEMMA MakerLoopEnds ==
  ASSUME IndInv, RecordInv
  PROVE  RecreateMakerSwap(t_saved) \in MakerLoop(23)
<1>. DEFINE S == Conversion(MakerEvents)
            E(w) == w = [i \in 0 .. 23 |-> IF i = 0 THEN Unconverted ELSE MakerRound(i, w[i - 1])]
            G == [i \in 1 .. 23 |-> [v \in S |-> IF v \in MakerLoop(i - 1)
                                                 THEN MakerRound(i, v) ELSE v]]
            I == [i \in 0 .. 23 |-> MakerLoop(i)]
<1>1. RecreateMakerSwap(t_saved) = (CHOOSE w : E(w))[23]
  BY ZenonT(90), LogPositions DEF RecreateMakerSwap, MakerRound
<1>2. I \in [0 .. 23 -> SUBSET S] /\ I[0] = MakerLoop(0) /\ I[23] = MakerLoop(23)
  <2>1. \A i : MakerLoop(i) \subseteq S
    BY DEF MakerLoop
  <2>. QED  BY SMT, <2>1
<1>3. \A i \in 1 .. 23 : /\ i \in 0 .. 23 /\ i - 1 \in 0 .. 23
                         /\ I[i] = MakerLoop(i) /\ I[i - 1] = MakerLoop(i - 1)
  BY SMT
<1>4. Unconverted \in S
  BY MakerLoopBegins DEF MakerLoop
<1>. HIDE DEF I, S
<1>5. \A i \in 1 .. 23 : \A v \in MakerLoop(i - 1) : MakerRound(i, v) \in MakerLoop(i)
  BY MakerRoundKeeps
<1>6. G \in [1 .. 23 -> [S -> S]]
  <2>1. \A i \in 1 .. 23 : \A v \in S :
          (IF v \in MakerLoop(i - 1) THEN MakerRound(i, v) ELSE v) \in S
    BY <1>5 DEF MakerLoop, S
  <2>. QED  BY <2>1
<1>7. \A i \in 1 .. 23 : \A v \in S : G[i][v] = IF v \in MakerLoop(i - 1) THEN MakerRound(i, v) ELSE v
  OBVIOUS
<1>. HIDE DEF G
<1>8. PICK f \in [0 .. 23 -> S] : Computes(f, 23, Unconverted, G)
  BY <1>4, <1>6, Computation
<1>9. f[0] = Unconverted /\ \A i \in 1 .. 23 : f[i - 1] \in S /\ f[i] = G[i][f[i - 1]]
  BY SMT, <1>8 DEF Computes
<1>10. \A i \in 1 .. 23 : f[i - 1] \in I[i - 1] => f[i] \in I[i]
  BY SMT, <1>3, <1>5, <1>7, <1>9
<1>11. \A k \in 0 .. 23 : f[k] \in I[k]
  BY SMT, <1>2, <1>9, <1>10, MakerLoopBegins, LoopKeeps
<1>12. E(f)
  <2>1. \A i \in 1 .. 23 : f[i] = MakerRound(i, f[i - 1])
    BY SMT, <1>3, <1>7, <1>9, <1>11
  <2>2. \A i \in 0 .. 23 : f[i] = IF i = 0 THEN Unconverted ELSE MakerRound(i, f[i - 1])
    BY SMT, <1>9, <2>1
  <2>. QED  BY SMT, <1>8, <2>2
<1>13. PICK w : E(w) /\ w = (CHOOSE v : E(v))
  BY <1>12
<1>14. w[0] = Unconverted /\ \A i \in 1 .. 23 : w[i] = MakerRound(i, w[i - 1])
  BY SMT, <1>13
<1>15. \A i \in 1 .. 23 : w[i - 1] \in I[i - 1] => w[i] \in I[i]
  BY <1>3, <1>5, <1>14
<1>16. \A k \in 0 .. 23 : w[k] \in I[k]
  BY SMTT(30), <1>2, <1>14, <1>15, MakerLoopBegins, LoopKeeps
<1>17. w[23] \in I[23]
  BY SMT, <1>16
<1>. QED  BY <1>1, <1>2, <1>13, <1>17

\* A maker can go on with the record made from the taker's.
LEMMA MakerRecreated ==
  ASSUME IndInv, RecordInv
  PROVE  RecreatedMakerSound
BY MakerLoopEnds DEF RecreatedMakerSound, MakerLoop

-----------------------------------------------------------------------------
(* The taker's record from the maker's.                                    *)

\* One round of the loop.
TakerRound(i, acc, extracted) ==
  IF MakerLogOrder[i] \notin m_saved THEN acc
  ELSE ConvertMakerEvent(acc, MakerLogOrder[i], extracted)

\* The maker gave up where the taker may have paid.
MakerAbandons ==
  \/ "MakerPaymentDataSendFailed" \in m_saved
  \/ "MakerPaymentWaitConfirmFailed" \in m_saved
  \/ {"TakerPaymentReceived", "MakerPaymentTransactionFailed"} \subseteq m_saved

\* What holds of the record after i rounds.
TakerLoop(i) ==
  {acc \in Conversion(TakerEvents) :
     /\ {"Started", "Negotiated"} \subseteq acc.events
     /\ \A event \in acc.events : TakerEventBacked(event)
     /\ \/ TakerRequires(TakerGetCommand(acc.last)) \subseteq acc.events
        \/ "TakerPaymentValidateFailed" \in m_saved /\ "TakerPaymentReceived" \notin m_saved
     /\ acc.last = "Finished" => ~OnChain("taker_payment") \/ MakerAbandons
     /\ i >= 4 /\ ~acc.over /\ "MakerPaymentSent" \in m_saved =>
          "MakerPaymentReceived" \in acc.events
     /\ i >= 7 /\ ~acc.over /\ "TakerPaymentReceived" \in m_saved =>
          "TakerPaymentSent" \in acc.events}

\* What the maker's record says that the conversion relies on.
LEMMA MakerRecordSays ==
  ASSUME IndInv, RecordInv
  PROVE  /\ "TakerFeeValidated" \in m_saved => paid["taker_fee"] > 0
         /\ "MakerPaymentSent" \in m_saved => OnChain("maker_payment")
         /\ "TakerPaymentReceived" \in m_saved =>
              /\ OnChain("taker_payment") /\ Confirmed("maker_payment")
              /\ "MakerPaymentSent" \in m_saved
         /\ "TakerPaymentSpent" \in m_saved => Spent("taker_payment")
         /\ m_saved \cap {"TakerPaymentSpendFailed", "TakerPaymentWaitConfirmFailed",
                          "TakerPaymentSpent"} # {} => "TakerPaymentReceived" \in m_saved
         /\ m_saved \cap {"TakerFeeValidateFailed", "MakerPaymentTransactionFailed",
                          "MakerPaymentDataSendFailed", "MakerPaymentWaitConfirmFailed"} # {} =>
              ~OnChain("taker_payment") \/ MakerAbandons
<1>1. \A event \in m_saved : /\ MakerEventBacked(event)
                             /\ event = "TakerFeeValidated" => paid["taker_fee"] > 0
                             /\ MakerRequires(MakerGetCommand(event)) \subseteq m_saved
  BY DEF IndInv, MakerLogInv, MakerEventOK
<1>2. /\ "MakerPaymentSent" \in m_saved => OnChain("maker_payment")
      /\ "TakerPaymentReceived" \in m_saved => OnChain("taker_payment")
      /\ "TakerPaymentSpent" \in m_saved => Spent("taker_payment")
  BY <1>1 DEF MakerEventBacked
<1>3. OnChain("taker_payment") => /\ OnChain("maker_payment") /\ Confirmed("maker_payment")
                                  /\ "MakerPaymentReceived" \in t_saved
  BY DEF IndInv, ChainInv, Confirmed, OnChain
<1>4. /\ "MakerPaymentSent" \in MakerRequires(MakerGetCommand("TakerPaymentReceived"))
      /\ "TakerPaymentReceived" \in MakerRequires(MakerGetCommand("TakerPaymentSpent"))
  <2>1. /\ "MakerPaymentSent" \in MakerRequires("ValidateTakerPayment")
        /\ "TakerPaymentReceived" \in MakerRequires("ConfirmTakerPaymentSpend")
    BY DEF MakerRequires
  <2>. QED  BY <2>1, MakerCommandTable
<1>5. m_saved \cap {"TakerPaymentSpendFailed", "TakerPaymentWaitConfirmFailed"} # {}
        => "TakerPaymentReceived" \in m_saved
  BY DEF RecordInv, MakerRecordInv, MakerRecord
<1>6. ASSUME "TakerFeeValidateFailed" \in m_saved PROVE ~OnChain("taker_payment")
  <2>1. "TakerFeeValidated" \notin m_saved
    BY <1>6 DEF IndInv, MakerOrderInv, MakerGaveUp
  <2>2. ~OnChain("maker_payment")
    BY <2>1 DEF IndInv, ChainInv
  <2>. QED  BY <1>3, <2>2
<1>7. ASSUME "MakerPaymentTransactionFailed" \in m_saved, "TakerPaymentReceived" \notin m_saved
      PROVE  ~OnChain("taker_payment")
  <2>1. "MakerPaymentSent" \notin m_saved
    BY <1>7 DEF RecordInv, MakerRecordInv, MakerRecord
  <2>2. "MakerPaymentReceived" \notin t_saved
    BY <2>1 DEF RecordInv, AnnouncedInv, TakerRecord
  <2>. QED  BY <1>3, <2>2
<1>8. m_saved \cap {"TakerFeeValidateFailed", "MakerPaymentTransactionFailed",
                    "MakerPaymentDataSendFailed", "MakerPaymentWaitConfirmFailed"} # {} =>
        ~OnChain("taker_payment") \/ MakerAbandons
  BY <1>6, <1>7 DEF MakerAbandons
<1>. QED  BY <1>1, <1>2, <1>3, <1>4, <1>5, <1>8

\* The commands of the events the conversion ends with, and what they rely on.
LEMMA TakerEndings ==
  /\ TakerRequires(TakerGetCommand("Negotiated")) = {"Started"}
  /\ TakerRequires(TakerGetCommand("TakerFeeSent")) = {"Started", "TakerFeeSent"}
  /\ TakerRequires(TakerGetCommand("Finished")) = {}
  /\ TakerRequires(TakerGetCommand("MakerPaymentWaitConfirmStarted")) = {"Started"}
  /\ TakerRequires(TakerGetCommand("TakerPaymentSent"))
       = {"Started", "MakerPaymentReceived", "TakerPaymentSent"}
  /\ TakerRequires(TakerGetCommand("TakerPaymentWaitRefundStarted"))
       = {"Started", "MakerPaymentReceived", "TakerPaymentSent"}
  /\ TakerRequires(TakerGetCommand("TakerPaymentSpent"))
       = {"Started", "MakerPaymentReceived", "TakerPaymentSent", "TakerPaymentSpent"}
<1>1. /\ TakerGetCommand("TakerPaymentWaitRefundStarted") = "PrepareForTakerPaymentRefund"
      /\ TakerGetCommand("Finished") = "None"
  BY TakerCommandTable DEF TakerRefundEvents
<1>2. /\ TakerRequires("SendTakerFee") = {"Started"}
      /\ TakerRequires("WaitForMakerPayment") = {"Started", "TakerFeeSent"}
      /\ TakerRequires("ValidateMakerPayment") = {"Started"}
      /\ TakerRequires("WaitForTakerPaymentSpend")
           = {"Started", "MakerPaymentReceived", "TakerPaymentSent"}
      /\ TakerRequires("PrepareForTakerPaymentRefund")
           = {"Started", "MakerPaymentReceived", "TakerPaymentSent"}
      /\ TakerRequires("SpendMakerPayment")
           = {"Started", "MakerPaymentReceived", "TakerPaymentSent", "TakerPaymentSpent"}
      /\ TakerRequires("None") = {}
  BY DEF TakerRequires
<1>. QED  BY <1>1, <1>2, TakerCommandTable

\* A longer record keeps it, if the new events do.
LEMMA TakerLonger ==
  ASSUME NEW i, NEW j, NEW acc \in TakerLoop(j), NEW r \in Conversion(TakerEvents),
         acc.events \subseteq r.events,
         \A event \in r.events \ acc.events : TakerEventBacked(event),
         \/ TakerRequires(TakerGetCommand(r.last)) \subseteq r.events
         \/ "TakerPaymentValidateFailed" \in m_saved /\ "TakerPaymentReceived" \notin m_saved,
         r.last = "Finished" => ~OnChain("taker_payment") \/ MakerAbandons,
         i >= 4 /\ ~r.over /\ "MakerPaymentSent" \in m_saved => "MakerPaymentReceived" \in r.events,
         i >= 7 /\ ~r.over /\ "TakerPaymentReceived" \in m_saved => "TakerPaymentSent" \in r.events
  PROVE  r \in TakerLoop(i)
BY DEF TakerLoop

\* Every round keeps it.
LEMMA TakerRoundKeeps ==
  ASSUME IndInv, RecordInv, NEW extracted \in BOOLEAN, NEW i \in 1 .. 23,
         NEW acc \in TakerLoop(i - 1)
  PROVE  TakerRound(i, acc, extracted) \in TakerLoop(i)
<1>. DEFINE event == MakerLogOrder[i]
            made == TakerRound(i, acc, extracted)
            missing == "TakerPaymentValidateFailed" \in m_saved
                         /\ "TakerPaymentReceived" \notin m_saved
<1>0. acc \in Conversion(TakerEvents)
  BY DEF TakerLoop
<1>1. /\ {"Started", "Negotiated"} \subseteq acc.events
      /\ TakerRequires(TakerGetCommand(acc.last)) \subseteq acc.events \/ missing
      /\ acc.last = "Finished" => ~OnChain("taker_payment") \/ MakerAbandons
  BY DEF TakerLoop
<1>2. /\ i >= 5 /\ ~acc.over /\ "MakerPaymentSent" \in m_saved => "MakerPaymentReceived" \in acc.events
      /\ i >= 8 /\ ~acc.over /\ "TakerPaymentReceived" \in m_saved => "TakerPaymentSent" \in acc.events
  <2>1. (i >= 5 => i - 1 >= 4) /\ (i >= 8 => i - 1 >= 7)
    BY SMT
  <2>. QED  BY <2>1 DEF TakerLoop
<1>3. /\ i >= 5 \/ event \in {"MakerPaymentInstructionsReceived", "TakerFeeValidated",
                              "TakerFeeValidateFailed", "MakerPaymentSent"}
      /\ i >= 8 \/ event \in {"MakerPaymentInstructionsReceived", "TakerFeeValidated",
                              "TakerFeeValidateFailed", "MakerPaymentSent",
                              "MakerPaymentDataSendFailed", "MakerPaymentWaitConfirmFailed",
                              "TakerPaymentReceived"}
  <2>1. (i >= 5 \/ i \in 1 .. 4) /\ (i >= 8 \/ i \in 1 .. 4 \/ i \in 5 .. 7)
    BY SMT
  <2>. QED  BY <2>1, LogPositions
<1>4. /\ i >= 4 => i >= 5 \/ event = "MakerPaymentSent"
      /\ i >= 7 => i >= 5 /\ (i >= 8 \/ event = "TakerPaymentReceived")
  <2>1. (i >= 4 => i >= 5 \/ i = 4) /\ (i >= 7 => i >= 5 /\ (i >= 8 \/ i = 7))
    BY SMT
  <2>. QED  BY <2>1, LogPositions
<1>. HIDE DEF event
\* The last two conditions, where the record does not end.
<1>5. ASSUME NEW r, acc.events \subseteq r.events, ~acc.over,
             event \in m_saved /\ event = "MakerPaymentSent" => "MakerPaymentReceived" \in r.events,
             event \in m_saved /\ event = "TakerPaymentReceived" => "TakerPaymentSent" \in r.events
      PROVE  /\ i >= 4 /\ "MakerPaymentSent" \in m_saved => "MakerPaymentReceived" \in r.events
             /\ i >= 7 /\ "TakerPaymentReceived" \in m_saved => "TakerPaymentSent" \in r.events
  BY <1>2, <1>4, <1>5
<1>6. CASE event \notin m_saved \/ acc.over
  <2>1. made = acc
    BY <1>6 DEF TakerRound, ConvertMakerEvent, event
  <2>. QED  BY <1>0, <1>1, <1>5, <1>6, <2>1, TakerLonger
<1>. SUFFICES ASSUME event \in m_saved, ~acc.over PROVE made \in TakerLoop(i)
  BY <1>6
<1>7. made = ConvertMakerEvent(acc, event, extracted)
  BY DEF TakerRound, event
<1>. HIDE DEF made
<1>8. CASE event = "TakerFeeValidated"
  <2>1. made = Push(acc, {}, "TakerFeeSent")
    BY <1>7, <1>8 DEF ConvertMakerEvent
  <2>2. {} \in SUBSET TakerEvents /\ "TakerFeeSent" \in TakerEvents
    BY DEF TakerEvents
  <2>3. /\ made \in Conversion(TakerEvents) /\ made.last = "TakerFeeSent"
        /\ made.events = acc.events \cup {} \cup {"TakerFeeSent"}
    BY SMTT(30), <1>0, <2>1, <2>2, Pushes
  <2>4. TakerEventBacked("TakerFeeSent")
    BY <1>8, MakerRecordSays DEF TakerEventBacked
  <2>5. /\ i >= 4 /\ "MakerPaymentSent" \in m_saved => "MakerPaymentReceived" \in made.events
        /\ i >= 7 /\ "TakerPaymentReceived" \in m_saved => "TakerPaymentSent" \in made.events
    BY <1>5, <1>8, <2>3
  <2>. QED  BY <1>1, <2>3, <2>4, <2>5, TakerEndings, TakerLonger
<1>9. CASE event \in {"TakerFeeValidateFailed", "MakerPaymentTransactionFailed",
                      "MakerPaymentDataSendFailed", "MakerPaymentWaitConfirmFailed"}
  <2>1. made = PushLast(acc, {"MakerPaymentValidateFailed"}, "Finished")
    BY <1>7, <1>9 DEF ConvertMakerEvent
  <2>2. {"MakerPaymentValidateFailed"} \in SUBSET TakerEvents /\ "Finished" \in TakerEvents
    BY DEF TakerEvents
  <2>3. /\ made \in Conversion(TakerEvents) /\ made.last = "Finished"
        /\ made.events = acc.events \cup {"MakerPaymentValidateFailed"} \cup {"Finished"}
    BY SMT, <1>0, <2>1, <2>2, LastPushes
  <2>4. made.over
    BY SMTT(30), <1>0, <2>1, <2>2, LastIsOver
  <2>5. TakerEventBacked("MakerPaymentValidateFailed") /\ TakerEventBacked("Finished")
    BY DEF TakerEventBacked
  <2>6. ~OnChain("taker_payment") \/ MakerAbandons
    BY <1>9, MakerRecordSays
  <2>. QED  BY ZenonT(90), <2>3, <2>4, <2>5, <2>6, TakerEndings, TakerLonger
<1>10. CASE event = "MakerPaymentSent"
  <2>1. made = Push(acc, {"MakerPaymentReceived"}, "MakerPaymentWaitConfirmStarted")
    BY <1>7, <1>10 DEF ConvertMakerEvent
  <2>2. {"MakerPaymentReceived"} \in SUBSET TakerEvents
          /\ "MakerPaymentWaitConfirmStarted" \in TakerEvents
    BY DEF TakerEvents
  <2>3. /\ made \in Conversion(TakerEvents) /\ made.last = "MakerPaymentWaitConfirmStarted"
        /\ made.events = acc.events \cup {"MakerPaymentReceived"}
                                    \cup {"MakerPaymentWaitConfirmStarted"}
    BY SMTT(30), <1>0, <2>1, <2>2, Pushes
  <2>4. TakerEventBacked("MakerPaymentReceived")
    BY <1>10, MakerRecordSays DEF TakerEventBacked
  <2>5. TakerEventBacked("MakerPaymentWaitConfirmStarted")
    BY DEF TakerEventBacked
  <2>6. /\ i >= 4 /\ "MakerPaymentSent" \in m_saved => "MakerPaymentReceived" \in made.events
        /\ i >= 7 /\ "TakerPaymentReceived" \in m_saved => "TakerPaymentSent" \in made.events
    BY <1>5, <1>10, <2>3
  <2>. QED  BY <1>1, <2>3, <2>4, <2>5, <2>6, TakerEndings, TakerLonger
<1>11. CASE event = "TakerPaymentReceived"
  <2>1. made = Push(acc, {"MakerPaymentValidatedAndConfirmed"}, "TakerPaymentSent")
    BY <1>7, <1>11 DEF ConvertMakerEvent
  <2>2. {"MakerPaymentValidatedAndConfirmed"} \in SUBSET TakerEvents
          /\ "TakerPaymentSent" \in TakerEvents
    BY DEF TakerEvents
  <2>3. /\ made \in Conversion(TakerEvents) /\ made.last = "TakerPaymentSent"
        /\ made.events = acc.events \cup {"MakerPaymentValidatedAndConfirmed"}
                                    \cup {"TakerPaymentSent"}
    BY SMTT(30), <1>0, <2>1, <2>2, Pushes
  <2>4. TakerEventBacked("MakerPaymentValidatedAndConfirmed") /\ TakerEventBacked("TakerPaymentSent")
    BY <1>11, MakerRecordSays DEF TakerEventBacked
  <2>5. "MakerPaymentReceived" \in acc.events
    BY <1>2, <1>3, <1>11, MakerRecordSays
  <2>. QED  BY <1>1, <2>3, <2>4, <2>5, TakerEndings, TakerLonger
<1>12. ASSUME event \in {"TakerPaymentValidateFailed", "TakerPaymentSpendFailed",
                         "TakerPaymentWaitConfirmFailed", "TakerPaymentSpent"},
              made = PushSpendNotFound(acc)
       PROVE  made \in TakerLoop(i)
  <2>1. {"TakerPaymentWaitForSpendFailed"} \in SUBSET TakerEvents
          /\ "TakerPaymentWaitRefundStarted" \in TakerEvents
    BY DEF TakerEvents
  <2>2. made = PushLast(acc, {"TakerPaymentWaitForSpendFailed"}, "TakerPaymentWaitRefundStarted")
    BY <1>12 DEF PushSpendNotFound
  <2>3. /\ made \in Conversion(TakerEvents) /\ made.last = "TakerPaymentWaitRefundStarted"
        /\ made.events = acc.events \cup {"TakerPaymentWaitForSpendFailed"}
                                    \cup {"TakerPaymentWaitRefundStarted"}
    BY SMT, <1>0, <2>1, <2>2, LastPushes
  <2>4. made.over
    BY SMT, <1>0, <2>1, <2>2, LastIsOver
  <2>5. TakerEventBacked("TakerPaymentWaitForSpendFailed")
          /\ TakerEventBacked("TakerPaymentWaitRefundStarted")
    BY DEF TakerEventBacked
  <2>6. missing \/ "TakerPaymentReceived" \in m_saved
    BY <1>12, MakerRecordSays
  <2>7. i >= 5 /\ i >= 8
    BY <1>3, <1>12
  <2>8. missing \/ {"MakerPaymentReceived", "TakerPaymentSent"} \subseteq acc.events
    BY <1>2, <2>6, <2>7, MakerRecordSays
  <2>. QED  BY ZenonT(90), <1>1, <2>3, <2>4, <2>5, <2>8, TakerEndings, TakerLonger
<1>13. CASE event \in {"TakerPaymentValidateFailed", "TakerPaymentSpendFailed",
                       "TakerPaymentWaitConfirmFailed"}
  <2>1. made = PushSpendNotFound(acc)
    BY <1>7, <1>13 DEF ConvertMakerEvent
  <2>. QED  BY <1>12, <1>13, <2>1
<1>14. CASE event = "TakerPaymentSpent"
  <2>1. CASE ~extracted
    <3>1. made = PushSpendNotFound(acc)
      BY <1>7, <1>14, <2>1 DEF ConvertMakerEvent
    <3>. QED  BY <1>12, <1>14, <3>1
  <2>2. CASE extracted
    <3>1. made = PushLast(acc, {}, "TakerPaymentSpent")
      BY <1>7, <1>14, <2>2 DEF ConvertMakerEvent
    <3>2. {} \in SUBSET TakerEvents /\ "TakerPaymentSpent" \in TakerEvents
      BY DEF TakerEvents
    <3>3. /\ made \in Conversion(TakerEvents) /\ made.last = "TakerPaymentSpent"
          /\ made.events = acc.events \cup {} \cup {"TakerPaymentSpent"}
      <4>1. ASSUME NEW events \in SUBSET TakerEvents, NEW last \in TakerEvents,
                   made = PushLast(acc, events, last)
            PROVE  /\ made \in Conversion(TakerEvents) /\ made.last = last
                   /\ made.events = acc.events \cup events \cup {last}
        BY SMTT(30), <1>0, <4>1, LastPushes
      <4>. QED  BY <3>1, <3>2, <4>1
    <3>4. made.over
      BY SMTT(30), <1>0, <3>1, <3>2, LastIsOver
    <3>5. TakerEventBacked("TakerPaymentSpent")
      BY <1>14, MakerRecordSays DEF TakerEventBacked
    <3>6. i >= 5 /\ i >= 8
      BY <1>3, <1>14
    <3>7. {"MakerPaymentReceived", "TakerPaymentSent"} \subseteq acc.events
      BY <1>2, <1>14, <3>6, MakerRecordSays
    <3>. QED  BY <1>1, <3>3, <3>4, <3>5, <3>7, TakerEndings, TakerLonger
  <2>. QED  BY <2>1, <2>2
<1>15. CASE event \notin {"TakerFeeValidated", "TakerFeeValidateFailed",
                          "MakerPaymentTransactionFailed", "MakerPaymentDataSendFailed",
                          "MakerPaymentWaitConfirmFailed", "MakerPaymentSent",
                          "TakerPaymentReceived", "TakerPaymentValidateFailed",
                          "TakerPaymentSpendFailed", "TakerPaymentWaitConfirmFailed",
                          "TakerPaymentSpent"}
  <2>1. made = acc
    BY <1>7, <1>15 DEF ConvertMakerEvent
  <2>. QED  BY <1>0, <1>1, <1>5, <1>15, <2>1, TakerLonger
<1>. QED  BY <1>8, <1>9, <1>10, <1>11, <1>13, <1>14, <1>15

\* The record before this loop.
LEMMA TakerLoopBegins == Unconverted \in TakerLoop(0)
<1>1. Unconverted \in Conversion(TakerEvents)
  <2>1. {"Started", "Negotiated"} \in SUBSET TakerEvents /\ "Negotiated" \in TakerEvents
    BY DEF TakerEvents
  <2>. QED  BY Zenon, <2>1 DEF Unconverted, Conversion
<1>2. Unconverted.events = {"Started", "Negotiated"} /\ Unconverted.last = "Negotiated"
  BY DEF Unconverted
<1>3. TakerEventBacked("Started") /\ TakerEventBacked("Negotiated")
  BY DEF TakerEventBacked
<1>4. ~(0 >= 4) /\ ~(0 >= 7)
  BY SMT
<1>. QED  BY <1>1, <1>2, <1>3, <1>4, TakerEndings DEF TakerLoop

\* And after this one.
LEMMA TakerLoopEnds ==
  ASSUME IndInv, RecordInv, NEW extracted \in BOOLEAN
  PROVE  RecreateTakerSwap(m_saved, extracted) \in TakerLoop(23)
<1>. DEFINE S == Conversion(TakerEvents)
            E(w) == w = [i \in 0 .. 23 |-> IF i = 0 THEN Unconverted ELSE TakerRound(i, w[i - 1], extracted)]
            G == [i \in 1 .. 23 |-> [v \in S |-> IF v \in TakerLoop(i - 1)
                                                 THEN TakerRound(i, v, extracted) ELSE v]]
            I == [i \in 0 .. 23 |-> TakerLoop(i)]
<1>1. RecreateTakerSwap(m_saved, extracted) = (CHOOSE w : E(w))[23]
  BY ZenonT(90), LogPositions DEF RecreateTakerSwap, TakerRound
<1>2. I \in [0 .. 23 -> SUBSET S] /\ I[0] = TakerLoop(0) /\ I[23] = TakerLoop(23)
  <2>1. \A i : TakerLoop(i) \subseteq S
    BY DEF TakerLoop
  <2>. QED  BY SMT, <2>1
<1>3. \A i \in 1 .. 23 : /\ i \in 0 .. 23 /\ i - 1 \in 0 .. 23
                         /\ I[i] = TakerLoop(i) /\ I[i - 1] = TakerLoop(i - 1)
  BY SMT
<1>4. Unconverted \in S
  BY TakerLoopBegins DEF TakerLoop
<1>. HIDE DEF I, S
<1>5. \A i \in 1 .. 23 : \A v \in TakerLoop(i - 1) : TakerRound(i, v, extracted) \in TakerLoop(i)
  BY TakerRoundKeeps
<1>6. G \in [1 .. 23 -> [S -> S]]
  <2>1. \A i \in 1 .. 23 : \A v \in S :
          (IF v \in TakerLoop(i - 1) THEN TakerRound(i, v, extracted) ELSE v) \in S
    BY <1>5 DEF TakerLoop, S
  <2>. QED  BY <2>1
<1>7. \A i \in 1 .. 23 : \A v \in S : G[i][v] = IF v \in TakerLoop(i - 1) THEN TakerRound(i, v, extracted) ELSE v
  OBVIOUS
<1>. HIDE DEF G
<1>8. PICK f \in [0 .. 23 -> S] : Computes(f, 23, Unconverted, G)
  BY <1>4, <1>6, Computation
<1>9. f[0] = Unconverted /\ \A i \in 1 .. 23 : f[i - 1] \in S /\ f[i] = G[i][f[i - 1]]
  BY SMT, <1>8 DEF Computes
<1>10. \A i \in 1 .. 23 : f[i - 1] \in I[i - 1] => f[i] \in I[i]
  BY SMTT(30), <1>3, <1>5, <1>7, <1>9
<1>11. \A k \in 0 .. 23 : f[k] \in I[k]
  BY SMT, <1>2, <1>9, <1>10, TakerLoopBegins, LoopKeeps
<1>12. E(f)
  <2>1. \A i \in 1 .. 23 : f[i] = TakerRound(i, f[i - 1], extracted)
    BY SMTT(30), <1>3, <1>7, <1>9, <1>11
  <2>2. \A i \in 0 .. 23 : f[i] = IF i = 0 THEN Unconverted ELSE TakerRound(i, f[i - 1], extracted)
    BY SMTT(30), <1>9, <2>1
  <2>. QED  BY SMT, <1>8, <2>2
<1>13. PICK w : E(w) /\ w = (CHOOSE v : E(v))
  BY <1>12
<1>14. w[0] = Unconverted /\ \A i \in 1 .. 23 : w[i] = TakerRound(i, w[i - 1], extracted)
  BY SMT, <1>13
<1>15. \A i \in 1 .. 23 : w[i - 1] \in I[i - 1] => w[i] \in I[i]
  BY <1>3, <1>5, <1>14
<1>16. \A k \in 0 .. 23 : w[k] \in I[k]
  BY SMTT(30), <1>2, <1>14, <1>15, TakerLoopBegins, LoopKeeps
<1>17. w[23] \in I[23]
  BY SMT, <1>16
<1>. QED  BY <1>1, <1>2, <1>13, <1>17

\* A taker can go on with the record made from the maker's.
LEMMA TakerRecreated ==
  ASSUME IndInv, RecordInv
  PROVE  RecreatedTakerSound
BY TakerLoopEnds DEF RecreatedTakerSound, TakerLoop, MakerAbandons

\* The records begin empty.
LEMMA RecordInit == Init => RecordInv
BY SMT DEF Init, EnvInit, MakerInit, TakerInit, RecordInv, MakerRecordInv, TakerRecordInv,
       AnnouncedInv, MakerRecord, TakerRecord, MakerBatch, TakerBatch

\* recreate_swap_data: whenever a node lost its record and makes it again from the other
\* node's, after any crashes and errors on either side, what the new record says is on the
\* chains, the handler that a kick-start runs next finds the payments it unwraps, and a
\* swap whose new record is finished has nothing left to claim, but for the exceptions
\* RecreatedMakerSound and RecreatedTakerSound name.
THEOREM RecreatedRecordsSound == Spec => []RecreatedSwapSound
<1>1. IndInv /\ RecordInv /\ [Next]_vars => RecordInv'
  BY RecordStep
<1>2. IndInv /\ RecordInv => RecreatedSwapSound
  BY MakerRecreated, TakerRecreated DEF RecreatedSwapSound
<1>. QED  BY <1>1, <1>2, RecordInit, Invariance, PTL DEF Spec

=============================================================================
