--------------------------- MODULE OrderMatching ---------------------------
(***************************************************************************)
(* Order matching between nodes that all run both sides: a taker's request *)
(* is answered by makers that reserve volume for it, the taker connects to *)
(* one of them, the maker starts its swap and answers, the taker starts    *)
(* its own.  Here are also the steps that touch both sides of a node: the  *)
(* conversion of a timed out taker order, cancel_orders_by and a restart.  *)
(***************************************************************************)
EXTENDS MakerOrders, TakerOrders

vars == <<envVars, makerVars, takerVars>>

TypeOK == EnvTypeOK /\ MakerTypeOK /\ TakerTypeOK

Init == EnvInit /\ MakerInit /\ TakerInit

\* lp_ordermatch_loop runs its phases one after the other.
InConversion(n) == task[n].op \in {"to_maker", "save_maker", "announce"}

-----------------------------------------------------------------------------
\* handle_timed_out_taker_orders, ToMaker: the taker file is deleted and the
\* order is put in the map of maker orders ...
AddConvertedOrder(t) ==
  /\ Doing("to_maker", t)
  /\ \/ NoFault /\ DeleteTakerFile(t)
     \/ Fault /\ UNCHANGED takerFileVars
  /\ orders' = orders \cup {t}
  /\ order' = [order EXCEPT ![t] = FromTaker(t)]
  /\ Then("save_maker", t)
  /\ UNCHANGED <<lock, fileVars, bookVars, held, rpc, loop, swapVars>>
  /\ UNCHANGED <<takerMapVars, pendingVars, takerSwaps>>
  /\ UNCHANGED <<owner, msgs, agenda, calls, crashed>>

\* ... then saved, from a copy made before ...
SaveConvertedOrder(t) ==
  /\ Doing("save_maker", t)
  /\ \/ NoFault /\ files' = files \cup {t} /\ saved' = [saved EXCEPT ![t] = FromTaker(t)]
     \/ Fault /\ UNCHANGED fileVars
  /\ Then("announce", t)
  /\ UNCHANGED <<mapVars, bookVars, held, rpc, loop, swapVars>>
  /\ UNCHANGED <<takerMapVars, takerFileVars, pendingVars, takerSwaps>>
  /\ UNCHANGED <<owner, msgs, agenda, calls, crashed>>

\* ... then announced, unless a coin is deactivated.
AnnounceConvertedOrder(t) ==
  /\ Doing("announce", t)
  /\ Unlock(t)
  /\ \/ NoFault /\ NotifyCreated(t, FromTaker(t))
     \/ Fault /\ UNCHANGED bookVars
  /\ UNCHANGED <<mapVars, fileVars, held, rpc, loop, swapVars>>
  /\ UNCHANGED <<takerMapVars, takerFileVars, pendingVars, takerSwaps>>
  /\ UNCHANGED <<owner, msgs, agenda, calls, crashed>>

-----------------------------------------------------------------------------
\* cancel_orders_by: a snapshot of the maker orders and the taker mutex ...
CancelOrdersBy(n) ==
  /\ Call
  /\ rpc[n] = Idle /\ task[n] = Free
  /\ rpc' = [rpc EXCEPT ![n] = [op |-> "cancel_by", left |-> orders \cap Own(n), chosen |-> {}]]
  /\ task' = [task EXCEPT ![n] = [op |-> "cancel_by"]]
  /\ UNCHANGED <<mapVars, fileVars, bookVars, held, loop, swapVars>>
  /\ UNCHANGED <<takerMapVars, takerFileVars, pendingVars, takerSwaps>>
  /\ UNCHANGED <<owner, msgs, agenda, crashed, faults>>

\* ... each order is locked to be cloned and tested, and unlocked again ...
TestCancellable(n, o) ==
  /\ rpc[n].op = "cancel_by"
  /\ o \in rpc[n].left
  /\ lock[o] = "free"
  /\ rpc' = [rpc EXCEPT ![n].left = @ \ {o},
                        ![n].chosen = IF IsCancellable(order[o]) THEN @ \cup {o} ELSE @]
  /\ UNCHANGED <<mapVars, fileVars, bookVars, held, loop, swapVars, takerVars, envVars>>

\* ... the chosen ones leave the map, with the unmatched taker orders ...
RemoveCancelled(n) ==
  LET mine == {t \in takers \cap Own(n) : chosen[t] = {}}
  IN /\ rpc[n].op = "cancel_by" /\ rpc[n].left = {}
     /\ RemoveOrders(rpc[n].chosen)
     /\ RemoveTaker(mine)
     /\ rpc' = [rpc EXCEPT ![n] = [op |-> "cancelled_by", chosen |-> rpc[n].chosen, takers |-> mine]]
     /\ UNCHANGED <<order, lock, fileVars, bookVars, loop, swapVars>>
     /\ UNCHANGED <<takerFileVars, pendingVars, task, takerSwaps, envVars>>

\* ... and are announced as cancelled and deleted, without their mutex.
DeleteCancelled(n) ==
  /\ rpc[n].op = "cancelled_by"
  /\ \/ \E o \in rpc[n].chosen :
          /\ listed' = listed \ {o}
          /\ book' = [book EXCEPT ![o] = 0]
          /\ \/ NoFault /\ DeleteFile(o)
             \/ Fault /\ UNCHANGED fileVars
          /\ rpc' = [rpc EXCEPT ![n].chosen = @ \ {o}]
          /\ UNCHANGED <<takerFileVars, task>>
     \/ /\ rpc[n].chosen = {}
        /\ \E t \in rpc[n].takers :
             /\ \/ NoFault /\ DeleteTakerFile(t)
                \/ Fault /\ UNCHANGED takerFileVars
             /\ rpc' = [rpc EXCEPT ![n].takers = @ \ {t}]
        /\ UNCHANGED <<bookVars, fileVars, task>>
     \/ /\ rpc[n].chosen = {} /\ rpc[n].takers = {}
        /\ rpc' = [rpc EXCEPT ![n] = Idle]
        /\ task' = [task EXCEPT ![n] = Free]
        /\ UNCHANGED <<bookVars, fileVars, takerFileVars, faults>>
  /\ UNCHANGED <<mapVars, held, loop, swapVars>>
  /\ UNCHANGED <<takerMapVars, pendingVars, takerSwaps>>
  /\ UNCHANGED <<owner, msgs, agenda, calls, crashed>>

-----------------------------------------------------------------------------
Restart(n) ==
  /\ Budget /\ n \notin crashed
  /\ crashed' = crashed \cup {n}
  /\ MakerRestart(n)
  /\ TakerRestart(n)
  /\ UNCHANGED <<owner, msgs, agenda, calls, faults>>

\* lp_ordermatch_loop finishes with an order it is busy with.
LoopTaskStep(o) == AnnounceMissingOrder(o) \/ CancelMissingOrder(o) \/ DeleteMissingOrder(o)

\* The phases of lp_ordermatch_loop for one order.
LoopStep(o) ==
  /\ ~InConversion(owner[o])
  /\ \/ \E old \in SUBSET Takers : HandleTimedOutMakerMatches(o, old)
     \/ CheckBalanceForMakerOrders(o)
     \/ \E volume \in Balances : CheckMissingOrder(o, volume)
     \/ LoopTaskStep(o)

HandlerStep(o) ==
  \/ Save(o)
  \/ Delete(o)
  \/ \E t \in Takers : ProcessTakerRequest(o, t) \/ ProcessTakerConnect(o, t)

RpcStep(n) ==
  \/ \E p \in Orders : CancelPreviousMakerOrder(n, p)
  \/ SaveNewMakerOrder(n)
  \/ AddNewMakerOrder(n)
  \/ \E ask \in NewAsks : ApplyUpdate(n, ask)
  \/ SaveUpdate(n)

MakerStep ==
  \/ \E o \in Orders : LoopStep(o) \/ HandlerStep(o)
  \/ \E n \in Nodes : RpcStep(n)
  \/ \E o \in Makers, cancel_previous \in BOOLEAN : SetPrice(o, cancel_previous)
  \/ \E o \in Orders : UpdateMakerOrder(o) \/ CancelMakerOrder(o)
  \/ \E o \in Orders, volume \in Balances : BalanceUpdated(o, volume)

TakerTaskStep(t) == SaveNewTakerOrder(t) \/ SaveTakerMatch(t) \/ DeleteMyTakerOrder(t)

TakerStep(t) ==
  \/ LpAutoBuy(t)
  \/ TakerTaskStep(t)
  \/ \E m \in msgs : m.t = t /\ MakerReservedArrives(m)
  \/ ProcessMakerReserved(t)
  \/ \E o \in Orders : ProcessMakerConnected(o, t)
  \/ loop[owner[t]] = Idle /\ HandleTimedOutTakerOrder(t)
  \/ CancelTakerOrder(t)

ConversionStep(t) == AddConvertedOrder(t) \/ SaveConvertedOrder(t) \/ AnnounceConvertedOrder(t)

CancelByStep(n) ==
  \/ \E o \in Orders : TestCancellable(n, o)
  \/ RemoveCancelled(n)
  \/ DeleteCancelled(n)

BothStep ==
  \/ \E t \in Takers : ConversionStep(t)
  \/ \E n \in Nodes : CancelOrdersBy(n) \/ CancelByStep(n) \/ Restart(n)

Next ==
  \/ MakerStep /\ UNCHANGED takerVars
  \/ (\E t \in Takers : TakerStep(t)) /\ UNCHANGED makerVars
  \/ BothStep

Spec == Init /\ [][Next]_vars

MatchTimesOut(o, t) ==
  \E old \in SUBSET Takers :
    t \in old /\ ~InConversion(owner[o]) /\ HandleTimedOutMakerMatches(o, old)

\* A handler that has its mutexes goes on.  A mutex wakes those that wait for
\* it in their order, so whoever waits for one that others take again and again
\* gets it (the strong conditions).  lp_ordermatch_loop comes round again.
\* Nothing is assumed of messages, calls, balances and restarts.
Fairness ==
  /\ \A o \in Orders :
       /\ WF_vars((Save(o) \/ Delete(o)) /\ UNCHANGED takerVars)
       /\ SF_vars(LoopTaskStep(o) /\ UNCHANGED takerVars)
       /\ \A t \in Takers : SF_vars(MatchTimesOut(o, t) /\ UNCHANGED takerVars)
  /\ \A n \in Nodes : SF_vars((RpcStep(n) /\ UNCHANGED takerVars) \/ CancelByStep(n))
  /\ \A t \in Takers :
       /\ WF_vars(TakerTaskStep(t) /\ UNCHANGED makerVars)
       /\ WF_vars(ConversionStep(t))
       /\ SF_vars(loop[owner[t]] = Idle /\ HandleTimedOutTakerOrder(t) /\ UNCHANGED makerVars)

FairSpec == Spec /\ Fairness

-----------------------------------------------------------------------------
\* Never is more volume reserved or sold than the order has, in memory or in
\* its file: match_with_request tests the volume under the mutex that
\* balance_updated, update_maker_order and the timeout of matches also take.
NotOversold ==
  /\ \A o \in Orders : ReservedAmount(order[o]) <= order[o].max
  /\ \A o \in Orders : o \in files => ReservedAmount(saved[o]) <= saved[o].max

\* As long as its process lives, every swap a maker started is a connected
\* match of the order, so its volume stays counted by reserved_amount.
SoldIsCounted ==
  \A d \in makerSwaps : owner[d.o] \notin crashed =>
    order[d.o].matches[d.t] = [status |-> "connected", base |-> d.base, rel |-> d.rel]

\* A taker starts a swap only with a maker that started it, and with the same
\* amounts, unless the maker had answered the request twice.
TakerDealIsMakers ==
  \A d \in takerSwaps :
    \/ d \in makerSwaps
    \/ /\ \E e \in makerSwaps : e.o = d.o /\ e.t = d.t
       /\ \E m1, m2 \in msgs :
            /\ m1.type = "reserved" /\ m2.type = "reserved" /\ m1 # m2
            /\ m1.o = d.o /\ m2.o = d.o /\ m1.t = d.t /\ m2.t = d.t

\* One taker order, one swap: whatever is delivered twice or late and wherever
\* the process stops, as long as files are written.
OneTakerDeal ==
  faults = 0 => \A d, e \in takerSwaps : d.t = e.t => d = e

\* A maker starts a swap twice only if its process stopped in between.
StartedOnce == \A p \in again : owner[p[1]] \in crashed

\* The volume an order is listed with in its owner's orderbook is never more
\* than what is not sold yet, but for an order about to be cancelled because
\* too little is left.
SoldAmount(c) == Cardinality({u \in Units(c.matches) : c.matches[u[1]].status = "connected"})
BookNotOverstated ==
  \A o \in listed \cap orders \cap Makers :
    \/ lock[o] = "update"
    \/ book[o] <= order[o].max - SoldAmount(order[o])
    \/ AvailableAmount(order[o]) < MinVol

\* No message is left in pending_maker_reserved without a handler that will
\* wake up and read it, as long as no coin is deactivated.
PendingHasReader ==
  faults = 0 => \A t \in takers : pending[t] # {} => sleeping[t]

\* An order in its owner's orderbook is in the map of orders, or is being
\* cancelled, until the process is restarted.
ListedIsActive ==
  \A o \in listed \cap Makers : owner[o] \notin crashed =>
    o \in orders \/ (rpc[owner[o]].op = "cancelled_by" /\ o \in rpc[owner[o]].chosen)

\* A removed order keeps a file, and so comes back with a restart, only if a
\* request for it was out when it was removed: the handler of that request, or
\* the timeout of its match, may then write the file after it was deleted.
Settled(o) == lock[o] = "free" /\ rpc[owner[o]] = Idle /\ loop[owner[o]] = Idle
RemovedIsDeleted ==
  faults = 0 => \A o \in files \cap Makers : (Settled(o) /\ o \notin orders) =>
    \E t \in Takers : [o |-> o, m |-> RequestMsg(t)] \in held

\* The volume reserved for a taker that goes silent becomes available again.
ReservationEnds ==
  \A o \in Makers, t \in Takers :
    (o \in orders /\ order[o].matches[t].status = "reserved")
      ~> ~(o \in orders /\ order[o].matches[t].status = "reserved")

\* Every taker order ends, whatever the makers do.
TakerOrderEnds == \A t \in Takers : (t \in takers) ~> (t \notin takers)

\* No call waits for a mutex forever, although cancel_orders_by takes the
\* mutexes of maker orders while it has the one of the taker orders.
CallsReturn ==
  \A n \in Nodes : /\ (rpc[n] # Idle) ~> (rpc[n] = Idle)
                   /\ (task[n] # Free) ~> (task[n] = Free)
=============================================================================
