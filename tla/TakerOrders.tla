---------------------------- MODULE TakerOrders ----------------------------
(***************************************************************************)
(* The taker orders of every node (my_taker_orders and                     *)
(* pending_maker_reserved of lp_ordermatch.rs).  A handler keeps the       *)
(* my_taker_orders mutex of its node from its first look at the map until  *)
(* it has written or deleted the order's file: task holds what the holder  *)
(* has left to do, and a crash may fall between the two.                   *)
(***************************************************************************)
EXTENDS MatchEnv

VARIABLES
  takers,     \* my_taker_orders of all nodes
  chosen,     \* the match of each taker order, as the reserved message
  takerFiles, \* orders with a file among the active taker orders
  takerSaved, \* match saved in those files
  pending,    \* pending_maker_reserved
  sleeping,   \* the order has a process_maker_reserved handler asleep
  task,       \* the holder of each node's my_taker_orders mutex
  takerSwaps  \* swaps lp_connected_alice started

takerMapVars == <<takers, chosen>>
takerFileVars == <<takerFiles, takerSaved>>
pendingVars == <<pending, sleeping>>
takerVars == <<takerMapVars, takerFileVars, pendingVars, task, takerSwaps>>

Reserved == [type : {"reserved"}, o : Orders, t : Takers, base : Nat, rel : Nat]
TakerTask == [op : {"buy", "connect", "delete", "to_maker", "save_maker",
                    "announce"}, t : Takers]
  \cup {[op |-> "free"], [op |-> "cancel_by"]}
Free == [op |-> "free"]

\* matches of an order: empty, or the one reserved message it connected to.
TakerTypeOK ==
  /\ takers \subseteq Takers
  /\ chosen \in [Takers -> SUBSET Reserved]
  /\ takerFiles \subseteq Takers
  /\ takerSaved \in [Takers -> SUBSET Reserved]
  /\ pending \in [Takers -> SUBSET Reserved]
  /\ sleeping \in [Takers -> BOOLEAN]
  /\ task \in [Nodes -> TakerTask]
  /\ takerSwaps \subseteq Deal

TakerInit ==
  /\ takers = {}
  /\ chosen = [t \in Takers |-> {}]
  /\ takerFiles = {}
  /\ takerSaved = [t \in Takers |-> {}]
  /\ pending = [t \in Takers |-> {}]
  /\ sleeping = [t \in Takers |-> FALSE]
  /\ task = [n \in Nodes |-> Free]
  /\ takerSwaps = {}

MutexFree(t) == task[owner[t]] = Free
Then(op, t) == task' = [task EXCEPT ![owner[t]] = [op |-> op, t |-> t]]
Unlock(t) == task' = [task EXCEPT ![owner[t]] = Free]
Doing(op, t) == task[owner[t]] = [op |-> op, t |-> t]

-----------------------------------------------------------------------------
\* lp_auto_buy: the request is broadcast, then the order is saved ...
LpAutoBuy(t) ==
  /\ Issue(t)
  /\ MutexFree(t)
  /\ Broadcast({RequestMsg(t)})
  /\ Then("buy", t)
  /\ UNCHANGED <<takerMapVars, takerFileVars, pendingVars, takerSwaps>>
  /\ UNCHANGED <<owner, calls, crashed, faults>>

\* ... and inserted, unless the history cannot be written; an error of the
\* file itself is logged.
SaveNewTakerOrder(t) ==
  /\ Doing("buy", t)
  /\ Unlock(t)
  /\ \/ NoFault /\ takers' = takers \cup {t} /\ takerFiles' = takerFiles \cup {t}
     \/ Fault /\ takers' = takers \cup {t} /\ UNCHANGED takerFiles
     \/ Fault /\ UNCHANGED takers /\ takerFiles' = takerFiles \cup {t}
  /\ UNCHANGED <<chosen, takerSaved, pendingVars, takerSwaps>>
  /\ UNCHANGED <<owner, msgs, agenda, calls, crashed>>

\* TakerOrder::match_reserved
MatchReserved(t, m) ==
  LET r == Request[t]
  IN /\ r.by = "Orders" => m.o \in r.among
     /\ r.by = "Pubkeys" => owner[m.o] \in r.among
     /\ <<m.o, t>> \in Pairs
     /\ IF r.action = "Buy" THEN r.base = m.base /\ m.rel <= r.rel
                            ELSE r.base = m.rel /\ r.rel <= m.base

\* process_maker_reserved: the first message for an order starts a handler
\* that sleeps for three seconds; the others leave their message to it.
MakerReservedArrives(m) ==
  /\ m \in msgs /\ m.type = "reserved"
  /\ MutexFree(m.t) /\ m.t \in takers
  /\ owner[m.o] # owner[m.t]
  /\ m \notin pending[m.t]
  /\ pending' = [pending EXCEPT ![m.t] = @ \cup {m}]
  /\ sleeping' = [sleeping EXCEPT ![m.t] = sleeping[m.t] \/ pending[m.t] = {}]
  /\ UNCHANGED <<takerMapVars, takerFileVars, task, takerSwaps, envVars>>

\* sort_unstable_by_key(price): rel_amount / base_amount
Cheapest(m, ms) == \A x \in ms : m.rel * x.base <= x.rel * m.base

\* Mutant: the messages stay where they are.
ClearPendingNot(t) == UNCHANGED pending

\* pending_map.remove
ClearPending(t) == pending' = [pending EXCEPT ![t] = {}]

\* The handler wakes up and connects to the cheapest reserved message that
\* matches, if the order has no match yet.
ProcessMakerReserved(t) ==
  LET good == {m \in pending[t] : MatchReserved(t, m)}
  IN /\ sleeping[t] /\ MutexFree(t)
     /\ sleeping' = [sleeping EXCEPT ![t] = FALSE]
     /\ \/ \* the order is gone: the messages stay, nobody reads them
           /\ t \notin takers
           /\ UNCHANGED <<pending, chosen, task, msgs, faults>>
        \/ \* a coin is deactivated
           /\ t \in takers /\ Fault
           /\ UNCHANGED <<pending, chosen, task, msgs>>
        \/ /\ t \in takers /\ (good = {} \/ chosen[t] # {})
           /\ ClearPending(t)
           /\ UNCHANGED <<chosen, task, msgs, faults>>
        \/ /\ t \in takers /\ chosen[t] = {}
           /\ ClearPending(t)
           /\ \E m \in good :
                /\ Cheapest(m, good)
                /\ Broadcast({ConnectMsg(m.o, t)})
                /\ chosen' = [chosen EXCEPT ![t] = {m}]
           /\ Then("connect", t)
           /\ UNCHANGED faults
     /\ UNCHANGED <<takers, takerFileVars, takerSwaps>>
     /\ UNCHANGED <<owner, agenda, calls, crashed>>

\* Mutant: the match is not saved.
SaveTakerMatchNot(t) ==
  /\ Doing("connect", t)
  /\ Unlock(t)
  /\ UNCHANGED <<takerMapVars, takerFileVars, pendingVars, takerSwaps, envVars>>

\* update_active_taker_order
SaveTakerMatch(t) ==
  /\ Doing("connect", t)
  /\ Unlock(t)
  /\ \/ /\ NoFault
        /\ takerFiles' = takerFiles \cup {t}
        /\ takerSaved' = [takerSaved EXCEPT ![t] = chosen[t]]
     \/ Fault /\ UNCHANGED takerFileVars
  /\ UNCHANGED <<takerMapVars, pendingVars, takerSwaps>>
  /\ UNCHANGED <<owner, msgs, agenda, calls, crashed>>

RemoveTaker(ts) ==
  /\ takers' = takers \ ts
  /\ chosen' = [t \in Takers |-> IF t \in ts THEN {} ELSE chosen[t]]

\* Mutant: any maker's answer will do.
IsChosenAny(m, o) == TRUE

\* The match is the one the taker connected to.
IsChosen(m, o) == m.o = o

\* lp_connected_alice: whatever stops the spawned task later, the order is gone.
ConnectedAlice(o, t, m) ==
  takerSwaps' = takerSwaps \cup {[o |-> o, t |-> t, base |-> m.base, rel |-> m.rel]}

\* process_maker_connected
ProcessMakerConnected(o, t) ==
  /\ ConnectedMsg(o, t) \in msgs
  /\ owner[o] # owner[t]
  /\ MutexFree(t) /\ t \in takers
  /\ \E m \in chosen[t] : IsChosen(m, o) /\ ConnectedAlice(o, t, m)
  /\ RemoveTaker({t})
  /\ Then("delete", t)
  /\ UNCHANGED <<takerFileVars, pendingVars, envVars>>

DeleteTakerFile(t) ==
  takerFiles' = takerFiles \ {t} /\ takerSaved' = [takerSaved EXCEPT ![t] = {}]

\* delete_my_taker_order, after the order was fulfilled, timed out or
\* cancelled
DeleteMyTakerOrder(t) ==
  /\ Doing("delete", t)
  /\ Unlock(t)
  /\ \/ NoFault /\ DeleteTakerFile(t)
     \/ Fault /\ UNCHANGED takerFileVars
  /\ UNCHANGED <<takerMapVars, pendingVars, takerSwaps>>
  /\ UNCHANGED <<owner, msgs, agenda, calls, crashed>>

\* Mutant: an order that chose a maker waits for it forever.
MayTimeOutTakerUnmatched(t) == t \in takers /\ chosen[t] = {}

MayTimeOutTaker(t) == t \in takers

\* handle_timed_out_taker_orders: an order without a match that is good till
\* cancelled goes on as a maker order.
HandleTimedOutTakerOrder(t) ==
  /\ MutexFree(t) /\ MayTimeOutTaker(t)
  /\ RemoveTaker({t})
  /\ Then(IF chosen[t] = {} /\ Request[t].gtc THEN "to_maker" ELSE "delete", t)
  /\ UNCHANGED <<takerFileVars, pendingVars, takerSwaps, envVars>>

\* cancel_order, for a taker order
CancelTakerOrder(t) ==
  /\ Call
  /\ MutexFree(t) /\ t \in takers
  /\ chosen[t] = {}
  /\ RemoveTaker({t})
  /\ Then("delete", t)
  /\ UNCHANGED <<takerFileVars, pendingVars, takerSwaps>>
  /\ UNCHANGED <<owner, msgs, agenda, crashed, faults>>

\* The process stops anywhere; orders_kick_start loads the files.
TakerRestart(n) ==
  /\ takers' = (takers \ Own(n)) \cup (takerFiles \cap Own(n))
  /\ chosen' = [t \in Takers |-> IF t \in Own(n) THEN takerSaved[t] ELSE chosen[t]]
  /\ pending' = [t \in Takers |-> IF t \in Own(n) THEN {} ELSE pending[t]]
  /\ sleeping' = [t \in Takers |-> sleeping[t] /\ t \notin Own(n)]
  /\ task' = [task EXCEPT ![n] = Free]
  /\ UNCHANGED <<takerFileVars, takerSwaps>>
=============================================================================
