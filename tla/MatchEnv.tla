------------------------------ MODULE MatchEnv ------------------------------
(***************************************************************************)
(* What the two sides of order matching share: the orders that will be     *)
(* issued, the gossip messages, and the budget that bounds calls, restarts *)
(* and failed writes.  A message once broadcast stays in msgs, so that it  *)
(* may be lost (never handled), late, reordered or delivered again.        *)
(***************************************************************************)
EXTENDS Integers, FiniteSets

CONSTANTS
  Nodes,        \* the processes
  Makers,       \* uuids of the orders that setprice issues
  Takers,       \* uuids of the orders that buy and sell issue
  Ask,          \* [max, price] each maker order is issued with
  Request,      \* the TakerRequest of each taker order
  Owners,       \* who may issue which order
  Agendas,      \* bound: the orders that are issued in one run, and an update of one
  Pairs,        \* <<o, t>>: the tickers of order o and request t match
  MinVol,       \* min_base_vol
  MaxVol,       \* bound: no order is larger, no volume is
  NewAsks,      \* bound: the volumes and prices of update_maker_order calls
  Balances,     \* bound: the volumes a balance is found to allow
  MaxEvents     \* bound: cancel calls, changed balances, faults and restarts, together

\* A timed out taker order lives on as a maker order with the same uuid.
Orders == Makers \cup Takers

\* MmNumber is a rational; a price is <<numerator, denominator>>.
Price == (Nat \ {0}) \X (Nat \ {0})
AtLeast(rel, base, price) == rel * price[2] >= price[1] * base
Times(x, price) == (x * price[1]) \div price[2]
Over(x, price) == (x * price[2]) \div price[1]

\* struct TakerRequest, with the parts of TakerOrder that never change.
TakerRequest == [action : {"Buy", "Sell"}, base : Nat, rel : Nat,
                 by : {"Any", "Orders", "Pubkeys"}, among : SUBSET (Orders \cup Nodes),
                 gtc : BOOLEAN]

ASSUME OrdersAssumption ==
  /\ IsFiniteSet(Takers)
  /\ Makers \cap Takers = {}
  /\ Ask \in [Makers -> [max : 0 .. MaxVol, price : Price]]
  /\ Request \in [Takers -> TakerRequest]
  /\ \A t \in Takers : Request[t].base \in 1 .. MaxVol /\ Request[t].rel \in 1 .. MaxVol
  /\ Owners \subseteq [Orders -> Nodes]
  /\ Agendas \subseteq SUBSET (Orders \cup {"update"})
  /\ Pairs \subseteq Orders \X Takers
  /\ MaxVol \in Nat /\ MinVol \in 0 .. MaxVol
  /\ NewAsks \subseteq [max : 0 .. MaxVol, price : Price]

\* Amounts are counted in a unit that every deal at these prices is a multiple of.
ASSUME UnitAssumption ==
  \A t \in Takers, ask \in NewAsks \cup {Ask[o] : o \in Makers} :
    IF Request[t].action = "Buy"
      THEN (Request[t].base * ask.price[1]) % ask.price[2] = 0
      ELSE (Request[t].base * ask.price[2]) % ask.price[1] = 0

ASSUME BudgetAssumption ==
  /\ Balances \subseteq 0 .. MaxVol
  /\ MaxEvents \in Nat

VARIABLES
  owner,    \* the node that issues each order, fixed from the start
  msgs,     \* messages broadcast so far
  agenda,   \* orders still to be issued, and "update" while that call is to come
  calls,    \* cancel calls and changes of a balance so far
  crashed,  \* nodes that were restarted
  faults    \* failed writes and deactivated coins so far

envVars == <<owner, msgs, agenda, calls, crashed, faults>>

\* enum OrdermatchMessage, the four messages of matching; the sender of a
\* message is the owner of the order it speaks for.
RequestMsg(t) == [type |-> "request", t |-> t]
ReservedMsg(o, t, base, rel) ==
  [type |-> "reserved", o |-> o, t |-> t, base |-> base, rel |-> rel]
ConnectMsg(o, t) == [type |-> "connect", o |-> o, t |-> t]
ConnectedMsg(o, t) == [type |-> "connected", o |-> o, t |-> t]

Message == [type : {"request"}, t : Takers]
  \cup [type : {"reserved"}, o : Orders, t : Takers, base : Nat, rel : Nat]
  \cup [type : {"connect", "connected"}, o : Orders, t : Takers]

\* What a swap is started with: the two orders and the two amounts.
Deal == [o : Orders, t : Takers, base : Nat, rel : Nat]

EnvTypeOK ==
  /\ owner \in [Orders -> Nodes]
  /\ msgs \subseteq Message
  /\ agenda \subseteq Orders \cup {"update"}
  /\ calls \in Nat
  /\ crashed \subseteq Nodes
  /\ faults \in Nat

EnvInit ==
  /\ owner \in Owners
  /\ msgs = {}
  /\ agenda \in Agendas
  /\ calls = 0
  /\ crashed = {}
  /\ faults = 0

\* broadcast_ordermatch_message
Broadcast(ms) == msgs' = msgs \cup ms

Own(n) == {o \in Orders : owner[o] = n}

Budget == calls + faults + Cardinality(crashed) < MaxEvents
Fault == Budget /\ faults' = faults + 1
NoFault == faults' = faults
Call == Budget /\ calls' = calls + 1

Issue(o) == o \in agenda /\ agenda' = agenda \ {o}
=============================================================================
