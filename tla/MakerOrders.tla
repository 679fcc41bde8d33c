---------------------------- MODULE MakerOrders ----------------------------
(***************************************************************************)
(* The maker orders of every node (maker_orders_ctx of lp_ordermatch.rs):  *)
(* issued, reserved for a taker, connected into a swap, updated, cancelled *)
(* and deleted by message handlers, RPC calls and lp_ordermatch_loop, all  *)
(* of which run concurrently.                                              *)
(*                                                                         *)
(* orders is the map; order the content behind each order's mutex, which a *)
(* handler that fetched it keeps using when the map has dropped it.  A     *)
(* handler holds the mutex while it writes the order's file, so it changes *)
(* memory and broadcasts in one step (lock becomes "save" or "delete") and *)
(* touches the file in a later one.                                        *)
(***************************************************************************)
EXTENDS MatchEnv

VARIABLES
  orders,    \* maker_orders_ctx.orders of all nodes
  order,     \* MakerOrder behind each mutex
  lock,      \* what the holder of each mutex has left to do
  files,     \* orders with a file among the active maker orders
  saved,     \* content of those files
  listed,    \* own orders in the owner's own orderbook
  book,      \* volume they are listed with
  held,      \* removed orders that the handler of a message may still hold
  rpc,       \* the RPC call each node is executing
  loop,      \* where lp_ordermatch_loop of each node is
  makerSwaps,\* swaps lp_connect_start_bob started
  again      \* pairs it started a second time

mapVars == <<orders, order, lock>>
fileVars == <<files, saved>>
bookVars == <<listed, book>>
swapVars == <<makerSwaps, again>>
makerVars == <<mapVars, fileVars, bookVars, held, rpc, loop, swapVars>>

\* struct MakerMatch: connect and connected are always set together.
Match == [status : {"none", "reserved", "connected"}, base : Nat, rel : Nat]
NoMatch == [status |-> "none", base |-> 0, rel |-> 0]
MakerOrder == [max : Nat, price : Price, matches : [Takers -> Match]]
NewOrder(ask) == [max |-> ask.max, price |-> ask.price, matches |-> [t \in Takers |-> NoMatch]]

Idle == [op |-> "idle"]
RpcTask == {Idle}
  \cup [op : {"setprice"}, o : Makers, prev : SUBSET Orders]
  \cup [op : {"created"}, o : Makers]
  \cup [op : {"update", "updating"}, o : Orders, before : MakerOrder]
  \cup [op : {"cancel_by"}, left : SUBSET Orders, chosen : SUBSET Orders]
  \cup [op : {"cancelled_by"}, chosen : SUBSET Orders, takers : SUBSET Takers]
LoopTask == {Idle} \cup [op : {"announce", "cancel", "delete"}, o : Orders]

MakerTypeOK ==
  /\ orders \subseteq Orders
  /\ order \in [Orders -> MakerOrder]
  /\ lock \in [Orders -> {"free", "save", "delete", "update", "announce"}]
  /\ files \subseteq Orders
  /\ saved \in [Orders -> MakerOrder]
  /\ listed \subseteq Orders
  /\ book \in [Orders -> Int]
  /\ held \subseteq [o : Orders, m : Message]
  /\ rpc \in [Nodes -> RpcTask]
  /\ loop \in [Nodes -> LoopTask]
  /\ makerSwaps \subseteq Deal
  /\ again \subseteq Orders \X Takers

\* MakerOrder::from(TakerOrder)
FromTaker(t) ==
  LET r == Request[t]
  IN NewOrder(IF r.action = "Sell" THEN [max |-> r.base, price |-> <<r.rel, r.base>>]
                                   ELSE [max |-> r.rel, price |-> <<r.base, r.rel>>])

\* The content of a uuid before it is issued is never read.
Blank(o) == IF o \in Makers THEN NewOrder(Ask[o]) ELSE FromTaker(o)

MakerInit ==
  /\ orders = {}
  /\ order = [o \in Orders |-> Blank(o)]
  /\ lock = [o \in Orders |-> "free"]
  /\ files = {}
  /\ saved = [o \in Orders |-> Blank(o)]
  /\ listed = {}
  /\ book = [o \in Orders |-> 0]
  /\ held = {}
  /\ rpc = [n \in Nodes |-> Idle]
  /\ loop = [n \in Nodes |-> Idle]
  /\ makerSwaps = {}
  /\ again = {}

-----------------------------------------------------------------------------
\* reserved_amount: the sum of the base amounts of all matches, counted as
\* the units of volume each match holds.
Units(matches) == {u \in Takers \X (1 .. MaxVol) : u[2] <= matches[u[1]].base}
ReservedAmount(c) == Cardinality(Units(c.matches))
AvailableAmount(c) == c.max - ReservedAmount(c)

\* Mutant: the sign of the reserved volume.
CutToLess(c, volume) == [c EXCEPT !.max = volume - ReservedAmount(c)]

\* What a balance allows is on top of what is reserved.
CutTo(c, volume) == [c EXCEPT !.max = ReservedAmount(c) + volume]

HasOngoingMatches(c) == \E t \in Takers : c.matches[t].status = "reserved"
IsCancellable(c) == ~HasOngoingMatches(c)

\* match_with_request: the amounts of the swap, at the maker's price.
MatchedBase(c, t) ==
  IF Request[t].action = "Buy" THEN Request[t].base ELSE Over(Request[t].base, c.price)
MatchedRel(c, t) ==
  IF Request[t].action = "Buy" THEN Times(Request[t].base, c.price) ELSE Request[t].base

PriceAccepted(c, t) ==
  IF Request[t].action = "Buy" THEN AtLeast(Request[t].rel, Request[t].base, c.price)
                               ELSE AtLeast(Request[t].base, Request[t].rel, c.price)

\* Mutant: reservations are not counted.
EnoughIgnoringReserved(c, t) == MatchedBase(c, t) <= c.max

Enough(c, t) == MatchedBase(c, t) <= AvailableAmount(c)

MatchWithRequest(o, c, t) ==
  /\ Request[t].base > 0 /\ Request[t].rel > 0
  /\ <<o, t>> \in Pairs
  /\ Enough(c, t)
  /\ MatchedBase(c, t) >= MinVol
  /\ PriceAccepted(c, t)

CanMatchWithMakerPubkey(t, n) == Request[t].by = "Pubkeys" => n \in Request[t].among
CanMatchWithUuid(t, o) == Request[t].by = "Orders" => o \in Request[t].among

-----------------------------------------------------------------------------
\* maker_order_created_p2p_notify, and maker_order_updated_p2p_notify, which
\* changes the own orderbook only when the order is in it.
NotifyCreated(o, c) == listed' = listed \cup {o} /\ book' = [book EXCEPT ![o] = AvailableAmount(c)]
NotifyUpdated(o, c) ==
  /\ book' = IF o \in listed THEN [book EXCEPT ![o] = AvailableAmount(c)] ELSE book
  /\ UNCHANGED listed

\* remove_order; a handler whose message was out may have fetched the order, and
\* lp_ordermatch_loop an order that is matched.
RemoveOrders(os) ==
  /\ orders' = orders \ os
  /\ held' = held \cup {[o |-> o, m |-> m] : o \in orders \cap os,
                m \in {x \in msgs : x.type \in {"request", "connect"}}}

\* Mutant: the own orderbook keeps the order.
RemoveAndDeleteUntold(o) ==
  /\ RemoveOrders({o})
  /\ lock' = [lock EXCEPT ![o] = "delete"]
  /\ UNCHANGED <<order, fileVars, bookVars>>

\* remove_order, maker_order_cancelled_p2p_notify, then delete_my_maker_order
\* with the mutex still held.
RemoveAndDelete(o) ==
  /\ RemoveOrders({o})
  /\ listed' = listed \ {o}
  /\ book' = [book EXCEPT ![o] = 0]
  /\ lock' = [lock EXCEPT ![o] = "delete"]
  /\ UNCHANGED <<order, fileVars>>

DeleteFile(o) == files' = files \ {o} /\ saved' = [saved EXCEPT ![o] = Blank(o)]

\* The holder of the mutex writes or deletes the file; an error is logged.
Save(o) ==
  /\ lock[o] = "save"
  /\ lock' = [lock EXCEPT ![o] = "free"]
  /\ \/ NoFault /\ files' = files \cup {o} /\ saved' = [saved EXCEPT ![o] = order[o]]
     \/ Fault /\ UNCHANGED fileVars
  /\ UNCHANGED <<orders, order, bookVars, held, rpc, loop, swapVars>>
  /\ UNCHANGED <<owner, msgs, agenda, calls, crashed>>

Delete(o) ==
  /\ lock[o] = "delete"
  /\ lock' = [lock EXCEPT ![o] = "free"]
  /\ \/ NoFault /\ DeleteFile(o)
     \/ Fault /\ UNCHANGED fileVars
  /\ UNCHANGED <<orders, order, bookVars, held, rpc, loop, swapVars>>
  /\ UNCHANGED <<owner, msgs, agenda, calls, crashed>>

-----------------------------------------------------------------------------
\* The handler of message m can reach order o: it is in the map, or was when
\* the handler took it from there.
Reaches(m, o) == m \in msgs /\ (o \in orders \/ [o |-> o, m |-> m] \in held)

\* process_taker_request goes through a snapshot of the map in any order, one
\* mutex after the other, and stops at the first order that matches.  It
\* leaves no trace when that one has the match already, or when a coin is
\* deactivated or a protocol not supported.
ProcessTakerRequest(o, t) ==
  LET c == order[o]
      m == [status |-> "reserved", base |-> MatchedBase(c, t), rel |-> MatchedRel(c, t)]
  IN /\ Reaches(RequestMsg(t), o)
     /\ owner[t] # owner[o]
     /\ CanMatchWithMakerPubkey(t, owner[o]) /\ CanMatchWithUuid(t, o)
     /\ lock[o] = "free"
     /\ MatchWithRequest(o, c, t)
     /\ c.matches[t].status = "none"
     /\ Broadcast({ReservedMsg(o, t, m.base, m.rel)})
     /\ order' = [order EXCEPT ![o].matches[t] = m]
     /\ lock' = [lock EXCEPT ![o] = "save"]
     /\ UNCHANGED <<orders, fileVars, bookVars, held, rpc, loop, swapVars>>
     /\ UNCHANGED <<owner, agenda, calls, crashed, faults>>

\* lp_connect_start_bob: whatever stops the spawned task later, the match stays.
StartBob(o, t) ==
  LET m == order[o].matches[t]
  IN /\ makerSwaps' = makerSwaps \cup {[o |-> o, t |-> t, base |-> m.base, rel |-> m.rel]}
     /\ again' = again \cup {<<d.o, d.t>> : d \in {d \in makerSwaps : d.o = o /\ d.t = t}}

\* Mutant: a match is connected again.
MayConnectAgain(o, t) == order[o].matches[t].status # "none"

\* Only a match that is not connected yet is.
MayConnect(o, t) == order[o].matches[t].status = "reserved"

\* process_taker_connect
ProcessTakerConnect(o, t) ==
  LET connected == [order[o] EXCEPT !.matches[t].status = "connected"]
  IN /\ Reaches(ConnectMsg(o, t), o)
     /\ owner[t] # owner[o]
     /\ lock[o] = "free"
     /\ MayConnect(o, t)
     /\ order' = [order EXCEPT ![o] = connected]
     /\ StartBob(o, t)
     /\ Broadcast({ConnectedMsg(o, t)})
     /\ IF AvailableAmount(connected) >= MinVol
          THEN NotifyUpdated(o, connected) ELSE UNCHANGED bookVars
     /\ lock' = [lock EXCEPT ![o] = "save"]
     /\ UNCHANGED <<orders, fileVars, held, rpc, loop>>
     /\ UNCHANGED <<owner, agenda, calls, crashed, faults>>

-----------------------------------------------------------------------------
\* Mutants: a connected match times out too, or instead.
MayTimeOutSold(o, t) == order[o].matches[t].status # "none"
MayTimeOutSoldOnly(o, t) == order[o].matches[t].status = "connected"

MayTimeOut(o, t) == order[o].matches[t].status = "reserved"

\* handle_timed_out_maker_matches: some unconnected matches are too old.  It goes
\* through a snapshot of the map too.
HandleTimedOutMakerMatches(o, old) ==
  /\ o \in orders \/ \E t \in old : [o |-> o, m |-> RequestMsg(t)] \in held
  /\ lock[o] = "free" /\ loop[owner[o]] = Idle
  /\ old # {} /\ \A t \in old : MayTimeOut(o, t)
  /\ order' = [order EXCEPT ![o].matches =
                 [t \in Takers |-> IF t \in old THEN NoMatch ELSE order[o].matches[t]]]
  /\ lock' = [lock EXCEPT ![o] = "save"]
  /\ UNCHANGED <<orders, fileVars, bookVars, held, rpc, loop, swapVars, envVars>>

\* check_balance_for_maker_orders
CheckBalanceForMakerOrders(o) ==
  /\ o \in orders /\ lock[o] = "free" /\ loop[owner[o]] = Idle
  /\ AvailableAmount(order[o]) < MinVol
  /\ ~HasOngoingMatches(order[o])
  /\ RemoveAndDelete(o)
  /\ UNCHANGED <<rpc, loop, swapVars, envVars>>

\* balance_updated, from check_balance_update_loop: volume is what the
\* balance now allows.  It leaves no trace of an order that is gone.
BalanceUpdated(o, volume) ==
  LET cut == CutTo(order[o], volume)
  IN /\ Call
     /\ o \in orders /\ lock[o] = "free"
     /\ \/ volume < MinVol /\ RemoveAndDelete(o)
        \/ /\ volume >= MinVol /\ volume < AvailableAmount(order[o])
           /\ order' = [order EXCEPT ![o] = cut]
           /\ NotifyUpdated(o, cut)
           /\ UNCHANGED <<orders, held, lock, fileVars>>
     /\ UNCHANGED <<rpc, loop, swapVars>>
     /\ UNCHANGED <<owner, msgs, agenda, crashed, faults>>

\* lp_ordermatch_loop: an own order missing from the own orderbook (after a
\* restart) is checked against the balance and announced again.
CheckMissingOrder(o, volume) ==
  LET c == order[o]
      cut == IF volume < AvailableAmount(c) THEN CutTo(c, volume) ELSE c
      next(op) == loop' = [loop EXCEPT ![owner[o]] = [op |-> op, o |-> o]]
  IN /\ o \in orders \ listed /\ lock[o] = "free" /\ loop[owner[o]] = Idle
     /\ \/ \* no balance
           /\ next("cancel") /\ UNCHANGED <<order, lock>>
        \/ /\ AvailableAmount(cut) < MinVol
           /\ order' = [order EXCEPT ![o] = cut]
           /\ next("cancel") /\ UNCHANGED lock
        \/ /\ AvailableAmount(cut) >= MinVol
           /\ order' = [order EXCEPT ![o] = cut]
           /\ next("announce")
           /\ lock' = [lock EXCEPT ![o] = "announce"]
     /\ UNCHANGED <<orders, fileVars, bookVars, held, rpc, swapVars, envVars>>

\* The test that the order is in the map was made on a clone of the map.
AnnounceMissingOrder(o) ==
  /\ loop[owner[o]] = [op |-> "announce", o |-> o]
  /\ NotifyCreated(o, order[o])
  /\ lock' = [lock EXCEPT ![o] = "free"]
  /\ loop' = [loop EXCEPT ![owner[o]] = Idle]
  /\ UNCHANGED <<orders, order, fileVars, held, rpc, swapVars, envVars>>

\* Mutant: the file is forgotten.
CancelMissingOrderOnly(o) ==
  /\ loop[owner[o]] = [op |-> "cancel", o |-> o]
  /\ RemoveOrders({o})
  /\ loop' = [loop EXCEPT ![owner[o]] = Idle]
  /\ UNCHANGED <<order, lock, fileVars, bookVars, rpc, swapVars, envVars>>

\* to_cancel: removed from the map without a word to the peers, then deleted
\* once the mutex is free.
CancelMissingOrder(o) ==
  /\ loop[owner[o]] = [op |-> "cancel", o |-> o]
  /\ RemoveOrders({o})
  /\ loop' = [loop EXCEPT ![owner[o]] =
                IF o \in orders THEN [op |-> "delete", o |-> o] ELSE Idle]
  /\ UNCHANGED <<order, lock, fileVars, bookVars, rpc, swapVars, envVars>>

DeleteMissingOrder(o) ==
  /\ loop[owner[o]] = [op |-> "delete", o |-> o]
  /\ lock[o] = "free"
  /\ lock' = [lock EXCEPT ![o] = "delete"]
  /\ loop' = [loop EXCEPT ![owner[o]] = Idle]
  /\ UNCHANGED <<orders, order, fileVars, bookVars, held, rpc, swapVars, envVars>>

-----------------------------------------------------------------------------
\* create_maker_order: with cancel_previous the orders of the pair go first.
SetPrice(o, cancel_previous) ==
  LET n == owner[o]
  IN /\ Issue(o)
     /\ rpc[n] = Idle
     /\ rpc' = [rpc EXCEPT ![n] = [op |-> "setprice", o |-> o,
                  prev |-> IF cancel_previous THEN orders \cap Own(n) \cap Makers ELSE {}]]
     /\ UNCHANGED <<mapVars, fileVars, bookVars, held, loop, swapVars>>
     /\ UNCHANGED <<owner, msgs, calls, crashed, faults>>

\* cancel_previous_maker_orders, whatever matches the order has.
CancelPreviousMakerOrder(n, p) ==
  /\ rpc[n].op = "setprice"
  /\ p \in rpc[n].prev \cap orders
  /\ \A q \in rpc[n].prev : lock[q] # "delete"
  /\ lock[p] = "free"
  /\ RemoveAndDelete(p)
  /\ UNCHANGED <<rpc, loop, swapVars, envVars>>

\* save_my_new_maker_order: an error of the file is logged; when the history
\* cannot be written the call fails with the file in place.
SaveNewMakerOrder(n) ==
  LET o == rpc[n].o
  IN /\ rpc[n].op = "setprice"
     /\ \A q \in rpc[n].prev : q \notin orders /\ lock[q] # "delete"
     /\ \/ /\ files' = files \cup {o}
           /\ saved' = [saved EXCEPT ![o] = NewOrder(Ask[o])]
           /\ \/ NoFault /\ rpc' = [rpc EXCEPT ![n] = [op |-> "created", o |-> o]]
              \/ Fault /\ rpc' = [rpc EXCEPT ![n] = Idle]
        \/ /\ Fault
           /\ rpc' = [rpc EXCEPT ![n] = [op |-> "created", o |-> o]]
           /\ UNCHANGED fileVars
     /\ UNCHANGED <<mapVars, bookVars, held, loop, swapVars>>
     /\ UNCHANGED <<owner, msgs, agenda, calls, crashed>>

\* maker_order_created_p2p_notify and add_order
AddNewMakerOrder(n) ==
  LET o == rpc[n].o
  IN /\ rpc[n].op = "created"
     /\ orders' = orders \cup {o}
     /\ order' = [order EXCEPT ![o] = NewOrder(Ask[o])]
     /\ NotifyCreated(o, NewOrder(Ask[o]))
     /\ rpc' = [rpc EXCEPT ![n] = Idle]
     /\ UNCHANGED <<lock, fileVars, held, loop, swapVars, envVars>>

\* update_maker_order: a clone of the order is checked without the mutex ...
UpdateMakerOrder(o) ==
  /\ Issue("update")
  /\ rpc[owner[o]] = Idle
  /\ o \in orders /\ lock[o] = "free"
  /\ ~HasOngoingMatches(order[o])
  /\ rpc' = [rpc EXCEPT ![owner[o]] = [op |-> "update", o |-> o, before |-> order[o]]]
  /\ UNCHANGED <<mapVars, fileVars, bookVars, held, loop, swapVars>>
  /\ UNCHANGED <<owner, msgs, calls, crashed, faults>>

\* Mutant: the call waits for an order that is gone.
UpdateRefusedLate(o, before, ask) ==
  o \in orders /\ (order[o] # before \/ ask.max <= ReservedAmount(before))

UpdateRefused(o, before, ask) ==
  o \notin orders \/ order[o] # before \/ ask.max <= ReservedAmount(before)

\* ... and updated when it has not changed in the meantime.  A call that fails one
\* of the checks of its arguments is a call that is not made.
ApplyUpdate(n, ask) ==
  LET o == rpc[n].o
      before == rpc[n].before
  IN /\ rpc[n].op = "update"
     /\ lock[o] = "free" \/ o \notin orders
     /\ \/ /\ o \in orders /\ order[o] = before
           /\ ask.max > ReservedAmount(before)
           /\ order' = [order EXCEPT ![o].max = ask.max, ![o].price = ask.price]
           /\ lock' = [lock EXCEPT ![o] = "update"]
           /\ rpc' = [rpc EXCEPT ![n].op = "updating"]
        \/ /\ UpdateRefused(o, before, ask)
           /\ rpc' = [rpc EXCEPT ![n] = Idle]
           /\ UNCHANGED <<order, lock>>
     /\ UNCHANGED <<orders, fileVars, bookVars, held, loop, swapVars, envVars>>

\* save_maker_order_on_update, then maker_order_updated_p2p_notify; on an
\* error of the file or of the history the order in memory is rolled back.
SaveUpdate(n) ==
  LET o == rpc[n].o
  IN /\ rpc[n].op = "updating"
     /\ lock' = [lock EXCEPT ![o] = "free"]
     /\ rpc' = [rpc EXCEPT ![n] = Idle]
     /\ \/ /\ NoFault
           /\ files' = files \cup {o} /\ saved' = [saved EXCEPT ![o] = order[o]]
           /\ NotifyUpdated(o, order[o])
           /\ UNCHANGED order
        \/ /\ Fault
           /\ order' = [order EXCEPT ![o] = rpc[n].before]
           /\ \/ files' = files \cup {o} /\ saved' = [saved EXCEPT ![o] = order[o]]
              \/ UNCHANGED fileVars
           /\ UNCHANGED bookVars
     /\ UNCHANGED <<orders, held, loop, swapVars>>
     /\ UNCHANGED <<owner, msgs, agenda, calls, crashed>>

\* cancel_order, for a maker order
CancelMakerOrder(o) ==
  /\ Call
  /\ o \in orders /\ lock[o] = "free"
  /\ IsCancellable(order[o])
  /\ RemoveAndDelete(o)
  /\ UNCHANGED <<rpc, loop, swapVars>>
  /\ UNCHANGED <<owner, msgs, agenda, crashed, faults>>

-----------------------------------------------------------------------------
\* The process stops anywhere; orders_kick_start loads the files.
MakerRestart(n) ==
  LET loaded == files \cap Own(n)
  IN /\ orders' = (orders \ Own(n)) \cup loaded
     /\ order' = [o \in Orders |-> IF o \in loaded THEN saved[o] ELSE order[o]]
     /\ lock' = [o \in Orders |-> IF o \in Own(n) THEN "free" ELSE lock[o]]
     /\ listed' = listed \ Own(n)
     /\ book' = [o \in Orders |-> IF o \in Own(n) THEN 0 ELSE book[o]]
     /\ held' = {h \in held : owner[h.o] # n}
     /\ rpc' = [rpc EXCEPT ![n] = Idle]
     /\ loop' = [loop EXCEPT ![n] = Idle]
     /\ UNCHANGED <<fileVars, swapVars>>
=============================================================================
