----------------------- MODULE OrderMatchingInduction -----------------------
(***************************************************************************)
(* The inductive strengthening behind the safety of OrderMatching, in five *)
(* parts: the volumes add up, a match stands for a swap the maker started, *)
(* both sides speak of messages that were sent, a taker order that has its *)
(* swap keeps its choice wherever it is kept, and an order that left the   *)
(* map is listed and stored only as long as somebody will see to it.       *)
(***************************************************************************)
EXTENDS OrderMatching

-----------------------------------------------------------------------------
(* Volumes.                                                                *)

\* An order that has what is reserved of it.
FitOrder == {c \in MakerOrder : c.max <= MaxVol /\ ReservedAmount(c) <= c.max}

FitTask == {Idle}
  \cup [op : {"setprice"}, o : Makers, prev : SUBSET Orders]
  \cup [op : {"created"}, o : Makers]
  \cup [op : {"update", "updating"}, o : Orders, before : FitOrder]
  \cup [op : {"cancel_by"}, left : SUBSET Orders, chosen : SUBSET Orders]
  \cup [op : {"cancelled_by"}, chosen : SUBSET Orders, takers : SUBSET Orders]

\* Memory, files and the clone that an update may be rolled back to.
VolumeInv ==
  /\ owner \in [Orders -> Nodes]
  /\ order \in [Orders -> FitOrder]
  /\ saved \in [Orders -> FitOrder]
  /\ rpc \in [Nodes -> FitTask]

-----------------------------------------------------------------------------
(* The maker's swaps.                                                      *)

\* A node that was not restarted: what it does it does once.
Live(o) == owner[o] \notin crashed

\* The order is still to be issued, is being issued, or is a taker order.
BeingSet(o) == rpc[owner[o]].op \in {"setprice", "created"} /\ rpc[owner[o]].o = o
BeingTaken(t) ==
  \/ t \in takers
  \/ t \in Takers /\ \E op \in {"buy", "connect", "delete", "to_maker"} : Doing(op, t)
Unborn(o) == o \in agenda \/ BeingSet(o) \/ BeingTaken(o)

Updating(o) == rpc[owner[o]].op \in {"update", "updating"} /\ rpc[owner[o]].o = o

SoldTypeOK ==
  /\ lock \in [Orders -> {"free", "save", "delete", "update", "announce"}]
  /\ loop \in [Nodes -> LoopTask]
  /\ orders \subseteq Orders
  /\ makerSwaps \subseteq Deal
  /\ again \subseteq Orders \X Takers
  /\ takers \subseteq Takers
  /\ takerFiles \subseteq Takers
  /\ task \in [Nodes -> TakerTask]

\* Nobody can reach an order that is not there yet, ...
UnbornInv ==
  \A o \in Orders : Live(o) /\ Unborn(o) =>
    /\ o \notin orders
    /\ \A h \in held : h.o # o
    /\ \A d \in makerSwaps : d.o # o
    /\ ~Updating(o)

\* ... and there is one way to it.
OneWayInv ==
  /\ \A o \in agenda \cap Orders : Live(o) => ~BeingSet(o) /\ ~BeingTaken(o)
  /\ \A t \in Takers : Live(t) /\ Doing("to_maker", t) => t \notin takers

\* A call works on an order of its own node.
OwnCalls ==
  \A n \in Nodes : rpc[n].op \in {"setprice", "created", "update", "updating"} =>
    owner[rpc[n].o] = n

\* The mutex of an order that is being updated, or announced, keeps the others out.
UpdateInv ==
  \A n \in Nodes : rpc[n].op = "updating" =>
    /\ lock[rpc[n].o] = "update"
    /\ n \notin crashed => rpc[n].before.matches = order[rpc[n].o].matches
AnnounceInv ==
  \A o \in Orders : loop[owner[o]] = [op |-> "announce", o |-> o] => lock[o] = "announce"

SoldInv ==
  /\ SoldTypeOK
  /\ SoldIsCounted
  /\ StartedOnce
  /\ UnbornInv
  /\ OneWayInv
  /\ OwnCalls
  /\ UpdateInv
  /\ AnnounceInv

-----------------------------------------------------------------------------
(* The messages behind both sides.                                         *)

\* Every match of c, a content of order o, was told its taker.
Announced(ms, o, c) ==
  \A t \in Takers : c.matches[t].status # "none" =>
    ReservedMsg(o, t, c.matches[t].base, c.matches[t].rel) \in ms

MakerMsgs ==
  /\ msgs \subseteq Message
  /\ \A o \in Orders : Announced(msgs, o, order[o]) /\ Announced(msgs, o, saved[o])
  /\ \A n \in Nodes : rpc[n].op \in {"update", "updating"} =>
       Announced(msgs, rpc[n].o, rpc[n].before)
  /\ \A d \in makerSwaps : ReservedMsg(d.o, d.t, d.base, d.rel) \in msgs
  /\ \A o \in Orders, t \in Takers : ConnectedMsg(o, t) \in msgs =>
       \E d \in makerSwaps : d.o = o /\ d.t = t

\* A message a taker keeps was sent.
Kept(t) == chosen[t] \cup takerSaved[t] \cup pending[t]

TakerMsgs ==
  /\ chosen \in [Takers -> SUBSET Reserved]
  /\ takerSaved \in [Takers -> SUBSET Reserved]
  /\ pending \in [Takers -> SUBSET Reserved]
  /\ \A t \in Takers : \A m \in Kept(t) : m \in msgs /\ m.t = t
  /\ TakerDealIsMakers

DealInv == MakerMsgs /\ TakerMsgs

-----------------------------------------------------------------------------
(* The taker's swap.                                                       *)

\* The choice that led to swap d.
ChoiceOf(d) == {ReservedMsg(d.o, d.t, d.base, d.rel)}

\* A taker order is in one place at a time, and its file has the choice that
\* memory has but while that is being written.
FitTaker(t) ==
  /\ \A m1, m2 \in chosen[t] : m1 = m2
  /\ \A m1, m2 \in takerSaved[t] : m1 = m2
  /\ t \notin takers => chosen[t] = {}
  /\ t \notin takerFiles => takerSaved[t] = {}
  /\ t \in agenda \/ Doing("buy", t) => t \notin takers /\ t \notin takerFiles
  /\ ~(t \in agenda /\ Doing("buy", t))
  /\ Doing("delete", t) \/ Doing("to_maker", t) => t \notin takers
  /\ Doing("connect", t) => t \in takers
  /\ t \in takers =>
       /\ t \in takerFiles
       /\ takerSaved[t] = IF Doing("connect", t) THEN {} ELSE chosen[t]

\* A taker order that has its swap keeps that choice.
KeepsChoice(d) ==
  /\ d.t \notin agenda /\ ~Doing("buy", d.t) /\ ~Doing("connect", d.t)
  /\ d.t \in takers => chosen[d.t] = ChoiceOf(d)
  /\ d.t \in takerFiles => takerSaved[d.t] = ChoiceOf(d)

\* The messages of an order in the map have a handler; those of an order that
\* is gone stay, and it never comes back.
PendingFit(t) ==
  pending[t] # {} => t \notin agenda /\ ~Doing("buy", t) /\ (t \in takers => sleeping[t])

CancelledInv ==
  \A n \in Nodes :
    /\ rpc[n].op \in {"cancel_by", "cancelled_by"} => task[n] = [op |-> "cancel_by"]
    /\ rpc[n].op = "cancelled_by" =>
         rpc[n].takers \cap takers = {} /\ \A t \in rpc[n].takers : owner[t] = n

\* As long as files are written and coins stay active.
ChoiceInv ==
  /\ faults \in Nat
  /\ takerSwaps \subseteq Deal
  /\ sleeping \in [Takers -> BOOLEAN]
  /\ CancelledInv
  /\ faults = 0 =>
       /\ \A t \in Takers : FitTaker(t)
       /\ \A d \in takerSwaps : KeepsChoice(d)
       /\ \A d, e \in takerSwaps : d.t = e.t => d = e
       /\ \A t \in Takers : PendingFit(t)

MatchInv == VolumeInv /\ SoldInv /\ DealInv /\ ChoiceInv

-----------------------------------------------------------------------------
(* Orders that leave the map.                                              *)

\* A call of cancel_orders_by is about to delete the order.
CancelledBy(o) == rpc[owner[o]].op = "cancelled_by" /\ o \in rpc[owner[o]].chosen

\* lp_ordermatch_loop found the order missing from the own orderbook.
InLoop(o) == loop[owner[o]] # Idle /\ loop[owner[o]].o = o

\* update_maker_order is about to write the order's file.
Writing(o) == rpc[owner[o]].op = "updating" /\ rpc[owner[o]].o = o

\* The own orderbook of a node that was not restarted lists its orders, so that
\* lp_ordermatch_loop finds none missing.
ListFits(o) ==
  /\ o \in orders => o \in listed
  /\ o \in listed => o \in orders \/ CancelledBy(o)
  /\ CancelledBy(o) => o \notin orders
  /\ ~InLoop(o)

\* cancel_orders_by is about orders of its own node.
OwnCancels ==
  \A n \in Nodes :
    /\ rpc[n].op = "cancel_by" => rpc[n].left \cup rpc[n].chosen \subseteq Own(n)
    /\ rpc[n].op = "cancelled_by" => rpc[n].chosen \subseteq Own(n)

\* A reserved message answers a request.
Asked == \A m \in msgs : m.type = "reserved" => RequestMsg(m.t) \in msgs

\* The handler of request t, or the timeout of its match, may hold the removed order.
HeldFor(o, t) == [o |-> o, m |-> RequestMsg(t)] \in held
HeldRequest(o) == \E t \in Takers : HeldFor(o, t)

\* Somebody who is still busy with the order will delete its file.
Deleting(o) ==
  \/ lock[o] = "delete"
  \/ loop[owner[o]] = [op |-> "delete", o |-> o]
  \/ CancelledBy(o)

\* Who may still write the file of a removed order, and who deletes it.
RemovedFits(o) ==
  /\ lock[o] = "save" => HeldRequest(o)
  /\ Writing(o) => loop[owner[o]] = [op |-> "delete", o |-> o] \/ HeldRequest(o)
  /\ o \in files => Deleting(o) \/ BeingSet(o) \/ HeldRequest(o)
  /\ (\E h \in held : h.o = o) =>
       \A t \in Takers : order[o].matches[t].status # "none" => HeldFor(o, t)

\* As long as files are written and coins stay active.
FileFits(o) ==
  /\ lock[o] = "save" => \E t \in Takers : RequestMsg(t) \in msgs
  /\ o \notin orders => RemovedFits(o)

\* The variables of which no other part speaks.
RestTypeOK ==
  /\ agenda \subseteq Orders \cup {"update"}
  /\ calls \in Nat
  /\ crashed \subseteq Nodes
  /\ files \subseteq Orders
  /\ listed \subseteq Orders
  /\ book \in [Orders -> Int]
  /\ held \subseteq [o : Orders, m : Message]
  /\ \A n \in Nodes : rpc[n].op = "cancelled_by" => rpc[n].takers \subseteq Takers

RemovalInv ==
  /\ RestTypeOK
  /\ OwnCancels
  /\ Asked
  /\ \A o \in Makers : Live(o) => ListFits(o)
  /\ faults = 0 => \A o \in Makers : FileFits(o)

OrderMatchingInv == MatchInv /\ RemovalInv
=============================================================================
