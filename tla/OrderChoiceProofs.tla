------------------------- MODULE OrderChoiceProofs --------------------------
(***************************************************************************)
(* What the maps of the two sides keep.  A taker order that has its swap   *)
(* keeps its choice wherever it is kept, so it never has a second one.  A  *)
(* swap that a maker started stays a match of its order, and so its volume *)
(* stays counted, until the process is restarted.  Every step of the       *)
(* handlers, the calls and lp_ordermatch_loop keeps ChoiceInv and SoldInv. *)
(***************************************************************************)
EXTENDS OrderMatchingInduction, TLAPS

\* Zenon is the quicker of the two provers here, SMT the one that knows numbers and records.
USE ZenonT(30), SMTT(30)

-----------------------------------------------------------------------------
(* What both sides use.                                                    *)

\* A quotient of naturals is one.
LEMMA QuotientNat ==
  ASSUME NEW a \in Nat, NEW b \in Nat \ {0}
  PROVE  a \div b \in Nat
BY SMT

\* A product of naturals is one.
LEMMA ProductNat ==
  ASSUME NEW a \in Nat, NEW b \in Nat
  PROVE  a * b \in Nat
BY SMT

\* The amounts of a match are numbers.
LEMMA MatchedNat ==
  ASSUME NEW c \in MakerOrder, NEW t \in Takers
  PROVE  MatchedBase(c, t) \in Nat /\ MatchedRel(c, t) \in Nat
<1>1. Request[t].base \in Nat
  BY SMT, OrdersAssumption
<1>2. c.price[1] \in Nat \ {0} /\ c.price[2] \in Nat \ {0}
  BY DEF MakerOrder, Price
<1>3. Request[t].base * c.price[2] \in Nat /\ Request[t].base * c.price[1] \in Nat
  BY <1>1, <1>2, ProductNat
<1>4. Over(Request[t].base, c.price) \in Nat /\ Times(Request[t].base, c.price) \in Nat
  BY <1>2, <1>3, QuotientNat DEF Over, Times
<1>. QED  BY <1>1, <1>4 DEF MatchedBase, MatchedRel

\* The volume of an order is cut to what a balance allows.
LEMMA CutMatches ==
  ASSUME VolumeInv, NEW o \in Orders, NEW volume, order' = [order EXCEPT ![o] = CutTo(order[o], volume)]
  PROVE  \A x \in Orders : order'[x].matches = order[x].matches
<1>1. order[o] \in MakerOrder /\ order \in [Orders -> FitOrder]
  BY DEF VolumeInv, FitOrder
<1>. QED  BY <1>1 DEF CutTo, MakerOrder

\* The task of the node that has t, and of no other, is about t.
LEMMA OtherTask ==
  ASSUME VolumeInv, SoldInv, NEW t \in Takers, NEW next, task' = [task EXCEPT ![owner[t]] = next],
         owner' = owner, NEW x \in Takers, NEW op
  PROVE  Doing(op, x)' <=> IF owner[x] = owner[t] THEN next = [op |-> op, t |-> x] ELSE Doing(op, x)
BY DEF VolumeInv, SoldInv, SoldTypeOK, Doing, Orders

\* Messages of the four kinds are told apart.
LEMMA Kinds ==
  /\ \A t \in Takers : RequestMsg(t) \in Message
  /\ \A o \in Orders, t \in Takers : ConnectMsg(o, t) \in Message /\ ConnectedMsg(o, t) \in Message
  /\ \A o \in Orders, t \in Takers, b \in Nat, r \in Nat : ReservedMsg(o, t, b, r) \in Reserved
  /\ Reserved \subseteq Message
  /\ \A m \in Message : m.type = "reserved" => m \in Reserved
  /\ \A m \in Reserved : m = ReservedMsg(m.o, m.t, m.base, m.rel) /\ m.o \in Orders /\ m.t \in Takers
  /\ \A o \in Orders, t \in Takers, x \in Takers : ConnectedMsg(o, t) # RequestMsg(x)
  /\ \A o \in Orders, t \in Takers : \A y, x : ConnectedMsg(o, t) # ConnectMsg(y, x)
  /\ \A o \in Orders, t \in Takers : \A y, x, b, r : ConnectedMsg(o, t) # ReservedMsg(y, x, b, r)
<1>1. \A t \in Takers : RequestMsg(t) \in Message
  BY DEF RequestMsg, Message
<1>2. \A o \in Orders, t \in Takers : ConnectMsg(o, t) \in Message /\ ConnectedMsg(o, t) \in Message
  BY DEF ConnectMsg, ConnectedMsg, Message
<1>3. \A o \in Orders, t \in Takers, b \in Nat, r \in Nat : ReservedMsg(o, t, b, r) \in Reserved
  BY DEF ReservedMsg, Reserved
<1>4. Reserved \subseteq Message
  BY DEF Reserved, Message
<1>5. \A m \in Message : m.type = "reserved" => m \in Reserved
  BY DEF Reserved, Message
<1>6. \A m \in Reserved : m = ReservedMsg(m.o, m.t, m.base, m.rel) /\ m.o \in Orders /\ m.t \in Takers
  BY SMT DEF Reserved, ReservedMsg
<1>7. \A o \in Orders, t \in Takers, x \in Takers : ConnectedMsg(o, t) # RequestMsg(x)
  BY DEF ConnectedMsg, RequestMsg
<1>8. \A o \in Orders, t \in Takers : \A y, x : ConnectedMsg(o, t) # ConnectMsg(y, x)
  BY DEF ConnectedMsg, ConnectMsg
<1>9. \A o \in Orders, t \in Takers : \A y, x, b, r : ConnectedMsg(o, t) # ReservedMsg(y, x, b, r)
  BY DEF ConnectedMsg, ReservedMsg
<1>. QED  BY <1>1, <1>2, <1>3, <1>4, <1>5, <1>6, <1>7, <1>8, <1>9

\* What no step of the maker side does.
LEMMA MakerFrame ==
  ASSUME VolumeInv, MakerStep
  PROVE  /\ owner' = owner /\ agenda' \subseteq agenda /\ faults' \in {faults, faults + 1}
         /\ msgs \subseteq msgs' /\ makerSwaps \subseteq makerSwaps'
         /\ \A n \in Nodes : rpc'[n] = rpc[n] \/ rpc'[n].op \notin {"cancel_by", "cancelled_by"}
<1>. DEFINE Frame == /\ owner' = owner /\ agenda' \subseteq agenda /\ faults' \in {faults, faults + 1}
                     /\ msgs \subseteq msgs' /\ makerSwaps \subseteq makerSwaps'
            Calls == \A n \in Nodes : \/ rpc'[n] = rpc[n]
                                     \/ rpc'[n].op \notin {"cancel_by", "cancelled_by"}
<1>1. rpc \in [Nodes -> FitTask]
  BY DEF VolumeInv
<1>2. Idle.op = "idle"
  BY DEF Idle
<1>3. ASSUME NEW o \in Orders, LoopStep(o)
      PROVE  Frame /\ rpc' = rpc
  BY <1>3 DEF LoopStep, HandleTimedOutMakerMatches, CheckBalanceForMakerOrders, CheckMissingOrder,
              LoopTaskStep, AnnounceMissingOrder, CancelMissingOrder, DeleteMissingOrder,
              swapVars, envVars
<1>4. ASSUME NEW o \in Orders, HandlerStep(o)
      PROVE  Frame /\ rpc' = rpc
  BY Zenon, <1>4 DEF HandlerStep, Save, Delete, ProcessTakerRequest, ProcessTakerConnect, StartBob,
              Broadcast, NoFault, Fault, swapVars
<1>5. ASSUME NEW n \in Nodes, RpcStep(n)
      PROVE  Frame
  BY Zenon, <1>5 DEF RpcStep, CancelPreviousMakerOrder, SaveNewMakerOrder, AddNewMakerOrder, ApplyUpdate,
              SaveUpdate, NoFault, Fault, swapVars, envVars
<1>6. ASSUME NEW n \in Nodes, RpcStep(n)
      PROVE  Calls
  <2>1. \/ rpc' = rpc \/ rpc' = [rpc EXCEPT ![n] = Idle]
        \/ rpc' = [rpc EXCEPT ![n] = [op |-> "created", o |-> rpc[n].o]]
        \/ rpc[n].op = "update" /\ rpc' = [rpc EXCEPT ![n].op = "updating"]
    BY Zenon, <1>6 DEF RpcStep, CancelPreviousMakerOrder, SaveNewMakerOrder, AddNewMakerOrder, ApplyUpdate,
                SaveUpdate
  <2>. QED  BY SMT, <1>1, <1>2, <2>1 DEF FitTask, Idle
<1>7. ASSUME NEW o \in Makers, NEW cancel_previous \in BOOLEAN, SetPrice(o, cancel_previous)
      PROVE  Frame /\ Calls
  BY <1>1, <1>7 DEF SetPrice, Issue, swapVars
<1>8. ASSUME NEW o \in Orders, UpdateMakerOrder(o)
      PROVE  Frame /\ Calls
  BY <1>1, <1>8 DEF UpdateMakerOrder, Issue, swapVars
<1>9. ASSUME NEW o \in Orders,
             CancelMakerOrder(o) \/ \E volume \in Balances : BalanceUpdated(o, volume)
      PROVE  Frame /\ rpc' = rpc
  BY <1>9 DEF CancelMakerOrder, BalanceUpdated, swapVars
<1>. QED  BY <1>3, <1>4, <1>5, <1>6, <1>7, <1>8, <1>9 DEF MakerStep

-----------------------------------------------------------------------------
(* The taker's swap.                                                       *)

\* What the holder of the mutex may be doing to a taker order.
Ops == {"buy", "connect", "delete", "to_maker"}

\* Nothing happens to taker order x.
SameTaker(x) ==
  /\ x \in takers' <=> x \in takers
  /\ x \in takerFiles' <=> x \in takerFiles
  /\ chosen'[x] = chosen[x] /\ takerSaved'[x] = takerSaved[x]
  /\ \A op \in Ops : Doing(op, x)' <=> Doing(op, x)

LEMMA SameTakerFits ==
  ASSUME NEW x \in Takers, SameTaker(x), agenda' \subseteq agenda
  PROVE  /\ FitTaker(x) => FitTaker(x)'
         /\ \A d : d.t = x /\ KeepsChoice(d) => KeepsChoice(d)'
BY DEF SameTaker, FitTaker, KeepsChoice, ChoiceOf, Ops

\* Nothing happens to the messages of taker order x.
SamePending(x) == pending'[x] = pending[x] /\ (sleeping[x] => sleeping'[x])

LEMMA SamePendingFits ==
  ASSUME NEW x \in Takers, SameTaker(x), SamePending(x), agenda' \subseteq agenda, PendingFit(x)
  PROVE  PendingFit(x)'
BY DEF SameTaker, SamePending, PendingFit, Ops

\* A step on some taker orders that starts no swap.
LEMMA ChoiceSome ==
  ASSUME ChoiceInv, NEW S \in SUBSET Takers, CancelledInv', agenda' \subseteq agenda,
         takerSwaps' = takerSwaps, sleeping' \in [Takers -> BOOLEAN], faults' \in Nat,
         faults' = 0 => faults = 0,
         \A x \in Takers \ S : SameTaker(x) /\ SamePending(x),
         faults' = 0 => \A t \in S : FitTaker(t)' /\ PendingFit(t)',
         faults' = 0 => \A d \in takerSwaps : d.t \in S => KeepsChoice(d)'
  PROVE  ChoiceInv'
<1>1. ASSUME faults' = 0
      PROVE  /\ \A x \in Takers : FitTaker(x)' /\ PendingFit(x)'
             /\ \A d \in takerSwaps' : KeepsChoice(d)'
             /\ \A d, e \in takerSwaps' : d.t = e.t => d = e
  <2>1. \A x \in Takers : FitTaker(x)'
    BY <1>1, SameTakerFits DEF ChoiceInv
  <2>2. \A d \in takerSwaps' : KeepsChoice(d)'
    BY <1>1, SameTakerFits DEF ChoiceInv, Deal
  <2>3. \A x \in Takers : PendingFit(x)'
    BY <1>1, SamePendingFits DEF ChoiceInv
  <2>. QED  BY <1>1, <2>1, <2>2, <2>3 DEF ChoiceInv
<1>. QED  BY <1>1 DEF ChoiceInv

\* A step on one of them.
LEMMA ChoiceOne ==
  ASSUME ChoiceInv, NEW t \in Takers, CancelledInv', agenda' \subseteq agenda,
         takerSwaps' = takerSwaps, sleeping' \in [Takers -> BOOLEAN], faults' \in Nat,
         faults' = 0 => faults = 0,
         \A x \in Takers \ {t} : SameTaker(x) /\ SamePending(x),
         faults' = 0 => FitTaker(t)' /\ PendingFit(t)',
         faults' = 0 => \A d \in takerSwaps : d.t = t => KeepsChoice(d)'
  PROVE  ChoiceInv'
<1>. DEFINE S == {t}
<1>1. /\ \A x \in Takers \ S : SameTaker(x) /\ SamePending(x)
      /\ faults' = 0 => \A x \in S : FitTaker(x)' /\ PendingFit(x)'
      /\ faults' = 0 => \A d \in takerSwaps : d.t \in S => KeepsChoice(d)'
      /\ S \in SUBSET Takers
  OBVIOUS
<1>. HIDE DEF S
<1>. QED  BY <1>1, ChoiceSome

\* A step on none of them.
LEMMA ChoiceSame ==
  ASSUME ChoiceInv, CancelledInv', agenda' \subseteq agenda,
         takerSwaps' = takerSwaps, sleeping' \in [Takers -> BOOLEAN], faults' \in Nat,
         faults' = 0 => faults = 0,
         \A x \in Takers : SameTaker(x), \A x \in Takers : SamePending(x)
  PROVE  ChoiceInv'
<1>. DEFINE S == {}
<1>1. /\ \A x \in Takers \ S : SameTaker(x) /\ SamePending(x)
      /\ faults' = 0 => \A x \in S : FitTaker(x)' /\ PendingFit(x)'
      /\ faults' = 0 => \A d \in takerSwaps : d.t \in S => KeepsChoice(d)'
      /\ S \in SUBSET Takers
  OBVIOUS
<1>. HIDE DEF S
<1>. QED  BY <1>1, ChoiceSome

\* The mutex is about t, before and after: nobody does anything to another order.
LEMMA OthersTask ==
  ASSUME VolumeInv, SoldInv, NEW t \in Takers, owner' = owner,
         task[owner[t]] = Free \/ \E op : task[owner[t]] = [op |-> op, t |-> t],
         NEW next, next = Free \/ \E op : next = [op |-> op, t |-> t],
         task' = [task EXCEPT ![owner[t]] = next],
         NEW x \in Takers \ {t}, NEW op \in Ops
  PROVE  Doing(op, x)' <=> Doing(op, x)
<1>1. Free # [op |-> op, t |-> x]
  BY DEF Free, Ops
<1>2. \A y : [op |-> y, t |-> t] # [op |-> op, t |-> x]
  OBVIOUS
<1>3. Doing(op, x)' <=> IF owner[x] = owner[t] THEN next = [op |-> op, t |-> x] ELSE Doing(op, x)
  BY Zenon, OtherTask
<1>4. CASE owner[x] = owner[t]
  BY Zenon, <1>1, <1>2, <1>3, <1>4 DEF Doing
<1>. QED  BY <1>3, <1>4

\* A node that is in cancel_orders_by works on no order of its own.
LEMMA CancelledStays ==
  ASSUME VolumeInv, SoldInv, ChoiceInv, NEW t \in Takers, UNCHANGED <<owner, rpc>>,
         task[owner[t]] # [op |-> "cancel_by"], takers' \subseteq takers \cup {t},
         \A n \in Nodes : n # owner[t] => task'[n] = task[n]
  PROVE  CancelledInv'
<1>1. ASSUME NEW n \in Nodes, rpc[n].op \in {"cancel_by", "cancelled_by"}
      PROVE  n # owner[t] /\ task'[n] = [op |-> "cancel_by"]
  BY <1>1 DEF ChoiceInv, CancelledInv
<1>2. ASSUME NEW n \in Nodes, rpc[n].op = "cancelled_by"
      PROVE  rpc[n].takers \cap takers' = {} /\ \A x \in rpc[n].takers : owner[x] = n
  <2>1. rpc[n].takers \cap takers = {} /\ \A x \in rpc[n].takers : owner[x] = n
    BY <1>2 DEF ChoiceInv, CancelledInv
  <2>2. n # owner[t]
    BY <1>1, <1>2
  <2>. QED  BY <2>1, <2>2
<1>. QED  BY <1>1, <1>2 DEF CancelledInv

\* A step on t with the mutex of its node.
LEMMA ChoiceMutex ==
  ASSUME VolumeInv, SoldInv, ChoiceInv, NEW t \in Takers, UNCHANGED <<owner, rpc, takerSwaps>>,
         agenda' \subseteq agenda, faults' \in {faults, faults + 1},
         \/ task[owner[t]] = Free
         \/ \E op \in Ops \cup {"save_maker", "announce"} : task[owner[t]] = [op |-> op, t |-> t],
         NEW next, next = Free \/ \E op : next = [op |-> op, t |-> t],
         task' = [task EXCEPT ![owner[t]] = next],
         takers' \subseteq takers \cup {t}, takers \subseteq takers' \cup {t},
         takerFiles' \subseteq takerFiles \cup {t}, takerFiles \subseteq takerFiles' \cup {t},
         \A x \in Takers \ {t} : chosen'[x] = chosen[x] /\ takerSaved'[x] = takerSaved[x],
         sleeping' \in [Takers -> BOOLEAN],
         \A x \in Takers \ {t} : SamePending(x),
         faults = 0 /\ faults' = 0 => FitTaker(t)' /\ PendingFit(t)',
         faults = 0 /\ faults' = 0 => \A d \in takerSwaps : d.t = t => KeepsChoice(d)'
  PROVE  ChoiceInv'
<1>1. faults' \in Nat /\ (faults' = 0 => faults = 0)
  BY SMT DEF ChoiceInv
<1>2. task[owner[t]] # [op |-> "cancel_by"]
  <2>1. /\ Free.op # "cancel_by"
        /\ \A op \in Ops \cup {"save_maker", "announce"} : [op |-> op, t |-> t].op # "cancel_by"
    BY DEF Free, Ops
  <2>2. task[owner[t]].op # "cancel_by"
    BY Zenon, <2>1
  <2>. QED  BY SMT, <2>2
<1>3. \A n \in Nodes : n # owner[t] => task'[n] = task[n]
  BY DEF SoldInv, SoldTypeOK
<1>4. CancelledInv'
  BY <1>2, <1>3, CancelledStays
<1>5. ASSUME NEW x \in Takers \ {t}
      PROVE  SameTaker(x)
  <2>1. \A op \in Ops : Doing(op, x)' <=> Doing(op, x)
    BY Zenon, OthersTask
  <2>. QED  BY <2>1 DEF SameTaker
<1>. QED  BY <1>1, <1>4, <1>5, ChoiceOne

\* What the holder of the mutex does to t once task says so.
LEMMA OwnTask ==
  ASSUME VolumeInv, SoldInv, NEW t \in Takers, owner' = owner, NEW next,
         task' = [task EXCEPT ![owner[t]] = next], NEW op
  PROVE  Doing(op, t)' <=> next = [op |-> op, t |-> t]
BY Zenon, OtherTask

LEMMA FreeDoesNothing ==
  /\ \A t : \A op \in Ops : Free # [op |-> op, t |-> t]
  /\ \A op1, op2, t : [op |-> op1, t |-> t] = [op |-> op2, t |-> t] => op1 = op2
BY DEF Free, Ops

\* A free mutex is held by nobody.
LEMMA NobodyDoes ==
  ASSUME NEW t, MutexFree(t), NEW op \in Ops
  PROVE  ~Doing(op, t)
BY FreeDoesNothing DEF MutexFree, Doing

\* lp_auto_buy.
LEMMA ChoiceBuy ==
  ASSUME VolumeInv, SoldInv, DealInv, ChoiceInv, NEW t \in Takers, UNCHANGED makerVars,
         LpAutoBuy(t) \/ SaveNewTakerOrder(t)
  PROVE  ChoiceInv'
<1>1. UNCHANGED <<owner, rpc, takerSwaps, chosen, takerSaved, pending, sleeping>>
  BY DEF makerVars, LpAutoBuy, SaveNewTakerOrder, takerMapVars, takerFileVars, pendingVars
<1>2. sleeping \in [Takers -> BOOLEAN] /\ faults \in Nat /\ \A x \in Takers : SamePending(x)
  BY <1>1 DEF ChoiceInv, SamePending
<1>3. ASSUME faults = 0
      PROVE  FitTaker(t) /\ PendingFit(t) /\ \A d \in takerSwaps : KeepsChoice(d)
  BY <1>3 DEF ChoiceInv
<1>4. CASE LpAutoBuy(t)
  <2>1. /\ task[owner[t]] = Free /\ MutexFree(t)
        /\ task' = [task EXCEPT ![owner[t]] = [op |-> "buy", t |-> t]]
        /\ agenda' = agenda \ {t} /\ t \in agenda
        /\ UNCHANGED <<takers, takerFiles, faults>>
    BY <1>4 DEF LpAutoBuy, MutexFree, Then, Issue, takerMapVars, takerFileVars
  <2>2. \A op \in Ops : (Doing(op, t)' <=> op = "buy") /\ ~Doing(op, t)
    <3>1. \A op \in Ops : ~Doing(op, t)
      BY <2>1, NobodyDoes
    <3>2. \A op \in Ops : Doing(op, t)' <=> [op |-> "buy", t |-> t] = [op |-> op, t |-> t]
      BY Zenon, <1>1, <2>1, OwnTask
    <3>. QED  BY Zenon, <3>1, <3>2, FreeDoesNothing
  <2>3. faults = 0 => FitTaker(t)' /\ PendingFit(t)'
    BY <1>1, <1>3, <2>1, <2>2 DEF FitTaker, PendingFit, Ops
  <2>4. faults = 0 => \A d \in takerSwaps : d.t # t
    BY <1>3, <2>1 DEF KeepsChoice
  <2>. QED  BY Zenon, <1>1, <1>2, <1>3, <2>1, <2>3, <2>4, ChoiceMutex
<1>5. CASE SaveNewTakerOrder(t)
  <2>1. /\ task[owner[t]] = [op |-> "buy", t |-> t] /\ Doing("buy", t)
        /\ task' = [task EXCEPT ![owner[t]] = Free]
        /\ UNCHANGED agenda
        /\ faults' \in {faults, faults + 1}
        /\ takers' \in {takers, takers \cup {t}} /\ takerFiles' \in {takerFiles, takerFiles \cup {t}}
        /\ faults' = faults => takers' = takers \cup {t} /\ takerFiles' = takerFiles \cup {t}
    BY SMT, <1>2, <1>5 DEF SaveNewTakerOrder, Doing, Unlock, NoFault, Fault
  <2>2. \A op \in Ops : ~Doing(op, t)'
    BY Zenon, <1>1, <2>1, OwnTask, FreeDoesNothing
  <2>3. faults = 0 /\ faults' = 0 => FitTaker(t)' /\ PendingFit(t)'
    BY <1>1, <1>3, <2>1, <2>2 DEF FitTaker, PendingFit, Ops
  <2>4. faults = 0 => \A d \in takerSwaps : d.t # t
    BY <1>3, <2>1 DEF KeepsChoice
  <2>5. "buy" \in Ops
    BY DEF Ops
  <2>. QED  BY Zenon, <1>1, <1>2, <1>3, <2>1, <2>3, <2>4, <2>5, ChoiceMutex
<1>. QED  BY <1>4, <1>5

\* The file of a taker order is updated or deleted.
LEMMA ChoiceFile ==
  ASSUME VolumeInv, SoldInv, DealInv, ChoiceInv, NEW t \in Takers, UNCHANGED makerVars,
         SaveTakerMatch(t) \/ DeleteMyTakerOrder(t)
  PROVE  ChoiceInv'
<1>1. /\ UNCHANGED <<owner, rpc, agenda, takerSwaps, takers, chosen, pending, sleeping>>
      /\ takerSaved \in [Takers -> SUBSET Reserved]
  BY DEF makerVars, SaveTakerMatch, DeleteMyTakerOrder, takerMapVars, pendingVars, DealInv, TakerMsgs
<1>2. sleeping \in [Takers -> BOOLEAN] /\ faults \in Nat /\ \A x \in Takers : SamePending(x)
  BY <1>1 DEF ChoiceInv, SamePending
<1>3. ASSUME faults = 0
      PROVE  FitTaker(t) /\ PendingFit(t) /\ \A d \in takerSwaps : KeepsChoice(d)
  BY <1>3 DEF ChoiceInv
<1>4. PICK op \in {"connect", "delete"} :
        /\ task[owner[t]] = [op |-> op, t |-> t] /\ Doing(op, t)
        /\ op = "connect" <=> SaveTakerMatch(t)
        /\ task' = [task EXCEPT ![owner[t]] = Free]
        /\ faults' \in {faults, faults + 1}
  <2>1. CASE SaveTakerMatch(t)
    BY <2>1 DEF SaveTakerMatch, Doing, Unlock, NoFault, Fault
  <2>2. CASE DeleteMyTakerOrder(t) /\ ~SaveTakerMatch(t)
    BY <2>2 DEF DeleteMyTakerOrder, Doing, Unlock, NoFault, Fault
  <2>. QED  BY <2>1, <2>2
<1>5. op \in Ops /\ \A x \in Ops : ~Doing(x, t)'
  <2>1. op \in Ops
    BY DEF Ops
  <2>2. \A x \in Ops : ~Doing(x, t)'
    BY Zenon, <1>1, <1>4, OwnTask, FreeDoesNothing
  <2>. QED  BY <2>1, <2>2
<1>6. /\ takerFiles' \in {takerFiles, takerFiles \cup {t}, takerFiles \ {t}}
      /\ \A x \in Takers \ {t} : takerSaved'[x] = takerSaved[x]
  BY <1>1 DEF SaveTakerMatch, DeleteMyTakerOrder, DeleteTakerFile, takerFileVars
<1>7. ASSUME faults = 0, faults' = 0
      PROVE  FitTaker(t)' /\ \A d \in takerSwaps : d.t = t => KeepsChoice(d)'
  <2>1. CASE op = "connect"
    <3>1. takerFiles' = takerFiles \cup {t} /\ takerSaved'[t] = chosen[t]
      BY SMT, <1>1, <1>4, <1>7, <2>1 DEF SaveTakerMatch, NoFault, Fault
    <3>2. FitTaker(t)'
      BY <1>1, <1>3, <1>4, <1>5, <1>7, <2>1, <3>1 DEF FitTaker, Ops
    <3>3. \A d \in takerSwaps : d.t # t
      BY <1>3, <1>4, <1>7, <2>1 DEF KeepsChoice
    <3>. QED  BY <3>2, <3>3
  <2>2. CASE op = "delete"
    <3>1. takerFiles' = takerFiles \ {t} /\ takerSaved'[t] = {}
      BY SMT, <1>1, <1>4, <1>7, <2>2 DEF DeleteMyTakerOrder, DeleteTakerFile, NoFault, Fault
    <3>2. t \notin takers /\ chosen[t] = {}
      BY <1>3, <1>4, <1>7, <2>2 DEF FitTaker
    <3>3. FitTaker(t)'
      BY <1>1, <1>5, <3>1, <3>2 DEF FitTaker, Ops
    <3>4. \A d \in takerSwaps : d.t = t => KeepsChoice(d)'
      BY <1>1, <1>3, <1>5, <1>7, <3>1, <3>2 DEF KeepsChoice, Ops
    <3>. QED  BY <3>3, <3>4
  <2>. QED  BY <1>4, <2>1, <2>2
<1>8. faults = 0 => PendingFit(t)'
  BY <1>1, <1>3, <1>5 DEF PendingFit, Ops
<1>. QED  BY Zenon, <1>1, <1>2, <1>4, <1>5, <1>6, <1>7, <1>8, ChoiceMutex

\* A reserved message arrives: there is a handler asleep, or this one will be.
LEMMA ChoiceArrives ==
  ASSUME VolumeInv, SoldInv, DealInv, ChoiceInv, NEW m \in msgs, MakerReservedArrives(m),
         m.t \in Takers, UNCHANGED makerVars
  PROVE  ChoiceInv'
<1>1. /\ UNCHANGED <<owner, agenda, faults, rpc, takerSwaps, takers, chosen, takerFiles, takerSaved, task>>
      /\ pending' = [pending EXCEPT ![m.t] = @ \cup {m}]
      /\ sleeping' = [sleeping EXCEPT ![m.t] = sleeping[m.t] \/ pending[m.t] = {}]
  BY DEF makerVars, MakerReservedArrives, takerMapVars, takerFileVars, envVars
<1>2. sleeping \in [Takers -> BOOLEAN] /\ pending \in [Takers -> SUBSET Reserved]
  BY DEF ChoiceInv, DealInv, TakerMsgs
<1>3. sleeping' \in [Takers -> BOOLEAN]
  BY <1>1, <1>2, Zenon
<1>4. \A x \in Takers : x # m.t => pending'[x] = pending[x] /\ sleeping'[x] = sleeping[x]
  BY <1>1, <1>2
<1>5. sleeping'[m.t] = (sleeping[m.t] \/ pending[m.t] = {})
  BY <1>1, <1>2
<1>6. faults = 0 => PendingFit(m.t)'
  <2>1. m.t \in takers
    BY DEF MakerReservedArrives
  <2>2. faults = 0 => sleeping'[m.t] /\ FitTaker(m.t)
    BY Zenon, <1>5, <2>1 DEF ChoiceInv, PendingFit
  <2>. QED  BY <1>1, <2>1, <2>2 DEF PendingFit, FitTaker, Doing
<1>7. \A x \in Takers \ {m.t} : SamePending(x)
  BY <1>4 DEF SamePending
<1>8. CancelledInv'
  BY <1>1 DEF ChoiceInv, CancelledInv
<1>9. \A x \in Takers : SameTaker(x)
  BY <1>1 DEF SameTaker, Doing
<1>10. faults = 0 => FitTaker(m.t)' /\ \A d \in takerSwaps : d.t = m.t => KeepsChoice(d)'
  BY <1>1, <1>9, SameTakerFits DEF ChoiceInv
<1>. QED  BY <1>1, <1>3, <1>6, <1>7, <1>8, <1>9, <1>10, ChoiceOne DEF ChoiceInv

\* The handler of reserved messages wakes up: only an order without a choice chooses.
LEMMA ChoiceReserved ==
  ASSUME VolumeInv, SoldInv, DealInv, ChoiceInv, NEW t \in Takers, ProcessMakerReserved(t),
         UNCHANGED makerVars
  PROVE  ChoiceInv'
<1>1. /\ UNCHANGED <<owner, rpc, agenda, takerSwaps, takers, takerFiles, takerSaved>>
      /\ faults' \in {faults, faults + 1}
      /\ MutexFree(t) /\ task[owner[t]] = Free
      /\ sleeping' = [sleeping EXCEPT ![t] = FALSE]
      /\ pending' \in {pending, [pending EXCEPT ![t] = {}]}
      /\ faults' = faults /\ t \in takers => pending' = [pending EXCEPT ![t] = {}]
      /\ faults \in Nat /\ pending \in [Takers -> SUBSET Reserved]
      /\ chosen \in [Takers -> SUBSET Reserved] /\ sleeping \in [Takers -> BOOLEAN]
  BY SMT DEF makerVars, ProcessMakerReserved, MutexFree, ClearPending, Fault, takerFileVars,
         DealInv, TakerMsgs, ChoiceInv
<1>2. sleeping' \in [Takers -> BOOLEAN]
  BY <1>1, Zenon
<1>3. /\ \A x \in Takers \ {t} : SamePending(x)
      /\ pending'[t] \in {pending[t], {}}
      /\ faults' = faults /\ t \in takers => pending'[t] = {}
  BY <1>1 DEF SamePending
<1>4. ASSUME faults = 0
      PROVE  FitTaker(t) /\ PendingFit(t) /\ \A d \in takerSwaps : KeepsChoice(d)
  BY <1>4 DEF ChoiceInv
<1>5. \A op \in Ops : ~Doing(op, t)
  BY <1>1, NobodyDoes
<1>6. CASE UNCHANGED <<chosen, task>>
  <2>1. task' = [task EXCEPT ![owner[t]] = Free]
    BY <1>1, <1>6 DEF SoldInv, SoldTypeOK, VolumeInv
  <2>2. SameTaker(t)
    BY <1>1, <1>6 DEF SameTaker, Doing
  <2>3. faults = 0 => FitTaker(t)' /\ \A d \in takerSwaps : d.t = t => KeepsChoice(d)'
    BY <1>1, <1>4, <2>2, SameTakerFits
  <2>4. faults = 0 /\ faults' = 0 => PendingFit(t)'
    BY <1>1, <1>3, <1>4, <2>2 DEF PendingFit, SameTaker, Ops
  <2>. QED  BY Zenon, <1>1, <1>2, <1>3, <1>6, <2>1, <2>3, <2>4, ChoiceMutex
<1>7. CASE /\ t \in takers /\ chosen[t] = {}
           /\ \E m : chosen' = [chosen EXCEPT ![t] = {m}]
           /\ task' = [task EXCEPT ![owner[t]] = [op |-> "connect", t |-> t]]
  <2>1. PICK m : chosen' = [chosen EXCEPT ![t] = {m}]
    BY Zenon, <1>7
  <2>2. chosen'[t] = {m} /\ \A x \in Takers \ {t} : chosen'[x] = chosen[x]
    BY <1>1, <2>1
  <2>3. \A op \in Ops : Doing(op, t)' <=> op = "connect"
    <3>1. \A op \in Ops : Doing(op, t)' <=> [op |-> "connect", t |-> t] = [op |-> op, t |-> t]
      BY Zenon, <1>1, <1>7, OwnTask
    <3>. QED  BY Zenon, <3>1, FreeDoesNothing
  <2>4. faults = 0 => FitTaker(t)'
    BY <1>1, <1>4, <1>5, <1>7, <2>2, <2>3 DEF FitTaker, Ops
  <2>5. faults = 0 => \A d \in takerSwaps : d.t # t
    BY <1>4, <1>7 DEF KeepsChoice, ChoiceOf
  <2>6. faults = 0 /\ faults' = 0 => PendingFit(t)'
    BY <1>1, <1>3, <1>7 DEF PendingFit
  <2>. QED  BY Zenon, <1>1, <1>2, <1>3, <1>7, <2>2, <2>4, <2>5, <2>6, ChoiceMutex
<1>. QED  BY Zenon, <1>6, <1>7 DEF ProcessMakerReserved, Then

\* A taker order leaves the map.
LEMMA ChoiceLeaves ==
  ASSUME VolumeInv, SoldInv, DealInv, ChoiceInv, NEW t \in Takers, UNCHANGED <<makerVars, owner>>,
         MutexFree(t), t \in takers, RemoveTaker({t}), UNCHANGED <<takerFileVars, pendingVars>>,
         NEW op \in {"delete", "to_maker"}, Then(op, t), UNCHANGED <<agenda, faults>>
  PROVE  /\ faults = 0 => FitTaker(t)' /\ PendingFit(t)'
         /\ faults = 0 => \A d \in takerSwaps : d.t = t => KeepsChoice(d)'
         /\ takerSwaps' = takerSwaps => ChoiceInv'
<1>1. /\ UNCHANGED <<rpc, takerFiles, takerSaved, pending, sleeping>>
      /\ takers' = takers \ {t}
      /\ task[owner[t]] = Free
      /\ task' = [task EXCEPT ![owner[t]] = [op |-> op, t |-> t]]
      /\ chosen'[t] = {} /\ \A x \in Takers \ {t} : chosen'[x] = chosen[x]
  BY DEF makerVars, takerFileVars, pendingVars, RemoveTaker, Then, MutexFree
<1>2. \A y \in Ops : Doing(y, t)' <=> y = op
  <2>1. \A y \in Ops : Doing(y, t)' <=> [op |-> op, t |-> t] = [op |-> y, t |-> t]
    BY Zenon, <1>1, OwnTask
  <2>. QED  BY Zenon, <2>1, FreeDoesNothing
<1>3. ASSUME faults = 0
      PROVE  /\ FitTaker(t)' /\ PendingFit(t)'
             /\ \A d \in takerSwaps : d.t = t => KeepsChoice(d)'
  <2>1. FitTaker(t) /\ PendingFit(t) /\ \A d \in takerSwaps : KeepsChoice(d)
    BY <1>3 DEF ChoiceInv
  <2>2. FitTaker(t)'
    BY <1>1, <1>2, <2>1 DEF FitTaker, Ops
  <2>3. \A d \in takerSwaps : d.t = t => KeepsChoice(d)'
    BY <1>1, <1>2, <2>1 DEF KeepsChoice, ChoiceOf, Ops
  <2>4. PendingFit(t)'
    BY <1>1, <1>2, <2>1 DEF PendingFit, Ops
  <2>. QED  BY <2>2, <2>3, <2>4
<1>4. ASSUME takerSwaps' = takerSwaps
      PROVE  ChoiceInv'
  <2>1. sleeping' \in [Takers -> BOOLEAN] /\ \A x \in Takers : SamePending(x)
    BY <1>1 DEF ChoiceInv, SamePending
  <2>. QED  BY Zenon, <1>1, <1>3, <1>4, <2>1, ChoiceMutex
<1>. QED  BY <1>3, <1>4

\* The swap that led to a choice is known by it.
LEMMA ChoiceOfOne ==
  ASSUME NEW d \in Deal, NEW e \in Deal, ChoiceOf(d) = ChoiceOf(e)
  PROVE  d = e
<1>1. ReservedMsg(d.o, d.t, d.base, d.rel) = ReservedMsg(e.o, e.t, e.base, e.rel)
  BY DEF ChoiceOf
<1>2. d.o = e.o /\ d.t = e.t /\ d.base = e.base /\ d.rel = e.rel
  BY <1>1 DEF ReservedMsg
<1>. QED  BY SMT, <1>2 DEF Deal

\* process_maker_connected: what is in the file when the swap is started is the choice that led
\* to it, so it is the only one the order will ever have.
LEMMA ChoiceConnected ==
  ASSUME VolumeInv, SoldInv, DealInv, ChoiceInv, NEW o \in Orders, NEW t \in Takers,
         ProcessMakerConnected(o, t), UNCHANGED makerVars
  PROVE  ChoiceInv'
<1>1. PICK m \in chosen[t] :
        /\ m.o = o
        /\ takerSwaps' = takerSwaps \cup {[o |-> o, t |-> t, base |-> m.base, rel |-> m.rel]}
  BY DEF ProcessMakerConnected, ConnectedAlice, IsChosen
<1>2. /\ UNCHANGED <<makerVars, owner, agenda, faults, takerFileVars, pendingVars>>
      /\ MutexFree(t) /\ t \in takers /\ RemoveTaker({t}) /\ Then("delete", t)
  BY DEF ProcessMakerConnected, envVars
<1>. DEFINE d == [o |-> o, t |-> t, base |-> m.base, rel |-> m.rel]
<1>3. m \in Reserved /\ m.t = t
  BY DEF DealInv, TakerMsgs, Kept
<1>4. d \in Deal /\ d.t = t /\ ChoiceOf(d) = {m}
  BY <1>1, <1>3, Kinds DEF Deal, Reserved, ChoiceOf
<1>5. takerSwaps' = takerSwaps \cup {d}
  BY <1>1
<1>. HIDE DEF d
<1>6. takerSwaps' \subseteq Deal /\ takerSwaps \subseteq Deal
  BY <1>4, <1>5 DEF ChoiceInv
<1>7. /\ UNCHANGED <<rpc, takerFiles, takerSaved, pending, sleeping>>
      /\ task[owner[t]] = Free
      /\ task' = [task EXCEPT ![owner[t]] = [op |-> "delete", t |-> t]]
      /\ \A x \in Takers \ {t} : chosen'[x] = chosen[x]
      /\ takers' = takers \ {t}
  BY <1>2 DEF makerVars, takerFileVars, pendingVars, RemoveTaker, Then, MutexFree
<1>8. \A n \in Nodes : n # owner[t] => task'[n] = task[n]
  BY <1>7 DEF SoldInv, SoldTypeOK
<1>9. CancelledInv'
  <2>1. task[owner[t]] # [op |-> "cancel_by"]
    BY SMT, <1>7 DEF Free
  <2>. QED  BY <1>2, <1>7, <1>8, <2>1, CancelledStays
<1>10. ASSUME NEW x \in Takers \ {t}
       PROVE  SameTaker(x)
  <2>1. \A op \in Ops : Doing(op, x)' <=> Doing(op, x)
    BY Zenon, <1>2, <1>7, OthersTask
  <2>. QED  BY <1>7, <2>1 DEF SameTaker
<1>11. ASSUME faults = 0
       PROVE  /\ \A x \in Takers : FitTaker(x)' /\ PendingFit(x)'
              /\ \A e \in takerSwaps' : KeepsChoice(e)'
              /\ \A e, f \in takerSwaps' : e.t = f.t => e = f
  <2>1. /\ \A x \in Takers : FitTaker(x) /\ PendingFit(x)
        /\ \A e \in takerSwaps : KeepsChoice(e)
        /\ \A e, f \in takerSwaps : e.t = f.t => e = f
    BY <1>11 DEF ChoiceInv
  <2>2. /\ t \notin agenda /\ t \in takerFiles
        /\ takerSaved[t] = chosen[t] /\ chosen[t] = {m}
    <3>1. ~Doing("connect", t)
      BY <1>2, NobodyDoes DEF Ops
    <3>2. FitTaker(t) /\ t \in takers
      BY <1>2, <2>1
    <3>. QED  BY <3>1, <3>2 DEF FitTaker
  <2>3. \A e \in takerSwaps : e.t = t => e = d
    <3>1. \A e \in takerSwaps : e.t = t => ChoiceOf(e) = ChoiceOf(d)
      BY <1>2, <1>4, <2>1, <2>2 DEF KeepsChoice
    <3>. QED  BY <1>4, <1>6, <3>1, ChoiceOfOne
  <2>4. FitTaker(t)' /\ PendingFit(t)'
    BY <1>2, <1>11, ChoiceLeaves
  <2>5. \A x \in Takers : FitTaker(x)' /\ PendingFit(x)'
    <3>1. \A x \in Takers \ {t} : SamePending(x)
      BY <1>7 DEF SamePending
    <3>. QED  BY <1>2, <1>10, <2>1, <2>4, <3>1, SameTakerFits, SamePendingFits
  <2>6. KeepsChoice(d)'
    <3>1. \A y \in Ops : Doing(y, t)' <=> y = "delete"
      <4>1. \A y \in Ops : Doing(y, t)' <=> [op |-> "delete", t |-> t] = [op |-> y, t |-> t]
        BY Zenon, <1>2, <1>7, OwnTask
      <4>. QED  BY Zenon, <4>1, FreeDoesNothing
    <3>2. d' = d
      BY <1>1 DEF d
    <3>. QED  BY <1>2, <1>4, <1>7, <2>2, <3>1, <3>2 DEF KeepsChoice, Ops
  <2>7. \A e \in takerSwaps : e.t # t => KeepsChoice(e)'
    BY <1>2, <1>6, <1>10, <2>1, SameTakerFits DEF Deal
  <2>. QED  BY <1>4, <1>5, <2>1, <2>3, <2>5, <2>6, <2>7
<1>12. sleeping' \in [Takers -> BOOLEAN] /\ faults' \in Nat
  BY <1>2, <1>7 DEF ChoiceInv
<1>. QED  BY <1>2, <1>6, <1>9, <1>11, <1>12 DEF ChoiceInv

\* Every step of the taker side.
LEMMA ChoiceTaker ==
  ASSUME VolumeInv, SoldInv, DealInv, ChoiceInv, NEW t \in Takers, TakerStep(t), UNCHANGED makerVars
  PROVE  ChoiceInv'
<1>1. CASE HandleTimedOutTakerOrder(t)
  BY <1>1, ChoiceLeaves DEF HandleTimedOutTakerOrder, MayTimeOutTaker, envVars
<1>2. CASE CancelTakerOrder(t)
  BY <1>2, ChoiceLeaves DEF CancelTakerOrder
<1>. QED
  BY <1>1, <1>2, ChoiceBuy, ChoiceFile, ChoiceArrives, ChoiceReserved, ChoiceConnected
  DEF TakerStep, TakerTaskStep

\* The conversion of a taker order, which is not in the map any more.
LEMMA ChoiceConversion ==
  ASSUME VolumeInv, SoldInv, DealInv, ChoiceInv, NEW t \in Takers, ConversionStep(t)
  PROVE  ChoiceInv'
<1>1. /\ UNCHANGED <<owner, rpc, agenda, takerSwaps, takers, chosen, pending, sleeping>>
      /\ faults' \in {faults, faults + 1}
      /\ faults \in Nat
      /\ takerSaved \in [Takers -> SUBSET Reserved]
      /\ sleeping \in [Takers -> BOOLEAN]
  BY DEF ConversionStep, AddConvertedOrder, SaveConvertedOrder, AnnounceConvertedOrder, NoFault, Fault,
         mapVars, takerMapVars, pendingVars, DealInv, TakerMsgs, ChoiceInv
<1>2. PICK op \in {"to_maker", "save_maker", "announce"},
           next \in {[op |-> "save_maker", t |-> t], [op |-> "announce", t |-> t], Free} :
        /\ task[owner[t]] = [op |-> op, t |-> t]
        /\ task' = [task EXCEPT ![owner[t]] = next]
        /\ \/ UNCHANGED <<takerFiles, takerSaved>>
           \/ op = "to_maker" /\ DeleteTakerFile(t)
  <2>1. CASE AddConvertedOrder(t)
    BY <2>1 DEF AddConvertedOrder, Doing, Then, takerFileVars
  <2>2. CASE SaveConvertedOrder(t)
    BY <2>2 DEF SaveConvertedOrder, Doing, Then, takerFileVars
  <2>3. CASE AnnounceConvertedOrder(t)
    BY <2>3 DEF AnnounceConvertedOrder, Doing, Unlock, takerFileVars
  <2>. QED  BY <2>1, <2>2, <2>3 DEF ConversionStep
<1>3. /\ takerFiles' \in {takerFiles, takerFiles \ {t}}
      /\ \A x \in Takers \ {t} : takerSaved'[x] = takerSaved[x]
      /\ UNCHANGED <<takerFiles, takerSaved>> \/ (t \notin takerFiles' /\ takerSaved'[t] = {} /\ op = "to_maker")
  BY <1>1, <1>2 DEF DeleteTakerFile
<1>4. \A x \in Ops : ~Doing(x, t)'
  <2>1. \A x \in Ops : next # [op |-> x, t |-> t]
    BY SMT DEF Free, Ops
  <2>. QED  BY Zenon, <1>1, <1>2, <2>1, OwnTask
<1>5. \A x \in Ops : Doing(x, t) <=> x = op
  BY <1>2, FreeDoesNothing DEF Doing
<1>6. ASSUME faults = 0
      PROVE  /\ FitTaker(t)' /\ PendingFit(t)'
             /\ \A d \in takerSwaps : d.t = t => KeepsChoice(d)'
  <2>1. FitTaker(t) /\ PendingFit(t) /\ \A d \in takerSwaps : KeepsChoice(d)
    BY <1>6 DEF ChoiceInv
  <2>2. op = "to_maker" => Doing("to_maker", t) /\ t \notin takers
    BY <1>5, <2>1 DEF FitTaker, Ops
  <2>3. ~Doing("connect", t) /\ ~Doing("connect", t)' /\ ~Doing("buy", t)' /\ ~Doing("delete", t)'
        /\ ~Doing("to_maker", t)'
    BY <1>4, <1>5 DEF Ops
  <2>4. FitTaker(t)'
    BY <1>1, <1>3, <2>1, <2>2, <2>3 DEF FitTaker
  <2>5. \A d \in takerSwaps : d.t = t => KeepsChoice(d)'
    BY <1>1, <1>3, <2>1, <2>3 DEF KeepsChoice, ChoiceOf
  <2>6. PendingFit(t)'
    BY <1>1, <2>1, <2>3 DEF PendingFit
  <2>. QED  BY <2>4, <2>5, <2>6
<1>7. /\ \A x \in Takers : SamePending(x)
      /\ op \in Ops \cup {"save_maker", "announce"}
      /\ next = Free \/ \E y : next = [op |-> y, t |-> t]
  BY <1>1 DEF SamePending, Ops
<1>. QED  BY Zenon, <1>1, <1>2, <1>3, <1>6, <1>7, ChoiceMutex

\* A node that is in cancel_orders_by does nothing else to its taker orders.
LEMMA CancelDoesNothing ==
  ASSUME NEW t, task[owner[t]] = [op |-> "cancel_by"] \/ task[owner[t]] = Free, NEW op \in Ops
  PROVE  ~Doing(op, t)
<1>1. [op |-> op, t |-> t].op \notin {"cancel_by", "free"}
  BY DEF Ops
<1>. QED  BY SMT, <1>1 DEF Doing, Free

\* cancel_orders_by, from the first lock to the last order.
LEMMA ChoiceCancelBy ==
  ASSUME VolumeInv, SoldInv, DealInv, ChoiceInv, NEW n \in Nodes, CancelOrdersBy(n) \/ CancelByStep(n)
  PROVE  ChoiceInv'
<1>1. /\ UNCHANGED <<owner, agenda, takerSwaps, pending, sleeping>>
      /\ rpc \in [Nodes -> FitTask] /\ task \in [Nodes -> TakerTask] /\ owner \in [Orders -> Nodes]
      /\ takerSaved \in [Takers -> SUBSET Reserved] /\ chosen \in [Takers -> SUBSET Reserved]
      /\ takers \subseteq Takers /\ CancelledInv
  BY Zenon DEF CancelOrdersBy, CancelByStep, TestCancellable, RemoveCancelled, DeleteCancelled, takerVars,
         pendingVars, envVars, VolumeInv, SoldInv, SoldTypeOK, DealInv, TakerMsgs, ChoiceInv
<1>0. faults' = faults \/ faults' = faults + 1
  BY Zenon DEF CancelOrdersBy, CancelByStep, TestCancellable, RemoveCancelled, DeleteCancelled, envVars,
         NoFault, Fault
<1>2. /\ sleeping' \in [Takers -> BOOLEAN] /\ faults' \in Nat /\ agenda' \subseteq agenda
      /\ faults' = 0 => faults = 0
      /\ \A x \in Takers : SamePending(x)
      /\ faults = 0 => /\ \A x \in Takers : FitTaker(x) /\ PendingFit(x)
                       /\ \A d \in takerSwaps : KeepsChoice(d)
      /\ takerSwaps \subseteq Deal
  BY SMT, <1>0, <1>1 DEF ChoiceInv, SamePending
<1>3. Idle.op = "idle"
  BY DEF Idle
<1>4. CASE CancelOrdersBy(n)
  <2>1. /\ rpc' = [rpc EXCEPT ![n] = [op |-> "cancel_by", left |-> orders \cap Own(n), chosen |-> {}]]
        /\ task[n] = Free /\ task' = [task EXCEPT ![n] = [op |-> "cancel_by"]]
        /\ UNCHANGED <<takers, chosen, takerFiles, takerSaved>>
    BY <1>4 DEF CancelOrdersBy, takerMapVars, takerFileVars
  <2>2. /\ rpc'[n].op = "cancel_by" /\ task'[n] = [op |-> "cancel_by"]
        /\ \A m \in Nodes \ {n} : rpc'[m] = rpc[m] /\ task'[m] = task[m]
    BY <1>1, <2>1
  <2>3. CancelledInv'
    BY <1>1, <2>1, <2>2 DEF CancelledInv
  <2>4. ASSUME NEW x \in Takers PROVE SameTaker(x)
    <3>1. \A op \in Ops : Doing(op, x)' <=> Doing(op, x)
      <4>1. CASE owner[x] = n
        <5>1. \A op \in Ops : ~Doing(op, x)
          BY <2>1, <4>1, CancelDoesNothing
        <5>2. \A op \in Ops : [op |-> "cancel_by"] # [op |-> op, t |-> x]
          BY DEF Ops
        <5>3. \A op \in Ops : ~Doing(op, x)'
          BY <1>1, <2>2, <4>1, <5>2 DEF Doing
        <5>. QED  BY <5>1, <5>3
      <4>2. CASE owner[x] # n
        BY <1>1, <2>2, <4>2 DEF Doing, Orders
      <4>. QED  BY <4>1, <4>2
    <3>. QED  BY <2>1, <3>1 DEF SameTaker
  <2>. QED  BY <1>1, <1>2, <2>3, <2>4, ChoiceSame
<1>5. ASSUME NEW o \in Orders, TestCancellable(n, o)
      PROVE  ChoiceInv'
  <2>1. /\ rpc[n].op = "cancel_by"
        /\ rpc' = [rpc EXCEPT ![n] = [rpc[n] EXCEPT !.left = @ \ {o},
                     !.chosen = IF IsCancellable(order[o]) THEN @ \cup {o} ELSE @]]
        /\ UNCHANGED <<takers, chosen, takerFiles, takerSaved, task>>
    BY Zenon, <1>1, <1>5 DEF TestCancellable, takerVars, takerMapVars, takerFileVars
  <2>2. rpc'[n].op = "cancel_by" /\ \A m \in Nodes \ {n} : rpc'[m] = rpc[m]
    BY <1>1, <2>1 DEF FitTask, Idle
  <2>3. CancelledInv'
    BY <1>1, <2>1, <2>2 DEF CancelledInv
  <2>4. \A x \in Takers : SameTaker(x)
    BY <1>1, <2>1 DEF SameTaker, Doing
  <2>. QED  BY <1>1, <1>2, <2>3, <2>4, ChoiceSame
<1>6. CASE RemoveCancelled(n)
  <2>. DEFINE mine == {t \in takers \cap Own(n) : chosen[t] = {}}
  <2>1. /\ rpc[n].op = "cancel_by"
        /\ takers' = takers \ mine
        /\ chosen' = [t \in Takers |-> IF t \in mine THEN {} ELSE chosen[t]]
        /\ rpc' = [rpc EXCEPT ![n] = [op |-> "cancelled_by", chosen |-> rpc[n].chosen, takers |-> mine]]
        /\ UNCHANGED <<takerFiles, takerSaved, task>>
    BY <1>6 DEF RemoveCancelled, RemoveTaker, takerFileVars
  <2>2. /\ rpc'[n].op = "cancelled_by" /\ rpc'[n].takers = mine
        /\ \A m \in Nodes \ {n} : rpc'[m] = rpc[m]
    BY <1>1, <2>1
  <2>3. PICK S \in SUBSET Takers : S = mine /\ \A t \in S : owner[t] = n
    <3>1. mine \in SUBSET Takers /\ \A t \in mine : owner[t] = n
      BY <1>1 DEF Own
    <3>. QED  BY Zenon, <3>1
  <2>4. CancelledInv'
    BY <1>1, <2>1, <2>2, <2>3 DEF CancelledInv
  <2>5. \A x \in Takers \ S : SameTaker(x)
    BY <1>1, <2>1, <2>3 DEF SameTaker, Doing
  <2>6. \A t \in S, op \in Ops : ~Doing(op, t)'
    <3>1. task'[n] = [op |-> "cancel_by"]
      BY <1>1, <2>1 DEF CancelledInv
    <3>2. \A t : \A op \in Ops : [op |-> "cancel_by"] # [op |-> op, t |-> t]
      BY DEF Ops
    <3>. QED  BY Zenon, <1>1, <2>3, <3>1, <3>2 DEF Doing
  <2>7. \A t \in S : t \in takers /\ t \notin takers' /\ chosen'[t] = {}
    BY <1>1, <2>1, <2>3
  <2>. HIDE DEF mine
  <2>8. faults = 0 => \A t \in S : FitTaker(t)' /\ PendingFit(t)'
    BY <1>1, <1>2, <2>1, <2>6, <2>7 DEF FitTaker, PendingFit, Ops
  <2>9. faults = 0 => \A d \in takerSwaps : d.t \in S => KeepsChoice(d)'
    BY <1>1, <1>2, <2>1, <2>6, <2>7 DEF KeepsChoice, ChoiceOf, Ops
  <2>. QED  BY <1>1, <1>2, <2>4, <2>5, <2>8, <2>9, ChoiceSome
<1>7. CASE DeleteCancelled(n)
  <2>1. rpc[n].op = "cancelled_by" /\ UNCHANGED <<takers, chosen>>
    BY <1>7 DEF DeleteCancelled, takerMapVars
  <2>2. /\ task[n] = [op |-> "cancel_by"]
        /\ \A x \in rpc[n].takers : x \notin takers /\ owner[x] = n
    BY <1>1, <2>1 DEF CancelledInv
  <2>3. ASSUME NEW o \in rpc[n].chosen, rpc' = [rpc EXCEPT ![n].chosen = @ \ {o}],
               UNCHANGED <<takerFiles, takerSaved, task>>
        PROVE  ChoiceInv'
    <3>1. rpc' = [rpc EXCEPT ![n] = [rpc[n] EXCEPT !.chosen = @ \ {o}]]
      BY <1>1, <2>3
    <3>2. /\ rpc'[n].op = "cancelled_by" /\ rpc'[n].takers = rpc[n].takers
          /\ \A m \in Nodes \ {n} : rpc'[m] = rpc[m]
      BY <1>1, <2>1, <3>1 DEF FitTask, Idle
    <3>3. CancelledInv'
      BY <1>1, <2>1, <2>3, <3>2 DEF CancelledInv
    <3>4. \A x \in Takers : SameTaker(x)
      BY <1>1, <2>1, <2>3 DEF SameTaker, Doing
    <3>. QED  BY <1>1, <1>2, <3>3, <3>4, ChoiceSame
  <2>4. ASSUME NEW t \in rpc[n].takers, DeleteTakerFile(t), rpc' = [rpc EXCEPT ![n].takers = @ \ {t}],
               UNCHANGED task
        PROVE  ChoiceInv'
    <3>1. rpc' = [rpc EXCEPT ![n] = [rpc[n] EXCEPT !.takers = @ \ {t}]]
      BY <1>1, <2>4
    <3>2. /\ rpc'[n].op = "cancelled_by" /\ rpc'[n].takers = rpc[n].takers \ {t}
          /\ \A m \in Nodes \ {n} : rpc'[m] = rpc[m]
      BY SMT, <1>1, <2>1, <3>1 DEF FitTask, Idle
    <3>3. CancelledInv'
      BY <1>1, <2>1, <2>4, <3>2 DEF CancelledInv
    <3>4. PICK S \in SUBSET Takers : S = {t} \cap Takers
      BY Zenon
    <3>5. /\ takerFiles' = takerFiles \ {t}
          /\ \A x \in Takers : takerSaved'[x] = IF x = t THEN {} ELSE takerSaved[x]
      BY <1>1, <2>4 DEF DeleteTakerFile
    <3>6. \A x \in Takers \ S : SameTaker(x)
      BY <1>1, <2>1, <2>4, <3>4, <3>5 DEF SameTaker, Doing
    <3>7. \A x \in S, op \in Ops : ~Doing(op, x)'
      <4>1. \A op \in Ops : ~Doing(op, t)
        BY <2>2, CancelDoesNothing
      <4>. QED  BY <1>1, <2>4, <3>4, <4>1 DEF Doing
    <3>8. faults = 0 => \A x \in S : FitTaker(x)' /\ PendingFit(x)'
      BY SMT, <1>1, <1>2, <2>1, <2>2, <3>4, <3>5, <3>7 DEF FitTaker, PendingFit, Ops
    <3>9. faults = 0 => \A d \in takerSwaps : d.t \in S => KeepsChoice(d)'
      BY <1>1, <1>2, <2>1, <2>2, <3>4, <3>5, <3>7 DEF KeepsChoice, ChoiceOf, Ops
    <3>. QED  BY <1>1, <1>2, <3>3, <3>6, <3>8, <3>9, ChoiceSome
  <2>5. ASSUME NEW t \in rpc[n].takers, rpc' = [rpc EXCEPT ![n].takers = @ \ {t}],
               UNCHANGED <<takerFiles, takerSaved, task>>
        PROVE  ChoiceInv'
    <3>1. rpc' = [rpc EXCEPT ![n] = [rpc[n] EXCEPT !.takers = @ \ {t}]]
      BY <1>1, <2>5
    <3>2. /\ rpc'[n].op = "cancelled_by" /\ rpc'[n].takers = rpc[n].takers \ {t}
          /\ \A m \in Nodes \ {n} : rpc'[m] = rpc[m]
      BY SMT, <1>1, <2>1, <3>1 DEF FitTask, Idle
    <3>3. CancelledInv'
      BY <1>1, <2>1, <2>5, <3>2 DEF CancelledInv
    <3>4. \A x \in Takers : SameTaker(x)
      BY <1>1, <2>1, <2>5 DEF SameTaker, Doing
    <3>. QED  BY <1>1, <1>2, <3>3, <3>4, ChoiceSame
  <2>6. ASSUME rpc' = [rpc EXCEPT ![n] = Idle], task' = [task EXCEPT ![n] = Free],
               UNCHANGED <<takerFiles, takerSaved>>
        PROVE  ChoiceInv'
    <3>1. /\ rpc'[n] = Idle /\ task'[n] = Free
          /\ \A m \in Nodes \ {n} : rpc'[m] = rpc[m] /\ task'[m] = task[m]
      BY <1>1, <2>6
    <3>2. CancelledInv'
      BY <1>1, <1>3, <2>1, <3>1 DEF CancelledInv
    <3>3. ASSUME NEW x \in Takers PROVE SameTaker(x)
      <4>1. CASE owner[x] = n
        <5>1. \A op \in Ops : ~Doing(op, x)
          BY <2>2, <4>1, CancelDoesNothing
        <5>2. \A op \in Ops : ~Doing(op, x)'
          BY <1>1, <3>1, <4>1, FreeDoesNothing DEF Doing
        <5>. QED  BY <2>1, <2>6, <5>1, <5>2 DEF SameTaker
      <4>2. CASE owner[x] # n
        BY <1>1, <2>1, <2>6, <3>1, <4>2 DEF SameTaker, Doing, Orders
      <4>. QED  BY <4>1, <4>2
    <3>. QED  BY <1>1, <1>2, <3>2, <3>3, ChoiceSame
  <2>. QED  BY <1>7, <2>3, <2>4, <2>5, <2>6 DEF DeleteCancelled, takerFileVars
<1>. QED  BY <1>4, <1>5, <1>6, <1>7 DEF CancelByStep

\* A restart: memory becomes what the file has, and the file has the choice of every swap.
LEMMA ChoiceRestart ==
  ASSUME VolumeInv, SoldInv, DealInv, ChoiceInv, NEW n \in Nodes, Restart(n)
  PROVE  ChoiceInv'
<1>1. /\ UNCHANGED <<owner, agenda, faults, takerSwaps, takerFiles, takerSaved>>
      /\ rpc' = [rpc EXCEPT ![n] = Idle]
      /\ task' = [task EXCEPT ![n] = Free]
      /\ takers' = (takers \ Own(n)) \cup (takerFiles \cap Own(n))
      /\ chosen' = [t \in Takers |-> IF t \in Own(n) THEN takerSaved[t] ELSE chosen[t]]
      /\ pending' = [t \in Takers |-> IF t \in Own(n) THEN {} ELSE pending[t]]
      /\ sleeping' = [t \in Takers |-> sleeping[t] /\ t \notin Own(n)]
  BY DEF Restart, MakerRestart, TakerRestart, takerFileVars
<1>2. /\ rpc \in [Nodes -> FitTask] /\ task \in [Nodes -> TakerTask] /\ owner \in [Orders -> Nodes]
      /\ takers \subseteq Takers /\ takerFiles \subseteq Takers /\ CancelledInv /\ faults \in Nat
  BY DEF VolumeInv, SoldInv, SoldTypeOK, ChoiceInv
<1>3. PICK S \in SUBSET Takers : S = Own(n) \cap Takers
  BY Zenon
<1>4. \A x \in Takers : x \in S <=> owner[x] = n
  BY <1>3 DEF Own, Orders
<1>5. /\ rpc'[n] = Idle /\ task'[n] = Free
      /\ \A m \in Nodes \ {n} : rpc'[m] = rpc[m] /\ task'[m] = task[m]
  BY <1>1, <1>2
<1>6. /\ \A x \in S : x \in takers' <=> x \in takerFiles
      /\ \A x \in S : chosen'[x] = takerSaved[x] /\ pending'[x] = {}
      /\ \A x \in Takers \ S : /\ x \in takers' <=> x \in takers
                               /\ chosen'[x] = chosen[x] /\ pending'[x] = pending[x]
  BY <1>1, <1>2, <1>3
<1>7. sleeping' \in [Takers -> BOOLEAN]
  BY <1>1, Zenon
<1>8. \A x \in Takers \ S : SamePending(x)
  <2>1. \A x \in Takers \ S : sleeping[x] => sleeping'[x]
    BY Zenon, <1>1, <1>3
  <2>. QED  BY <1>6, <2>1 DEF SamePending
<1>9. CancelledInv'
  <2>1. ASSUME NEW m \in Nodes, rpc'[m].op \in {"cancel_by", "cancelled_by"}
        PROVE  m # n /\ rpc'[m] = rpc[m] /\ task'[m] = [op |-> "cancel_by"]
    <3>1. m # n
      BY SMT, <1>5, <2>1 DEF Idle
    <3>. QED  BY <1>2, <1>5, <2>1, <3>1 DEF CancelledInv
  <2>2. ASSUME NEW m \in Nodes, rpc'[m].op = "cancelled_by"
        PROVE  rpc'[m].takers \cap takers' = {} /\ \A t \in rpc'[m].takers : owner[t] = m
    <3>1. m # n /\ rpc'[m] = rpc[m]
      BY <2>1, <2>2
    <3>2. rpc[m].takers \cap takers = {} /\ \A t \in rpc[m].takers : owner[t] = m
      BY <1>2, <2>2, <3>1 DEF CancelledInv
    <3>3. \A t \in takers' : t \in takers \/ owner[t] = n
      BY <1>1 DEF Own
    <3>. QED  BY SMT, <3>1, <3>2, <3>3
  <2>. QED  BY <1>1, <2>1, <2>2 DEF CancelledInv
<1>10. ASSUME NEW x \in Takers \ S
       PROVE  SameTaker(x)
  <2>1. owner[x] # n /\ owner[x] \in Nodes
    BY <1>2, <1>4 DEF Orders
  <2>2. \A op \in Ops : Doing(op, x)' <=> Doing(op, x)
    BY <1>1, <1>5, <2>1 DEF Doing
  <2>. QED  BY <1>1, <1>6, <2>2 DEF SameTaker
<1>11. \A x \in S, op \in Ops : ~Doing(op, x)'
  BY <1>1, <1>4, <1>5, FreeDoesNothing DEF Doing
<1>12. ASSUME faults = 0
       PROVE  /\ \A x \in S : FitTaker(x)' /\ PendingFit(x)'
              /\ \A d \in takerSwaps : d.t \in S => KeepsChoice(d)'
  <2>1. /\ \A x \in Takers : FitTaker(x)
        /\ \A d \in takerSwaps : KeepsChoice(d)
    BY <1>12 DEF ChoiceInv
  <2>2. \A x \in S : FitTaker(x)'
    BY SMTT(30), <1>1, <1>6, <1>11, <2>1 DEF FitTaker, Ops
  <2>3. \A d \in takerSwaps : d.t \in S => KeepsChoice(d)'
    BY <1>1, <1>6, <1>11, <2>1 DEF KeepsChoice, ChoiceOf, Ops
  <2>4. \A x \in S : PendingFit(x)'
    BY <1>6 DEF PendingFit
  <2>. QED  BY <2>2, <2>3, <2>4
<1>. QED  BY <1>1, <1>2, <1>7, <1>8, <1>9, <1>10, <1>12, ChoiceSome

\* Every step keeps what the taker's swap rests on.
LEMMA ChoiceNext ==
  ASSUME VolumeInv, SoldInv, DealInv, ChoiceInv, [Next]_vars
  PROVE  ChoiceInv'
<1>1. ASSUME UNCHANGED <<owner, takerSwaps, takers, chosen, takerFiles, takerSaved, pending, sleeping, task>>,
             agenda' \subseteq agenda, faults' \in {faults, faults + 1},
             \A n \in Nodes : rpc'[n] = rpc[n] \/ rpc'[n].op \notin {"cancel_by", "cancelled_by"}
      PROVE  ChoiceInv'
  <2>1. /\ sleeping' \in [Takers -> BOOLEAN]
        /\ faults' \in Nat
        /\ faults' = 0 => faults = 0
        /\ \A x \in Takers : SamePending(x)
    BY SMT, <1>1 DEF ChoiceInv, SamePending
  <2>2. CancelledInv'
    BY <1>1 DEF ChoiceInv, CancelledInv
  <2>3. \A x \in Takers : SameTaker(x)
    BY <1>1 DEF SameTaker, Doing
  <2>. QED  BY <1>1, <2>1, <2>2, <2>3, ChoiceSame
<1>2. UNCHANGED takerVars =>
        UNCHANGED <<takerSwaps, takers, chosen, takerFiles, takerSaved, pending, sleeping, task>>
  BY DEF takerVars, takerMapVars, takerFileVars, pendingVars
<1>3. CASE UNCHANGED vars
  <2>1. UNCHANGED <<owner, agenda, faults, rpc, takerVars>>
    BY <1>3 DEF vars, envVars, makerVars
  <2>. QED  BY <1>1, <1>2, <2>1
<1>4. CASE MakerStep /\ UNCHANGED takerVars
  <2>1. /\ owner' = owner /\ agenda' \subseteq agenda /\ faults' \in {faults, faults + 1}
        /\ \A n \in Nodes : rpc'[n] = rpc[n] \/ rpc'[n].op \notin {"cancel_by", "cancelled_by"}
    BY <1>4, MakerFrame
  <2>. QED  BY <1>1, <1>2, <1>4, <2>1
<1>5. CASE BothStep
  BY <1>5, ChoiceConversion, ChoiceCancelBy, ChoiceRestart DEF BothStep
<1>. QED  BY <1>3, <1>4, <1>5, ChoiceTaker DEF Next

-----------------------------------------------------------------------------
(* New orders.                                                             *)

\* setprice puts a whole order in the map.
LEMMA NewOrderType ==
  ASSUME NEW o \in Makers
  PROVE  NewOrder(Ask[o]) \in MakerOrder
BY SMT, OrdersAssumption DEF NewOrder, MakerOrder, Match, NoMatch

\* So does the conversion of a taker order.
LEMMA FromTakerType ==
  ASSUME NEW t \in Takers
  PROVE  FromTaker(t) \in MakerOrder
<1>1. Request[t].base \in Nat \ {0} /\ Request[t].rel \in Nat \ {0}
  BY SMT, OrdersAssumption
<1>2. PICK ask : FromTaker(t) = NewOrder(ask) /\ ask \in [max : Nat, price : Price]
  BY SMT, <1>1 DEF FromTaker, Price
<1>. QED  BY SMT, <1>2 DEF NewOrder, MakerOrder, Match, NoMatch

-----------------------------------------------------------------------------
(* The maker's swaps.                                                      *)

\* What a step has to leave alone so that the swaps started stay counted: every
\* step but a connect, a restart and the two that put a new order in the map.
SoldStays ==
  /\ UNCHANGED <<owner, crashed, makerSwaps, again>>
  /\ orders' \subseteq orders
  /\ \A h \in held' : h \in held \/ h.o \in orders
  /\ \A o \in Orders, t \in Takers :
       Live(o) /\ order[o].matches[t].status = "connected"
         => order'[o].matches[t] = order[o].matches[t]
  /\ \A o \in Orders : Unborn(o)' => Unborn(o)
  /\ \A o \in Orders : Updating(o)' => Updating(o) \/ o \in orders

\* Such a step keeps what the swaps rest on.
LEMMA SoldKeeps ==
  ASSUME SoldInv, SoldStays, SoldTypeOK', OneWayInv', OwnCalls', UpdateInv', AnnounceInv'
  PROVE  SoldInv'
<1>1. SoldIsCounted'
  BY SMT DEF SoldInv, SoldStays, SoldIsCounted, SoldTypeOK, Deal, Live
<1>2. StartedOnce'
  BY DEF SoldInv, SoldStays, StartedOnce
<1>3. UnbornInv'
  BY DEF SoldInv, SoldStays, UnbornInv, Live
<1>. QED  BY <1>1, <1>2, <1>3 DEF SoldInv

\* What the steps on one maker order have in common.
OrderStays ==
  /\ UNCHANGED <<owner, crashed, agenda, rpc, makerSwaps, again, takers, takerFiles, task>>
  /\ orders' \subseteq orders
  /\ \A h \in held' : h \in held \/ h.o \in orders
  /\ \A o \in Orders, t \in Takers :
       order[o].matches[t].status = "connected" => order'[o].matches[t] = order[o].matches[t]
  /\ \A o \in Orders : lock[o] = "update" => lock'[o] = "update" /\ order'[o].matches = order[o].matches

\* A step on one maker order, by whoever has its mutex.
LEMMA SoldOrder ==
  ASSUME VolumeInv, SoldInv, OrderStays, AnnounceInv',
         lock' \in [Orders -> {"free", "save", "delete", "update", "announce"}],
         loop' \in [Nodes -> LoopTask]
  PROVE  SoldInv'
<1>1. SoldTypeOK'
  BY DEF SoldInv, SoldTypeOK, OrderStays
<1>2. OneWayInv' /\ OwnCalls'
  BY SMT DEF SoldInv, OrderStays, OneWayInv, OwnCalls, Live, BeingSet, BeingTaken, Doing
<1>3. UpdateInv'
  <2>1. \A n \in Nodes : rpc[n].op = "updating" => rpc[n].o \in Orders
    BY SMT DEF VolumeInv, FitTask, Idle
  <2>. QED  BY <2>1 DEF SoldInv, OrderStays, UpdateInv
<1>4. SoldStays
  BY DEF OrderStays, SoldStays, Unborn, BeingSet, BeingTaken, Doing, Updating
<1>. QED  BY <1>1, <1>2, <1>3, <1>4, SoldKeeps

\* An order leaves the map.
LEMMA RemovedIsHeld ==
  ASSUME NEW os, RemoveOrders(os)
  PROVE  orders' \subseteq orders /\ \A h \in held' : h \in held \/ h.o \in orders
BY SMT DEF RemoveOrders

\* A step that has the mutex of o and neither waits to announce o nor ends that wait.
LEMMA SoldMutex ==
  ASSUME VolumeInv, SoldInv, NEW o \in Orders, OrderStays, UNCHANGED loop,
         \/ lock' = lock
         \/ /\ lock[o] \in {"free", "save", "delete"}
            /\ \E next \in {"free", "save", "delete"} : lock' = [lock EXCEPT ![o] = next]
  PROVE  SoldInv'
<1>1. lock' \in [Orders -> {"free", "save", "delete", "update", "announce"}]
  BY DEF SoldInv, SoldTypeOK
<1>2. AnnounceInv'
  BY DEF SoldInv, SoldTypeOK, AnnounceInv, OrderStays
<1>3. loop' \in [Nodes -> LoopTask]
  BY DEF SoldInv, SoldTypeOK
<1>. QED  BY <1>1, <1>2, <1>3, SoldOrder

\* The files that handlers write.
LEMMA SoldFiles ==
  ASSUME VolumeInv, SoldInv, NEW o \in Orders, Save(o) \/ Delete(o), UNCHANGED takerVars
  PROVE  SoldInv'
<1>1. OrderStays
  BY DEF OrderStays, Save, Delete, swapVars, takerVars, takerMapVars, takerFileVars,
         SoldInv, SoldTypeOK
<1>. QED  BY <1>1, SoldMutex DEF Save, Delete

\* process_taker_request.
LEMMA SoldRequest ==
  ASSUME VolumeInv, SoldInv, NEW o \in Orders, NEW t \in Takers, ProcessTakerRequest(o, t),
         UNCHANGED takerVars
  PROVE  SoldInv'
<1>1. PICK m : /\ order' = [order EXCEPT ![o].matches[t] = m]
               /\ order[o].matches[t].status = "none"
  BY Zenon DEF ProcessTakerRequest
<1>2. order[o] \in MakerOrder /\ order \in [Orders -> FitOrder]
  BY DEF VolumeInv, FitOrder
<1>3. /\ \A x \in Orders \ {o} : order'[x] = order[x]
      /\ \A x \in Takers \ {t} : order'[o].matches[x] = order[o].matches[x]
  BY <1>1, <1>2 DEF MakerOrder
<1>4. OrderStays
  BY <1>1, <1>3
  DEF OrderStays, ProcessTakerRequest, swapVars, takerVars, takerMapVars, takerFileVars,
      SoldInv, SoldTypeOK
<1>. QED  BY Zenon, <1>4, SoldMutex DEF ProcessTakerRequest

\* process_taker_connect: a swap is started on a match that is not connected, so it is
\* not a second one unless the match was lost in a restart.
LEMMA SoldConnect ==
  ASSUME VolumeInv, SoldInv, NEW o \in Orders, NEW t \in Takers, ProcessTakerConnect(o, t),
         UNCHANGED takerVars
  PROVE  SoldInv'
<1>. DEFINE m == order[o].matches[t]
            d == [o |-> o, t |-> t, base |-> m.base, rel |-> m.rel]
<1>1. order[o] \in MakerOrder /\ order \in [Orders -> FitOrder] /\ m \in Match
  BY DEF VolumeInv, FitOrder, MakerOrder
<1>2. /\ order' = [order EXCEPT ![o].matches[t].status = "connected"]
      /\ m.status = "reserved"
      /\ makerSwaps' = makerSwaps \cup {d}
      /\ again' = again \cup {<<e.o, e.t>> : e \in {e \in makerSwaps : e.o = o /\ e.t = t}}
      /\ lock[o] = "free" /\ lock' = [lock EXCEPT ![o] = "save"]
      /\ UNCHANGED <<owner, crashed, agenda, orders, held, rpc, loop>>
      /\ UNCHANGED <<takers, takerFiles, task>>
  BY DEF ProcessTakerConnect, MayConnect, StartBob, takerVars, takerMapVars, takerFileVars
<1>3. /\ \A x \in Orders \ {o} : order'[x] = order[x]
      /\ \A x \in Takers \ {t} : order'[o].matches[x] = order[o].matches[x]
      /\ order'[o].matches[t] = [status |-> "connected", base |-> m.base, rel |-> m.rel]
  BY <1>1, <1>2 DEF MakerOrder, Match
<1>4. d \in Deal
  BY <1>1 DEF Deal, Match
<1>. HIDE DEF d
<1>5. SoldTypeOK'
  BY SMT, <1>2, <1>4 DEF SoldInv, SoldTypeOK
<1>6. ASSUME NEW e \in makerSwaps, Live(o), e.o = o, e.t = t
      PROVE  FALSE
  <2>1. m = [status |-> "connected", base |-> e.base, rel |-> e.rel]
    BY <1>6 DEF SoldInv, SoldIsCounted, Live
  <2>2. m.status = "connected"
    BY SMT, <2>1
  <2>. QED  BY <1>2, <2>2
<1>7. SoldIsCounted'
  <2>1. ASSUME NEW e \in makerSwaps', Live(e.o)'
        PROVE  order'[e.o].matches[e.t] = [status |-> "connected", base |-> e.base, rel |-> e.rel]
    <3>1. CASE e = d
      BY <1>3, <3>1 DEF d
    <3>2. CASE e \in makerSwaps
      <4>1. /\ order[e.o].matches[e.t] = [status |-> "connected", base |-> e.base, rel |-> e.rel]
            /\ e.o \in Orders /\ e.t \in Takers
        BY <1>2, <2>1, <3>2 DEF SoldInv, SoldTypeOK, SoldIsCounted, Deal, Live
      <4>. QED  BY SMT, <1>2, <1>3, <4>1
    <3>. QED  BY <1>2, <3>1, <3>2
  <2>. QED  BY <2>1 DEF SoldIsCounted, Live
<1>8. StartedOnce'
  <2>1. ASSUME NEW p \in again' PROVE owner'[p[1]] \in crashed'
    <3>1. CASE p \in again
      BY <1>2, <3>1 DEF SoldInv, StartedOnce
    <3>2. ASSUME NEW e \in makerSwaps, e.o = o, e.t = t, p = <<e.o, e.t>>
          PROVE  owner'[p[1]] \in crashed'
      BY <1>2, <1>6, <3>2 DEF Live
    <3>. QED  BY <1>2, <3>1, <3>2
  <2>. QED  BY <2>1 DEF StartedOnce
<1>9. o \in orders \/ \E h \in held : h.o = o
  BY DEF ProcessTakerConnect, Reaches
<1>10. UnbornInv'
  <2>1. \A x \in Orders : (Live(x) /\ Unborn(x))' => Live(x) /\ Unborn(x) /\ x # o
    BY <1>2, <1>9 DEF SoldInv, UnbornInv, Unborn, BeingSet, BeingTaken, Doing, Live
  <2>2. d.o = o
    BY DEF d
  <2>. QED  BY <1>2, <2>1, <2>2 DEF SoldInv, UnbornInv, Updating
<1>11. OneWayInv' /\ OwnCalls'
  BY <1>2 DEF SoldInv, OneWayInv, OwnCalls, Live, BeingSet, BeingTaken, Doing
<1>12. UpdateInv'
  BY SMT, <1>2, <1>3 DEF SoldInv, SoldTypeOK, UpdateInv, VolumeInv
<1>13. AnnounceInv'
  BY <1>2 DEF SoldInv, SoldTypeOK, AnnounceInv
<1>. QED  BY <1>5, <1>7, <1>8, <1>10, <1>11, <1>12, <1>13 DEF SoldInv

\* The timeout of matches: only reserved ones are dropped.
LEMMA SoldTimeout ==
  ASSUME VolumeInv, SoldInv, NEW o \in Orders, NEW old \in SUBSET Takers,
         HandleTimedOutMakerMatches(o, old), UNCHANGED takerVars
  PROVE  SoldInv'
<1>1. order[o] \in MakerOrder /\ order \in [Orders -> FitOrder]
  BY DEF VolumeInv, FitOrder
<1>2. /\ \A x \in Orders \ {o} : order'[x] = order[x]
      /\ \A t \in Takers \ old : order'[o].matches[t] = order[o].matches[t]
      /\ \A t \in old : order[o].matches[t].status = "reserved"
  BY <1>1 DEF HandleTimedOutMakerMatches, MayTimeOut, MakerOrder
<1>3. OrderStays
  BY <1>2
  DEF OrderStays, HandleTimedOutMakerMatches, swapVars, takerVars, takerMapVars, takerFileVars,
      envVars, SoldInv, SoldTypeOK
<1>. QED  BY Zenon, <1>3, SoldMutex DEF HandleTimedOutMakerMatches

\* An order is removed and deleted by the holder of its mutex.
LEMMA SoldRemove ==
  ASSUME VolumeInv, SoldInv, NEW o \in Orders, lock[o] = "free", RemoveAndDelete(o),
         UNCHANGED <<owner, crashed, agenda, rpc, loop, swapVars, takerVars>>
  PROVE  SoldInv'
<1>1. OrderStays
  BY RemovedIsHeld
  DEF OrderStays, RemoveAndDelete, swapVars, takerVars, takerMapVars, takerFileVars,
      SoldInv, SoldTypeOK
<1>. QED  BY Zenon, <1>1, SoldMutex DEF RemoveAndDelete

\* balance_updated.
LEMMA SoldBalance ==
  ASSUME VolumeInv, SoldInv, NEW o \in Orders, NEW volume \in Balances,
         BalanceUpdated(o, volume), UNCHANGED takerVars
  PROVE  SoldInv'
<1>1. CASE RemoveAndDelete(o)
  BY <1>1, SoldRemove DEF BalanceUpdated
<1>2. CASE /\ order' = [order EXCEPT ![o] = CutTo(order[o], volume)]
           /\ UNCHANGED <<orders, held, lock>>
  <2>1. OrderStays
    BY Zenon, <1>2, CutMatches
    DEF OrderStays, BalanceUpdated, swapVars, takerVars, takerMapVars, takerFileVars
  <2>. QED  BY <1>2, <2>1, SoldMutex DEF BalanceUpdated
<1>. QED  BY <1>1, <1>2 DEF BalanceUpdated

\* lp_ordermatch_loop looks at an order missing from the own orderbook.
LEMMA SoldMissing ==
  ASSUME VolumeInv, SoldInv, NEW o \in Orders, NEW volume \in Balances,
         CheckMissingOrder(o, volume), UNCHANGED takerVars
  PROVE  SoldInv'
<1>1. owner \in [Orders -> Nodes] /\ owner' = owner
  BY DEF VolumeInv, CheckMissingOrder, envVars
<1>2. \A x \in Orders : order'[x].matches = order[x].matches
  BY SMT, CutMatches DEF CheckMissingOrder
<1>3. OrderStays
  BY <1>2
  DEF OrderStays, CheckMissingOrder, swapVars, takerVars, takerMapVars, takerFileVars,
      envVars, SoldInv, SoldTypeOK
<1>4. PICK op \in {"cancel", "announce"} :
        /\ loop' = [loop EXCEPT ![owner[o]] = [op |-> op, o |-> o]]
        /\ lock' = IF op = "announce" THEN [lock EXCEPT ![o] = "announce"] ELSE lock
  BY DEF CheckMissingOrder
<1>5. lock' \in [Orders -> {"free", "save", "delete", "update", "announce"}]
  BY <1>4 DEF SoldInv, SoldTypeOK
<1>6. loop' \in [Nodes -> LoopTask]
  BY <1>1, <1>4 DEF SoldInv, SoldTypeOK, LoopTask
<1>7. AnnounceInv'
  <2>1. ASSUME NEW x \in Orders, loop'[owner[x]] = [op |-> "announce", o |-> x]
        PROVE  lock'[x] = "announce"
    <3>1. CASE owner[x] = owner[o]
      <4>1. op = "announce" /\ x = o
        BY <1>1, <1>4, <2>1, <3>1 DEF SoldInv, SoldTypeOK
      <4>. QED  BY <1>4, <4>1 DEF SoldInv, SoldTypeOK
    <3>2. CASE owner[x] # owner[o]
      BY <1>1, <1>4, <2>1, <3>2 DEF SoldInv, SoldTypeOK, AnnounceInv
    <3>. QED  BY <3>1, <3>2
  <2>. QED  BY <1>1, <2>1 DEF AnnounceInv
<1>. QED  BY <1>3, <1>5, <1>6, <1>7, SoldOrder

\* lp_ordermatch_loop finishes with an order.
LEMMA SoldLoopTask ==
  ASSUME VolumeInv, SoldInv, NEW o \in Orders, LoopTaskStep(o), UNCHANGED takerVars
  PROVE  SoldInv'
<1>1. owner \in [Orders -> Nodes] /\ owner' = owner
  BY DEF VolumeInv, LoopTaskStep, AnnounceMissingOrder, CancelMissingOrder, DeleteMissingOrder,
         envVars
<1>2. PICK next \in {Idle, [op |-> "delete", o |-> o]} : loop' = [loop EXCEPT ![owner[o]] = next]
  BY DEF LoopTaskStep, AnnounceMissingOrder, CancelMissingOrder, DeleteMissingOrder
<1>3. loop' \in [Nodes -> LoopTask]
  BY SMT, <1>1, <1>2 DEF SoldInv, SoldTypeOK, LoopTask
<1>4. \/ lock' = lock
      \/ /\ lock[o] \in {"free", "announce"}
         /\ \E v \in {"free", "delete"} : lock' = [lock EXCEPT ![o] = v]
  BY DEF LoopTaskStep, AnnounceMissingOrder, CancelMissingOrder, DeleteMissingOrder,
         SoldInv, AnnounceInv
<1>5. lock' \in [Orders -> {"free", "save", "delete", "update", "announce"}]
  BY <1>4 DEF SoldInv, SoldTypeOK
<1>6. OrderStays
  BY <1>4, RemovedIsHeld
  DEF OrderStays, LoopTaskStep, AnnounceMissingOrder, CancelMissingOrder, DeleteMissingOrder,
      swapVars, takerVars, takerMapVars, takerFileVars, envVars, SoldInv, SoldTypeOK
<1>7. AnnounceInv'
  <2>1. ASSUME NEW x \in Orders, loop'[owner[x]] = [op |-> "announce", o |-> x]
        PROVE  lock'[x] = "announce"
    <3>1. next # [op |-> "announce", o |-> x]
      BY SMT DEF Idle
    <3>2. owner[x] # owner[o]
      BY <1>1, <1>2, <2>1, <3>1 DEF SoldInv, SoldTypeOK
    <3>. QED  BY <1>1, <1>2, <1>4, <2>1, <3>2 DEF SoldInv, SoldTypeOK, AnnounceInv
  <2>. QED  BY <1>1, <2>1 DEF AnnounceInv
<1>. QED  BY <1>3, <1>5, <1>6, <1>7, SoldOrder

\* The steps of lp_ordermatch_loop.
LEMMA SoldLoop ==
  ASSUME VolumeInv, SoldInv, NEW o \in Orders, LoopStep(o), UNCHANGED takerVars
  PROVE  SoldInv'
<1>1. ASSUME NEW old \in SUBSET Takers, HandleTimedOutMakerMatches(o, old)
      PROVE  SoldInv'
  BY <1>1, SoldTimeout
<1>2. CASE CheckBalanceForMakerOrders(o)
  BY <1>2, SoldRemove DEF CheckBalanceForMakerOrders, envVars
<1>3. ASSUME NEW volume \in Balances, CheckMissingOrder(o, volume)
      PROVE  SoldInv'
  BY <1>3, SoldMissing
<1>4. CASE LoopTaskStep(o)
  BY <1>4, SoldLoopTask
<1>. QED  BY <1>1, <1>2, <1>3, <1>4 DEF LoopStep

\* setprice takes an order from the agenda, or goes on from its file.
LEMMA SoldSetPrice ==
  ASSUME VolumeInv, VolumeInv', SoldInv, UNCHANGED takerVars,
         \/ \E o \in Makers, cancel_previous \in BOOLEAN : SetPrice(o, cancel_previous)
         \/ \E n \in Nodes : SaveNewMakerOrder(n)
  PROVE  SoldInv'
<1>1. /\ UNCHANGED <<owner, crashed, orders, order, lock, held, loop, makerSwaps, again>>
      /\ UNCHANGED <<takers, takerFiles, task>>
      /\ agenda' \subseteq agenda
  BY Zenon DEF SetPrice, SaveNewMakerOrder, Issue, mapVars, swapVars, takerVars, takerMapVars,
         takerFileVars
<1>2. \A x \in Orders : BeingTaken(x)' <=> BeingTaken(x)
  BY <1>1 DEF BeingTaken, Doing
<1>3. PICK n \in Nodes, next \in FitTask :
        /\ rpc' = [rpc EXCEPT ![n] = next]
        /\ next.op \notin {"update", "updating"}
        /\ next.op \in {"setprice", "created"} =>
             /\ owner[next.o] = n
             /\ \/ next.o \in agenda /\ next.o \notin agenda' /\ next.o \in Makers
                \/ rpc[n].op = "setprice" /\ rpc[n].o = next.o
  <2>1. CASE \E o \in Makers, cancel_previous \in BOOLEAN : SetPrice(o, cancel_previous)
    <3>1. PICK o \in Makers, cp \in BOOLEAN : SetPrice(o, cp)
      BY <2>1
    <3>. DEFINE next == [op |-> "setprice", o |-> o,
                         prev |-> IF cp THEN orders \cap Own(owner[o]) \cap Makers ELSE {}]
    <3>2. next \in FitTask /\ owner[o] \in Nodes
      BY DEF FitTask, VolumeInv, Orders
    <3>3. /\ rpc' = [rpc EXCEPT ![owner[o]] = next]
          /\ o \in agenda /\ o \notin agenda'
      BY <3>1 DEF SetPrice, Issue
    <3>. QED  BY Zenon, <3>2, <3>3
  <2>2. CASE \E n \in Nodes : SaveNewMakerOrder(n)
    <3>1. PICK n \in Nodes : SaveNewMakerOrder(n)
      BY <2>2
    <3>2. rpc[n].op = "setprice" /\ owner[rpc[n].o] = n /\ rpc[n].o \in Makers
      BY SMT, <3>1 DEF SaveNewMakerOrder, SoldInv, OwnCalls, VolumeInv, FitTask, Idle
    <3>3. CASE rpc' = [rpc EXCEPT ![n] = Idle]
      <4>1. Idle \in FitTask /\ Idle.op \notin {"update", "updating", "setprice", "created"}
        BY DEF FitTask, Idle
      <4>. QED  BY Zenon, <3>3, <4>1
    <3>4. CASE rpc' = [rpc EXCEPT ![n] = [op |-> "created", o |-> rpc[n].o]]
      <4>. DEFINE next == [op |-> "created", o |-> rpc[n].o]
      <4>1. next \in FitTask
        BY <3>2 DEF FitTask
      <4>. QED  BY Zenon, <3>2, <3>4, <4>1
    <3>. QED  BY <3>1, <3>3, <3>4 DEF SaveNewMakerOrder
  <2>. QED  BY <2>1, <2>2
<1>4. rpc \in [Nodes -> FitTask] /\ owner \in [Orders -> Nodes]
  BY DEF VolumeInv
<1>5. \A x \in Orders : /\ BeingSet(x)' => \/ BeingSet(x)
                                           \/ x \in agenda /\ x \notin agenda' /\ x \in Makers
                        /\ Updating(x)' => Updating(x)
  BY <1>1, <1>3, <1>4 DEF BeingSet, Updating
<1>6. SoldStays
  BY <1>1, <1>2, <1>5 DEF SoldStays, Unborn
<1>7. SoldTypeOK' /\ AnnounceInv'
  BY <1>1 DEF SoldInv, SoldTypeOK, AnnounceInv
<1>8. OneWayInv'
  BY <1>1, <1>2, <1>5 DEF SoldInv, OneWayInv, Live, Doing
<1>9. OwnCalls'
  BY <1>1, <1>3, <1>4 DEF SoldInv, OwnCalls
<1>10. UpdateInv'
  BY <1>1, <1>3, <1>4 DEF SoldInv, UpdateInv
<1>. QED  BY <1>6, <1>7, <1>8, <1>9, <1>10, SoldKeeps

\* An order is put in the map whose uuid nobody could reach before.
LEMMA SoldAdd ==
  ASSUME VolumeInv, VolumeInv', SoldInv, NEW o \in Orders, NEW c \in MakerOrder,
         Unborn(o), SoldTypeOK',
         UNCHANGED <<owner, crashed, agenda, lock, held, loop, makerSwaps, again, takers>>,
         orders' = orders \cup {o}, order' = [order EXCEPT ![o] = c],
         Live(o) => ~Unborn(o)',
         \A x \in Orders : BeingSet(x)' => BeingSet(x),
         \A x \in Takers : \A op \in {"buy", "connect", "delete", "to_maker"} :
           Doing(op, x)' => Doing(op, x),
         \A n \in Nodes : rpc'[n].op # "idle" => rpc'[n] = rpc[n]
  PROVE  SoldInv'
<1>1. order \in [Orders -> FitOrder] /\ rpc \in [Nodes -> FitTask] /\ owner \in [Orders -> Nodes]
  BY DEF VolumeInv
<1>2. \A x \in Orders : BeingTaken(x)' => BeingTaken(x)
  BY DEF BeingTaken
<1>3. SoldIsCounted'
  BY <1>1 DEF SoldInv, SoldTypeOK, SoldIsCounted, UnbornInv, Live, Deal
<1>4. StartedOnce' /\ AnnounceInv'
  BY DEF SoldInv, StartedOnce, AnnounceInv
<1>5. \A x \in Orders : Updating(x)' => Updating(x)
  BY <1>1 DEF Updating
<1>6. UnbornInv'
  BY <1>2, <1>5 DEF SoldInv, UnbornInv, Unborn, Live
<1>7. OneWayInv'
  BY <1>2 DEF SoldInv, OneWayInv, Live
<1>8. OwnCalls'
  BY DEF SoldInv, OwnCalls
<1>9. UpdateInv'
  <2>1. ASSUME NEW n \in Nodes, rpc'[n].op = "updating"
        PROVE  /\ lock'[rpc'[n].o] = "update"
               /\ n \notin crashed => rpc'[n].before.matches = order'[rpc'[n].o].matches
    <3>1. rpc'[n] = rpc[n] /\ rpc[n].op = "updating"
      BY <2>1
    <3>2. owner[rpc[n].o] = n /\ rpc[n].o \in Orders
      BY SMT, <1>1, <3>1 DEF SoldInv, OwnCalls, FitTask, Idle
    <3>3. n \notin crashed => rpc[n].o # o
      BY <3>1, <3>2 DEF SoldInv, UnbornInv, Updating, Live
    <3>. QED  BY <1>1, <3>1, <3>2, <3>3 DEF SoldInv, UpdateInv
  <2>. QED  BY <2>1 DEF UpdateInv
<1>. QED  BY <1>3, <1>4, <1>6, <1>7, <1>8, <1>9 DEF SoldInv

\* The end of create_maker_order.
LEMMA SoldAddNew ==
  ASSUME VolumeInv, VolumeInv', SoldInv, NEW n \in Nodes, AddNewMakerOrder(n), UNCHANGED takerVars
  PROVE  SoldInv'
<1>1. rpc \in [Nodes -> FitTask] /\ owner \in [Orders -> Nodes]
  BY DEF VolumeInv
<1>2. PICK o \in Makers : o = rpc[n].o /\ rpc[n].op = "created" /\ owner[o] = n
  BY SMT, <1>1 DEF AddNewMakerOrder, SoldInv, OwnCalls, FitTask, Idle
<1>. DEFINE c == NewOrder(Ask[o])
<1>3. o \in Orders /\ o \notin Takers /\ c \in MakerOrder
  BY NewOrderType, OrdersAssumption DEF Orders
<1>4. /\ UNCHANGED <<owner, crashed, agenda, lock, held, loop, makerSwaps, again>>
      /\ UNCHANGED <<takers, takerFiles, task>>
      /\ orders' = orders \cup {o}
      /\ order' = [order EXCEPT ![o] = c]
      /\ rpc' = [rpc EXCEPT ![n] = Idle]
  BY <1>2 DEF AddNewMakerOrder, swapVars, envVars, takerVars, takerMapVars, takerFileVars
<1>. HIDE DEF c
<1>5. BeingSet(o) /\ Unborn(o)
  BY <1>1, <1>2 DEF BeingSet, Unborn
<1>6. SoldTypeOK'
  BY <1>2, <1>3, <1>4 DEF SoldInv, SoldTypeOK
<1>7. Live(o) => o \notin agenda
  BY <1>2, <1>3, <1>5 DEF SoldInv, OneWayInv
<1>8. \A x \in Orders : BeingSet(x)' => BeingSet(x) /\ x # o
  <2>1. Idle.op \notin {"setprice", "created"}
    BY DEF Idle
  <2>2. \A m \in Nodes : m # n => rpc'[m] = rpc[m]
    BY <1>1, <1>4
  <2>3. rpc'[n] = Idle /\ owner' = owner
    BY <1>1, <1>4
  <2>. QED  BY <1>1, <1>2, <1>3, <2>1, <2>2, <2>3 DEF BeingSet
<1>9. ~BeingTaken(o)'
  BY <1>2, <1>3, <1>4 DEF BeingTaken, SoldInv, SoldTypeOK
<1>10. \A x \in Takers : \A op \in {"buy", "connect", "delete", "to_maker"} :
        Doing(op, x)' => Doing(op, x)
  BY <1>4 DEF Doing
<1>11. \A m \in Nodes : rpc'[m].op # "idle" => rpc'[m] = rpc[m]
  <2>1. Idle.op = "idle"
    BY DEF Idle
  <2>. QED  BY <1>1, <1>4, <2>1
<1>12. Live(o) => ~Unborn(o)'
  BY <1>2, <1>3, <1>4, <1>7, <1>8, <1>9 DEF Unborn
<1>. QED  BY Zenon, <1>2, <1>3, <1>4, <1>5, <1>6, <1>8, <1>10, <1>11, <1>12, SoldAdd

\* update_maker_order takes a clone.
LEMMA SoldUpdate ==
  ASSUME VolumeInv, SoldInv, NEW o \in Orders, UpdateMakerOrder(o), UNCHANGED takerVars
  PROVE  SoldInv'
<1>1. /\ UNCHANGED <<owner, crashed, orders, order, lock, held, loop, makerSwaps, again>>
      /\ UNCHANGED <<takers, takerFiles, task>>
      /\ agenda' \subseteq agenda
      /\ o \in orders
  BY DEF UpdateMakerOrder, Issue, mapVars, swapVars, takerVars, takerMapVars, takerFileVars
<1>. DEFINE next == [op |-> "update", o |-> o, before |-> order[o]]
<1>2. /\ rpc \in [Nodes -> FitTask] /\ owner \in [Orders -> Nodes]
      /\ rpc' = [rpc EXCEPT ![owner[o]] = next]
      /\ next.op = "update" /\ next.o = o
  BY DEF VolumeInv, UpdateMakerOrder
<1>. HIDE DEF next
<1>3. \A x \in Orders : BeingTaken(x)' <=> BeingTaken(x)
  BY <1>1 DEF BeingTaken, Doing
<1>4. \A x \in Orders : /\ BeingSet(x)' => BeingSet(x)
                        /\ Updating(x)' => Updating(x) \/ x \in orders
  BY <1>1, <1>2 DEF BeingSet, Updating
<1>5. SoldStays
  BY <1>1, <1>3, <1>4 DEF SoldStays, Unborn
<1>6. SoldTypeOK' /\ AnnounceInv'
  BY <1>1 DEF SoldInv, SoldTypeOK, AnnounceInv
<1>7. OneWayInv'
  BY <1>1, <1>3, <1>4 DEF SoldInv, OneWayInv, Live, Doing
<1>8. OwnCalls' /\ UpdateInv'
  BY <1>1, <1>2 DEF SoldInv, OwnCalls, UpdateInv
<1>. QED  BY <1>5, <1>6, <1>7, <1>8, SoldKeeps

\* What the two halves of update_maker_order have in common: they change the order, its
\* mutex and the call, and the mutex is held exactly as long as the call says.
LEMMA SoldUpdateStep ==
  ASSUME VolumeInv, VolumeInv', SoldInv, NEW n \in Nodes, NEW o \in Orders,
         rpc[n].op \in {"update", "updating"}, rpc[n].o = o,
         UNCHANGED <<owner, crashed, agenda, orders, held, loop, makerSwaps, again>>,
         UNCHANGED <<takers, takerFiles, task>>,
         \A x \in Orders \ {o} : order'[x] = order[x] /\ lock'[x] = lock[x],
         n \notin crashed => order'[o].matches = order[o].matches,
         lock' \in [Orders -> {"free", "save", "delete", "update", "announce"}],
         lock[o] = "announce" => lock'[o] = "announce",
         NEW next \in FitTask, rpc' = [rpc EXCEPT ![n] = next],
         \/ next = Idle
         \/ /\ next.op = "updating" /\ next.o = o /\ lock'[o] = "update"
            /\ n \notin crashed => next.before.matches = order[o].matches
  PROVE  SoldInv'
<1>1. rpc \in [Nodes -> FitTask] /\ owner \in [Orders -> Nodes] /\ owner[o] = n
  BY DEF VolumeInv, SoldInv, OwnCalls
<1>2. next.op \notin {"setprice", "created", "update"}
  BY SMT DEF Idle
<1>3. next.op = "updating" => next.o = o /\ lock'[o] = "update"
  BY SMT DEF Idle
<1>4. \A x \in Orders : /\ BeingTaken(x)' <=> BeingTaken(x)
                        /\ BeingSet(x)' => BeingSet(x)
                        /\ Updating(x)' => Updating(x)
  BY <1>1, <1>2, <1>3 DEF BeingTaken, Doing, BeingSet, Updating
<1>5. \A x \in Orders, t \in Takers :
        Live(x) /\ order[x].matches[t].status = "connected"
          => order'[x].matches[t] = order[x].matches[t]
  BY <1>1 DEF Live
<1>6. SoldStays
  BY <1>4, <1>5 DEF SoldStays, Unborn
<1>7. SoldTypeOK'
  BY DEF SoldInv, SoldTypeOK
<1>8. AnnounceInv'
  BY DEF SoldInv, AnnounceInv
<1>9. OneWayInv'
  BY <1>4 DEF SoldInv, OneWayInv, Live, Doing
<1>10. OwnCalls'
  BY <1>1, <1>2, <1>3 DEF SoldInv, OwnCalls
<1>11. UpdateInv'
  <2>1. ASSUME NEW m \in Nodes, rpc'[m].op = "updating"
        PROVE  /\ lock'[rpc'[m].o] = "update"
               /\ m \notin crashed => rpc'[m].before.matches = order'[rpc'[m].o].matches
    <3>1. CASE m = n
      <4>1. rpc'[m] = next /\ next.op = "updating"
        BY <1>1, <2>1, <3>1
      <4>2. next # Idle
        BY SMT, <4>1 DEF Idle
      <4>. QED  BY <3>1, <4>1, <4>2
    <3>2. CASE m # n
      <4>1. rpc'[m] = rpc[m] /\ rpc[m].op = "updating"
        BY <1>1, <2>1, <3>2
      <4>2. owner[rpc[m].o] = m /\ rpc[m].o \in Orders
        BY SMT, <1>1, <4>1 DEF SoldInv, OwnCalls, FitTask, Idle
      <4>. QED  BY <1>1, <3>2, <4>1, <4>2 DEF SoldInv, UpdateInv
    <3>. QED  BY <3>1, <3>2
  <2>. QED  BY <2>1 DEF UpdateInv
<1>. QED  BY <1>6, <1>7, <1>8, <1>9, <1>10, <1>11, SoldKeeps

\* update_maker_order under the mutex.
LEMMA SoldApplyUpdate ==
  ASSUME VolumeInv, VolumeInv', SoldInv, NEW n \in Nodes, NEW ask \in NewAsks,
         ApplyUpdate(n, ask), UNCHANGED takerVars
  PROVE  SoldInv'
<1>1. PICK o \in Orders : o = rpc[n].o /\ rpc[n].op = "update"
  BY SMT DEF VolumeInv, FitTask, Idle, ApplyUpdate
<1>2. /\ UNCHANGED <<owner, crashed, agenda, orders, held, loop, makerSwaps, again>>
      /\ UNCHANGED <<takers, takerFiles, task>>
  BY DEF ApplyUpdate, envVars, swapVars, takerVars, takerMapVars, takerFileVars
<1>3. rpc \in [Nodes -> FitTask] /\ order \in [Orders -> FitOrder] /\ order[o] \in MakerOrder
  BY DEF VolumeInv, FitOrder
<1>4. CASE rpc' = [rpc EXCEPT ![n] = Idle] /\ UNCHANGED <<order, lock>>
  <2>1. Idle \in FitTask
    BY DEF FitTask
  <2>2. /\ \A x \in Orders : order'[x] = order[x] /\ lock'[x] = lock[x]
        /\ lock' \in [Orders -> {"free", "save", "delete", "update", "announce"}]
    BY <1>4 DEF SoldInv, SoldTypeOK
  <2>. QED  BY Zenon, <1>1, <1>2, <1>4, <2>1, <2>2, SoldUpdateStep
<1>5. CASE /\ order[o] = rpc[n].before /\ lock[o] = "free"
           /\ order' = [order EXCEPT ![o].max = ask.max, ![o].price = ask.price]
           /\ lock' = [lock EXCEPT ![o] = "update"]
           /\ rpc' = [rpc EXCEPT ![n].op = "updating"]
  <2>1. /\ rpc' = [rpc EXCEPT ![n] = [rpc[n] EXCEPT !.op = "updating"]]
        /\ [rpc[n] EXCEPT !.op = "updating"] = [op |-> "updating", o |-> o, before |-> order[o]]
    BY SMT, <1>1, <1>3, <1>5 DEF FitTask, Idle
  <2>2. PICK next \in FitTask :
          /\ rpc' = [rpc EXCEPT ![n] = next]
          /\ next.op = "updating" /\ next.o = o /\ next.before.matches = order[o].matches
    BY Zenon, <1>3, <2>1 DEF FitTask
  <2>3. /\ \A x \in Orders \ {o} : order'[x] = order[x] /\ lock'[x] = lock[x]
        /\ order'[o].matches = order[o].matches
        /\ lock'[o] = "update" /\ lock[o] # "announce"
        /\ lock' \in [Orders -> {"free", "save", "delete", "update", "announce"}]
    BY <1>3, <1>5 DEF MakerOrder, SoldInv, SoldTypeOK
  <2>4. rpc[n].op \in {"update", "updating"} /\ rpc[n].o = o
    BY <1>1
  <2>. QED  BY Zenon, <1>2, <2>2, <2>3, <2>4, SoldUpdateStep
<1>. QED  BY <1>1, <1>4, <1>5 DEF ApplyUpdate

\* The update is saved, or rolled back to matches that are the same.
LEMMA SoldSaveUpdate ==
  ASSUME VolumeInv, VolumeInv', SoldInv, NEW n \in Nodes, SaveUpdate(n), UNCHANGED takerVars
  PROVE  SoldInv'
<1>1. PICK o \in Orders : o = rpc[n].o /\ rpc[n].op = "updating"
  BY SMT DEF VolumeInv, FitTask, Idle, SaveUpdate
<1>2. /\ UNCHANGED <<owner, crashed, agenda, orders, held, loop, makerSwaps, again>>
      /\ UNCHANGED <<takers, takerFiles, task>>
      /\ lock' = [lock EXCEPT ![o] = "free"]
      /\ rpc' = [rpc EXCEPT ![n] = Idle]
      /\ order' = order \/ order' = [order EXCEPT ![o] = rpc[n].before]
  BY <1>1 DEF SaveUpdate, envVars, swapVars, takerVars, takerMapVars, takerFileVars
<1>3. order \in [Orders -> FitOrder]
  BY DEF VolumeInv
<1>4. lock[o] = "update" /\ (n \notin crashed => rpc[n].before.matches = order[o].matches)
  BY <1>1 DEF SoldInv, UpdateInv
<1>5. /\ \A x \in Orders \ {o} : order'[x] = order[x] /\ lock'[x] = lock[x]
      /\ n \notin crashed => order'[o].matches = order[o].matches
      /\ lock' \in [Orders -> {"free", "save", "delete", "update", "announce"}]
  BY Zenon, <1>2, <1>3, <1>4 DEF SoldInv, SoldTypeOK
<1>6. Idle \in FitTask
  BY DEF FitTask
<1>. QED  BY Zenon, <1>1, <1>2, <1>4, <1>5, <1>6, SoldUpdateStep

\* Every step of the maker side.
LEMMA SoldMaker ==
  ASSUME VolumeInv, VolumeInv', SoldInv, MakerStep, UNCHANGED takerVars
  PROVE  SoldInv'
<1>1. ASSUME NEW o \in Orders, LoopStep(o) \/ HandlerStep(o)
      PROVE  SoldInv'
  BY <1>1, SoldLoop, SoldFiles, SoldRequest, SoldConnect DEF HandlerStep
<1>2. ASSUME NEW n \in Nodes, RpcStep(n)
      PROVE  SoldInv'
  <2>1. ASSUME NEW p \in Orders, CancelPreviousMakerOrder(n, p)
        PROVE  SoldInv'
    BY <2>1, SoldRemove DEF CancelPreviousMakerOrder, envVars
  <2>. QED  BY <1>2, <2>1, SoldSetPrice, SoldAddNew, SoldApplyUpdate, SoldSaveUpdate DEF RpcStep
<1>3. ASSUME NEW o \in Orders, CancelMakerOrder(o)
      PROVE  SoldInv'
  BY <1>3, SoldRemove DEF CancelMakerOrder
<1>. QED  BY <1>1, <1>2, <1>3, SoldSetPrice, SoldUpdate, SoldBalance DEF MakerStep

\* A step that leaves the maker side alone, but for orders that leave the map.
LEMMA SoldTakerSide ==
  ASSUME VolumeInv, SoldInv, UNCHANGED <<owner, crashed, order, lock, loop, makerSwaps, again>>,
         orders' \subseteq orders, \A h \in held' : h \in held \/ h.o \in orders,
         agenda' \subseteq agenda,
         \A o \in Orders : BeingSet(o)' => BeingSet(o),
         \A n \in Nodes : rpc'[n].op \in {"setprice", "created", "update", "updating"} =>
           rpc'[n] = rpc[n],
         takers' \subseteq Takers, takerFiles' \subseteq Takers, task' \in [Nodes -> TakerTask],
         \A t \in Takers : BeingTaken(t)' => BeingTaken(t) \/ t \in agenda \ agenda',
         \A t \in Takers : Live(t) /\ Doing("to_maker", t)' => t \notin takers'
  PROVE  SoldInv'
<1>1. owner \in [Orders -> Nodes]
  BY DEF VolumeInv
<1>2. \A o \in Orders : Updating(o)' => Updating(o)
  BY <1>1 DEF Updating
<1>3. \A o \in Orders \ Takers : ~BeingTaken(o)'
  BY DEF BeingTaken
<1>4. SoldStays
  BY <1>2, <1>3 DEF SoldStays, Unborn
<1>5. SoldTypeOK' /\ AnnounceInv'
  BY DEF SoldInv, SoldTypeOK, AnnounceInv
<1>6. OneWayInv'
  BY <1>3 DEF SoldInv, OneWayInv, Live
<1>7. OwnCalls' /\ UpdateInv'
  BY DEF SoldInv, OwnCalls, UpdateInv
<1>. QED  BY <1>4, <1>5, <1>6, <1>7, SoldKeeps

\* The steps of the taker side.
LEMMA SoldTaker ==
  ASSUME VolumeInv, SoldInv, NEW t \in Takers, TakerStep(t), UNCHANGED makerVars
  PROVE  SoldInv'
<1>1. /\ UNCHANGED <<owner, crashed, orders, order, lock, held, loop, rpc>>
      /\ UNCHANGED <<makerSwaps, again>>
      /\ agenda' \subseteq agenda
  BY DEF makerVars, mapVars, swapVars, TakerStep, TakerTaskStep, LpAutoBuy, Issue,
         SaveNewTakerOrder, SaveTakerMatch, DeleteMyTakerOrder, MakerReservedArrives,
         ProcessMakerReserved, ProcessMakerConnected, HandleTimedOutTakerOrder, CancelTakerOrder,
         envVars
<1>2. /\ owner \in [Orders -> Nodes] /\ owner[t] \in Nodes /\ task \in [Nodes -> TakerTask]
      /\ takers \subseteq Takers /\ takerFiles \subseteq Takers
  BY DEF VolumeInv, Orders, SoldInv, SoldTypeOK
<1>3. \A o \in Orders : BeingSet(o)' => BeingSet(o)
  BY <1>1 DEF BeingSet
<1>4. SUFFICES
        /\ takers' \subseteq Takers /\ takerFiles' \subseteq Takers /\ task' \in [Nodes -> TakerTask]
        /\ \A x \in Takers : BeingTaken(x)' => BeingTaken(x) \/ x \in agenda \ agenda'
        /\ \A x \in Takers : Live(x) /\ Doing("to_maker", x)' => x \notin takers'
  BY <1>1, <1>3, SoldTakerSide
<1>5. CASE LpAutoBuy(t)
  <2>1. /\ task' = [task EXCEPT ![owner[t]] = [op |-> "buy", t |-> t]]
        /\ takers' = takers /\ takerFiles' = takerFiles
        /\ t \in agenda /\ t \notin agenda'
    BY <1>5 DEF LpAutoBuy, Issue, Then, takerMapVars, takerFileVars
  <2>2. \A x \in Takers : \A op \in {"buy", "connect", "delete", "to_maker"} :
          Doing(op, x)' => Doing(op, x) \/ (op = "buy" /\ x = t)
    BY Zenon, <1>1, <2>1, OtherTask
  <2>3. \A x \in Takers : BeingTaken(x)' => BeingTaken(x) \/ x = t
    BY <2>1, <2>2 DEF BeingTaken
  <2>4. \A x \in Takers : Live(x) /\ Doing("to_maker", x)' => x \notin takers'
    BY <2>1, <2>2 DEF SoldInv, OneWayInv
  <2>5. task' \in [Nodes -> TakerTask]
    BY <1>2, <2>1 DEF TakerTask
  <2>. QED  BY <1>2, <2>1, <2>3, <2>4, <2>5
<1>6. CASE TakerTaskStep(t)
  <2>1. /\ task' = [task EXCEPT ![owner[t]] = Free]
        /\ takers' = takers \/ (takers' = takers \cup {t} /\ Doing("buy", t))
        /\ takerFiles' \subseteq takerFiles \cup {t}
    BY <1>6 DEF TakerTaskStep, SaveNewTakerOrder, SaveTakerMatch, DeleteMyTakerOrder,
                Unlock, takerMapVars, takerFileVars, DeleteTakerFile
  <2>2. \A x \in Takers : \A op \in {"buy", "connect", "delete", "to_maker"} :
          Doing(op, x)' => Doing(op, x) /\ owner[x] # owner[t]
    <3>. SUFFICES ASSUME NEW x \in Takers, NEW op \in {"buy", "connect", "delete", "to_maker"},
                         Doing(op, x)'
                  PROVE  Doing(op, x) /\ owner[x] # owner[t]
      OBVIOUS
    <3>1. Free # [op |-> op, t |-> x]
      BY DEF Free
    <3>2. Doing(op, x)' <=> IF owner[x] = owner[t] THEN Free = [op |-> op, t |-> x] ELSE Doing(op, x)
      BY Zenon, <1>1, <2>1, OtherTask
    <3>. QED  BY <3>1, <3>2
  <2>3. \A x \in Takers : BeingTaken(x)' => BeingTaken(x)
    BY <2>1, <2>2 DEF BeingTaken
  <2>4. \A x \in Takers : Live(x) /\ Doing("to_maker", x)' => x \notin takers'
    BY <2>1, <2>2 DEF SoldInv, OneWayInv
  <2>5. task' \in [Nodes -> TakerTask]
    BY <1>2, <2>1 DEF TakerTask, Free
  <2>. QED  BY <1>2, <2>1, <2>3, <2>4, <2>5
<1>7. CASE UNCHANGED <<takers, takerFiles, task>>
  BY <1>1, <1>2, <1>7 DEF BeingTaken, Doing, SoldInv, OneWayInv
<1>8. CASE ProcessMakerReserved(t) /\ task' # task
  <2>1. /\ task' = [task EXCEPT ![owner[t]] = [op |-> "connect", t |-> t]]
        /\ takers' = takers /\ takerFiles' = takerFiles
        /\ t \in takers
    BY <1>8 DEF ProcessMakerReserved, Then, takerFileVars
  <2>2. \A x \in Takers : \A op \in {"buy", "connect", "delete", "to_maker"} :
          Doing(op, x)' => Doing(op, x) \/ (op = "connect" /\ x = t)
    BY Zenon, <1>1, <2>1, OtherTask
  <2>3. \A x \in Takers : BeingTaken(x)' => BeingTaken(x)
    BY <2>1, <2>2 DEF BeingTaken
  <2>4. \A x \in Takers : Live(x) /\ Doing("to_maker", x)' => x \notin takers'
    BY <2>1, <2>2 DEF SoldInv, OneWayInv
  <2>5. task' \in [Nodes -> TakerTask]
    BY <1>2, <2>1 DEF TakerTask
  <2>. QED  BY <1>2, <2>1, <2>3, <2>4, <2>5
<1>9. CASE /\ t \in takers /\ takers' = takers \ {t} /\ takerFiles' = takerFiles
           /\ \E op \in {"delete", "to_maker"} : task' = [task EXCEPT ![owner[t]] = [op |-> op, t |-> t]]
  <2>1. \A x \in Takers : \A op \in {"buy", "connect", "delete", "to_maker"} :
          Doing(op, x)' => Doing(op, x) \/ x = t
    <3>1. PICK done \in {"delete", "to_maker"} : task' = [task EXCEPT ![owner[t]] = [op |-> done, t |-> t]]
      BY Zenon, <1>9
    <3>. QED  BY Zenon, <1>1, <3>1, OtherTask
  <2>2. \A x \in Takers : BeingTaken(x)' => BeingTaken(x)
    BY <1>9, <2>1 DEF BeingTaken
  <2>3. \A x \in Takers : Live(x) /\ Doing("to_maker", x)' => x \notin takers'
    BY <1>9, <2>1 DEF SoldInv, OneWayInv
  <2>4. task' \in [Nodes -> TakerTask]
    BY SMT, <1>2, <1>9 DEF TakerTask
  <2>. QED  BY <1>2, <1>9, <2>2, <2>3, <2>4
<1>10. ASSUME NEW m \in msgs, MakerReservedArrives(m)
       PROVE  UNCHANGED <<takers, takerFiles, task>>
  BY <1>10 DEF MakerReservedArrives, takerMapVars, takerFileVars
<1>11. ProcessMakerReserved(t) /\ task' = task => UNCHANGED <<takers, takerFiles, task>>
  BY DEF ProcessMakerReserved, takerFileVars
<1>12. ASSUME \/ \E o \in Orders : ProcessMakerConnected(o, t)
              \/ HandleTimedOutTakerOrder(t)
              \/ CancelTakerOrder(t)
       PROVE  /\ t \in takers /\ takers' = takers \ {t} /\ takerFiles' = takerFiles
              /\ \E op \in {"delete", "to_maker"} : task' = [task EXCEPT ![owner[t]] = [op |-> op, t |-> t]]
  BY <1>12 DEF ProcessMakerConnected, HandleTimedOutTakerOrder, MayTimeOutTaker, CancelTakerOrder,
               RemoveTaker, Then, takerFileVars
<1>. QED  BY <1>5, <1>6, <1>7, <1>8, <1>9, <1>10, <1>11, <1>12 DEF TakerStep

\* The conversion of a taker order.
LEMMA SoldConversion ==
  ASSUME VolumeInv, VolumeInv', SoldInv, NEW t \in Takers, ConversionStep(t)
  PROVE  SoldInv'
<1>1. /\ UNCHANGED <<owner, crashed, agenda, lock, held, rpc, loop, makerSwaps, again, takers>>
  BY DEF ConversionStep, AddConvertedOrder, SaveConvertedOrder, AnnounceConvertedOrder, mapVars,
         swapVars, takerMapVars
<1>2. /\ t \in Orders /\ owner \in [Orders -> Nodes] /\ owner[t] \in Nodes
      /\ rpc \in [Nodes -> FitTask]
      /\ task \in [Nodes -> TakerTask] /\ takers \subseteq Takers /\ takerFiles \subseteq Takers
  BY DEF VolumeInv, Orders, SoldInv, SoldTypeOK
<1>3. PICK next \in {[op |-> "save_maker", t |-> t], [op |-> "announce", t |-> t], Free} :
        task' = [task EXCEPT ![owner[t]] = next]
  BY DEF ConversionStep, AddConvertedOrder, SaveConvertedOrder, AnnounceConvertedOrder, Then, Unlock
<1>4. ASSUME NEW x \in Takers, NEW op \in {"buy", "connect", "delete", "to_maker"}, Doing(op, x)'
      PROVE  Doing(op, x) /\ owner[x] # owner[t]
  <2>1. Doing(op, x)' <=> IF owner[x] = owner[t] THEN next = [op |-> op, t |-> x] ELSE Doing(op, x)
    BY Zenon, <1>1, <1>3, OtherTask
  <2>2. next # [op |-> op, t |-> x]
    BY SMT DEF Free
  <2>. QED  BY <1>4, <2>1, <2>2
<1>5. task' \in [Nodes -> TakerTask] /\ takerFiles' \subseteq Takers
  <2>1. next \in TakerTask
    BY SMT DEF TakerTask, Free
  <2>2. takerFiles' \subseteq takerFiles
    BY DEF ConversionStep, AddConvertedOrder, SaveConvertedOrder, AnnounceConvertedOrder,
           takerFileVars, DeleteTakerFile
  <2>. QED  BY <1>2, <1>3, <2>1, <2>2
<1>6. \A o \in Orders : BeingSet(o)' => BeingSet(o)
  BY <1>1 DEF BeingSet
<1>7. \A x \in Takers : BeingTaken(x)' => BeingTaken(x)
  BY <1>1, <1>4 DEF BeingTaken
<1>8. CASE UNCHANGED <<orders, order>>
  <2>1. \A x \in Takers : Live(x) /\ Doing("to_maker", x)' => x \notin takers'
    BY <1>1, <1>4 DEF SoldInv, OneWayInv
  <2>. QED  BY <1>1, <1>2, <1>5, <1>6, <1>7, <1>8, <2>1, SoldTakerSide
<1>9. CASE AddConvertedOrder(t)
  <2>1. /\ orders' = orders \cup {t}
        /\ order' = [order EXCEPT ![t] = FromTaker(t)]
        /\ Doing("to_maker", t)
    BY <1>9 DEF AddConvertedOrder
  <2>2. FromTaker(t) \in MakerOrder
    BY FromTakerType
  <2>3. Unborn(t)
    BY <2>1 DEF Unborn, BeingTaken
  <2>4. SoldTypeOK'
    BY <1>1, <1>2, <1>5, <2>1 DEF SoldInv, SoldTypeOK
  <2>5. ~BeingSet(t)
    BY SMT, <1>2, OrdersAssumption DEF BeingSet, FitTask, Idle
  <2>6. Live(t) => t \notin agenda /\ t \notin takers
    BY <1>2, <2>1, <2>3 DEF SoldInv, OneWayInv, BeingTaken
  <2>7. Live(t) => ~Unborn(t)'
    <3>1. \A op \in {"buy", "connect", "delete", "to_maker"} : ~Doing(op, t)'
      BY <1>4
    <3>2. ~BeingSet(t)'
      BY <1>2, <1>6, <2>5
    <3>. QED  BY <1>1, <2>6, <3>1, <3>2 DEF Unborn, BeingTaken
  <2>8. \A n \in Nodes : rpc'[n].op # "idle" => rpc'[n] = rpc[n]
    BY <1>1
  <2>. QED  BY Zenon, <1>1, <1>2, <1>4, <1>6, <2>1, <2>2, <2>3, <2>4, <2>7, <2>8, SoldAdd
<1>. QED
  BY <1>8, <1>9 DEF ConversionStep, SaveConvertedOrder, AnnounceConvertedOrder, mapVars

\* cancel_orders_by.
LEMMA SoldCancelBy ==
  ASSUME VolumeInv, SoldInv, NEW n \in Nodes, CancelOrdersBy(n) \/ CancelByStep(n)
  PROVE  SoldInv'
<1>1. /\ UNCHANGED <<owner, crashed, agenda, order, lock, loop, makerSwaps, again>>
      /\ orders' \subseteq orders /\ \A h \in held' : h \in held \/ h.o \in orders
      /\ takers' \subseteq takers /\ takerFiles' \subseteq takerFiles
  BY Zenon, RemovedIsHeld
  DEF CancelOrdersBy, CancelByStep, TestCancellable, RemoveCancelled, DeleteCancelled, RemoveTaker,
      DeleteTakerFile, mapVars, swapVars, takerVars, takerMapVars, takerFileVars, envVars
<1>2. /\ owner \in [Orders -> Nodes] /\ rpc \in [Nodes -> FitTask]
      /\ task \in [Nodes -> TakerTask] /\ takers \subseteq Takers /\ takerFiles \subseteq Takers
  BY DEF VolumeInv, SoldInv, SoldTypeOK
<1>3. PICK next : /\ rpc' = [rpc EXCEPT ![n] = next]
                  /\ next.op \notin {"setprice", "created", "update", "updating"}
  <2>1. CASE CancelOrdersBy(n)
    <3>. DEFINE next == [op |-> "cancel_by", left |-> orders \cap Own(n), chosen |-> {}]
    <3>1. rpc' = [rpc EXCEPT ![n] = next] /\ next.op = "cancel_by"
      BY <2>1 DEF CancelOrdersBy
    <3>. QED  BY Zenon, <3>1
  <2>4. CASE RemoveCancelled(n)
    <3>. DEFINE next == [op |-> "cancelled_by", chosen |-> rpc[n].chosen,
                         takers |-> {t \in takers \cap Own(n) : chosen[t] = {}}]
    <3>1. rpc' = [rpc EXCEPT ![n] = next] /\ next.op = "cancelled_by"
      BY <2>4 DEF RemoveCancelled
    <3>. QED  BY Zenon, <3>1
  <2>2. ASSUME NEW o \in Orders, TestCancellable(n, o)
        PROVE  \E next : /\ rpc' = [rpc EXCEPT ![n] = next]
                         /\ next.op \notin {"setprice", "created", "update", "updating"}
    <3>. DEFINE next == [rpc[n] EXCEPT !.left = @ \ {o},
                           !.chosen = IF IsCancellable(order[o]) THEN @ \cup {o} ELSE @]
    <3>1. rpc' = [rpc EXCEPT ![n] = next] /\ next.op = "cancel_by"
      BY Zenon, <1>2, <2>2 DEF TestCancellable, FitTask, Idle
    <3>. QED  BY Zenon, <3>1
  <2>3. CASE DeleteCancelled(n)
    <3>1. CASE \E o \in rpc[n].chosen : rpc' = [rpc EXCEPT ![n].chosen = @ \ {o}]
      <4>1. PICK o \in rpc[n].chosen : rpc' = [rpc EXCEPT ![n].chosen = @ \ {o}]
        BY Zenon, <3>1
      <4>. DEFINE next == [rpc[n] EXCEPT !.chosen = @ \ {o}]
      <4>2. rpc' = [rpc EXCEPT ![n] = next] /\ next.op = "cancelled_by"
        BY SMT, <1>2, <2>3, <4>1 DEF DeleteCancelled, FitTask, Idle
      <4>. QED  BY Zenon, <4>2
    <3>2. CASE \E t \in rpc[n].takers : rpc' = [rpc EXCEPT ![n].takers = @ \ {t}]
      <4>1. PICK t \in rpc[n].takers : rpc' = [rpc EXCEPT ![n].takers = @ \ {t}]
        BY Zenon, <3>2
      <4>. DEFINE next == [rpc[n] EXCEPT !.takers = @ \ {t}]
      <4>2. rpc' = [rpc EXCEPT ![n] = next] /\ next.op = "cancelled_by"
        BY SMT, <1>2, <2>3, <4>1 DEF DeleteCancelled, FitTask, Idle
      <4>. QED  BY Zenon, <4>2
    <3>3. CASE rpc' = [rpc EXCEPT ![n] = Idle]
      <4>1. Idle.op = "idle"
        BY DEF Idle
      <4>. QED  BY Zenon, <3>3, <4>1
    <3>. QED  BY <2>3, <3>1, <3>2, <3>3 DEF DeleteCancelled
  <2>. QED  BY <2>1, <2>2, <2>3, <2>4 DEF CancelByStep
<1>4. /\ \A o \in Orders : BeingSet(o)' => BeingSet(o)
      /\ \A m \in Nodes : rpc'[m].op \in {"setprice", "created", "update", "updating"} =>
           rpc'[m] = rpc[m]
  BY <1>1, <1>2, <1>3 DEF BeingSet
<1>5. task' = task \/ \E after \in {Free, [op |-> "cancel_by"]} : task' = [task EXCEPT ![n] = after]
  BY Zenon DEF CancelOrdersBy, CancelByStep, TestCancellable, RemoveCancelled, DeleteCancelled, takerVars
<1>6. task' \in [Nodes -> TakerTask]
  BY <1>2, <1>5 DEF TakerTask, Free
<1>7. ASSUME NEW x \in Takers, NEW op \in {"buy", "connect", "delete", "to_maker"}, Doing(op, x)'
      PROVE  Doing(op, x)
  <2>1. Free # [op |-> op, t |-> x] /\ [op |-> "cancel_by"] # [op |-> op, t |-> x]
    BY DEF Free
  <2>2. task'[owner[x]] = [op |-> op, t |-> x] /\ owner[x] \in Nodes
    BY <1>1, <1>2, <1>7 DEF Doing, Orders
  <2>. QED  BY <1>2, <1>5, <2>1, <2>2 DEF Doing
<1>8. /\ \A x \in Takers : BeingTaken(x)' => BeingTaken(x)
      /\ \A x \in Takers : Live(x) /\ Doing("to_maker", x)' => x \notin takers'
  BY <1>1, <1>7 DEF BeingTaken, SoldInv, OneWayInv
<1>9. takers' \subseteq Takers /\ takerFiles' \subseteq Takers
  BY <1>1, <1>2
<1>. QED  BY <1>1, <1>4, <1>6, <1>8, <1>9, SoldTakerSide

\* A restart: the orders of the other nodes are as they were.
LEMMA SoldRestart ==
  ASSUME VolumeInv, VolumeInv', SoldInv, NEW n \in Nodes, Restart(n)
  PROVE  SoldInv'
<1>1. /\ UNCHANGED <<owner, agenda, makerSwaps, again, takerFiles>>
      /\ crashed' = crashed \cup {n}
      /\ rpc' = [rpc EXCEPT ![n] = Idle]
      /\ loop' = [loop EXCEPT ![n] = Idle]
      /\ task' = [task EXCEPT ![n] = Free]
      /\ held' \subseteq held
      /\ orders' = (orders \ Own(n)) \cup (files \cap Own(n))
      /\ takers' = (takers \ Own(n)) \cup (takerFiles \cap Own(n))
      /\ lock' = [o \in Orders |-> IF o \in Own(n) THEN "free" ELSE lock[o]]
  BY DEF Restart, MakerRestart, TakerRestart, swapVars, takerFileVars
<1>2. /\ owner \in [Orders -> Nodes] /\ rpc \in [Nodes -> FitTask] /\ loop \in [Nodes -> LoopTask]
      /\ task \in [Nodes -> TakerTask]
      /\ orders \subseteq Orders /\ takers \subseteq Takers /\ takerFiles \subseteq Takers
      /\ makerSwaps \subseteq Deal
  BY DEF VolumeInv, SoldInv, SoldTypeOK
<1>3. \A o \in Orders : owner[o] # n =>
        /\ order'[o] = order[o] /\ lock'[o] = lock[o]
        /\ o \in orders' <=> o \in orders
        /\ o \in takers' <=> o \in takers
        /\ rpc'[owner[o]] = rpc[owner[o]]
        /\ task'[owner[o]] = task[owner[o]]
  BY <1>1, <1>2 DEF Restart, MakerRestart, Own
<1>4. \A o \in Orders : Live(o)' => Live(o) /\ owner[o] # n
  BY <1>1 DEF Live
<1>5. SoldTypeOK'
  <2>1. Idle \in LoopTask /\ Free \in TakerTask
    BY DEF LoopTask, TakerTask, Free
  <2>2. orders' \subseteq Orders /\ takers' \subseteq Takers
    BY <1>1, <1>2 DEF Own
  <2>3. lock' \in [Orders -> {"free", "save", "delete", "update", "announce"}]
    <3>1. lock \in [Orders -> {"free", "save", "delete", "update", "announce"}]
      BY DEF SoldInv, SoldTypeOK
    <3>. QED  BY <1>1, <3>1
  <2>4. loop' \in [Nodes -> LoopTask] /\ task' \in [Nodes -> TakerTask]
    BY <1>1, <1>2, <2>1
  <2>. QED  BY <1>1, <1>2, <2>2, <2>3, <2>4 DEF SoldInv, SoldTypeOK
<1>6. SoldIsCounted'
  BY SMT, <1>1, <1>2, <1>3 DEF SoldInv, SoldIsCounted, Deal
<1>7. StartedOnce'
  BY <1>1 DEF SoldInv, StartedOnce
<1>8. \A o \in Orders : owner[o] # n =>
        /\ BeingSet(o)' <=> BeingSet(o)
        /\ BeingTaken(o)' <=> BeingTaken(o)
        /\ Updating(o)' <=> Updating(o)
        /\ Doing("to_maker", o)' <=> Doing("to_maker", o)
  BY <1>1, <1>3 DEF BeingSet, BeingTaken, Updating, Doing
<1>9. UnbornInv'
  BY <1>1, <1>3, <1>4, <1>8 DEF SoldInv, UnbornInv, Unborn
<1>10. OneWayInv'
  BY Zenon, <1>1, <1>3, <1>4, <1>8 DEF SoldInv, OneWayInv, Orders
<1>11. OwnCalls' /\ UpdateInv'
  <2>1. Idle.op = "idle"
    BY DEF Idle
  <2>2. ASSUME NEW m \in Nodes, rpc'[m].op \in {"setprice", "created", "update", "updating"}
        PROVE  /\ rpc'[m] = rpc[m] /\ m # n
               /\ owner[rpc[m].o] = m /\ rpc[m].o \in Orders
    BY <1>1, <1>2, <2>1, <2>2 DEF SoldInv, OwnCalls, FitTask, Idle, Orders
  <2>3. OwnCalls'
    BY <1>1, <2>2 DEF OwnCalls
  <2>4. UpdateInv'
    BY SMT, <1>1, <1>3, <2>2 DEF SoldInv, UpdateInv
  <2>. QED  BY <2>3, <2>4
<1>12. AnnounceInv'
  <2>1. \A o : Idle # [op |-> "announce", o |-> o]
    BY DEF Idle
  <2>. QED  BY <1>1, <1>2, <1>3, <2>1 DEF SoldInv, AnnounceInv
<1>. QED  BY <1>5, <1>6, <1>7, <1>9, <1>10, <1>11, <1>12 DEF SoldInv

\* Every step keeps what the maker's swaps rest on.
LEMMA SoldNext ==
  ASSUME VolumeInv, VolumeInv', SoldInv, [Next]_vars
  PROVE  SoldInv'
<1>1. CASE UNCHANGED vars
  <2>1. UNCHANGED <<owner, crashed, agenda, orders, order, lock, held, rpc, loop, makerSwaps, again>>
    BY <1>1 DEF vars, envVars, makerVars, mapVars, swapVars
  <2>2. UNCHANGED <<takers, takerFiles, task>>
    BY <1>1 DEF vars, takerVars, takerMapVars, takerFileVars
  <2>. QED
    BY SMT, <2>1, <2>2
    DEF SoldInv, SoldTypeOK, SoldIsCounted, StartedOnce, UnbornInv, OneWayInv, OwnCalls, UpdateInv,
        AnnounceInv, Live, Unborn, BeingSet, BeingTaken, Doing, Updating
<1>2. CASE BothStep
  BY <1>2, SoldConversion, SoldCancelBy, SoldRestart DEF BothStep
<1>. QED  BY <1>1, <1>2, SoldMaker, SoldTaker DEF Next

=============================================================================
