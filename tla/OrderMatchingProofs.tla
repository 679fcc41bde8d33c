------------------------ MODULE OrderMatchingProofs ------------------------
(***************************************************************************)
(* The theorems about order matching, for any number of nodes, orders,     *)
(* takers, calls, restarts and failed writes: an order is never oversold,  *)
(* a started swap stays counted, a maker starts it once and a taker starts *)
(* the swap its maker did; an order that was removed is listed no longer,  *)
(* and its file is gone unless the handler of a request had the order.     *)
(***************************************************************************)
EXTENDS OrderChoiceProofs, FiniteSetTheorems

\* Zenon is the quicker of the two provers here, SMT the one that knows numbers and records.
USE ZenonT(30), SMTT(30)

-----------------------------------------------------------------------------
(* Volumes.                                                                *)

\* The units of volume of a taker.
UnitsOf(t, n) == {t} \X (1 .. n)

\* The volume reserved is a number.
LEMMA UnitsFinite ==
  ASSUME NEW matches
  PROVE  IsFiniteSet(Units(matches)) /\ Cardinality(Units(matches)) \in Nat
<1>1. IsFiniteSet(1 .. MaxVol)
  BY SMT, FS_Interval, OrdersAssumption
<1>2. IsFiniteSet(Takers \X (1 .. MaxVol))
  BY <1>1, FS_Product, OrdersAssumption
<1>3. Units(matches) \in SUBSET (Takers \X (1 .. MaxVol))
  BY DEF Units
<1>4. IsFiniteSet(Units(matches))
  BY <1>2, <1>3, FS_Subset
<1>. QED  BY <1>4, FS_CardinalityType

\* Nothing is reserved of a new order.
LEMMA NewOrderUnits ==
  ASSUME NEW ask
  PROVE  ReservedAmount(NewOrder(ask)) = 0
<1>1. Units(NewOrder(ask).matches) = {}
  BY SMT, OrdersAssumption DEF Units, NewOrder, NoMatch
<1>. QED  BY <1>1, FS_EmptySet DEF ReservedAmount

\* Smaller matches reserve less.
LEMMA FewerUnits ==
  ASSUME NEW m1 \in [Takers -> Match], NEW m2 \in [Takers -> Match],
         \A t \in Takers : m2[t].base <= m1[t].base
  PROVE  Cardinality(Units(m2)) <= Cardinality(Units(m1))
<1>1. Units(m2) \in SUBSET Units(m1)
  BY SMT, OrdersAssumption DEF Units, Match
<1>. QED  BY <1>1, UnitsFinite, FS_Subset

\* A match adds no more than its own volume.
LEMMA MoreUnits ==
  ASSUME NEW m1 \in [Takers -> Match], NEW t \in Takers, NEW m \in Match
  PROVE  Cardinality(Units([m1 EXCEPT ![t] = m])) <= Cardinality(Units(m1)) + m.base
<1>. DEFINE m2 == [m1 EXCEPT ![t] = m]
<1>1. m.base \in Nat
  BY DEF Match
<1>2. IsFiniteSet(1 .. m.base) /\ Cardinality(1 .. m.base) = m.base
  BY SMTT(30), <1>1, FS_Interval
<1>3. IsFiniteSet({t}) /\ Cardinality({t}) = 1
  BY FS_Singleton
<1>4. IsFiniteSet(UnitsOf(t, m.base)) /\ Cardinality(UnitsOf(t, m.base)) = m.base
  BY SMT, <1>1, <1>2, <1>3, FS_Product DEF UnitsOf
<1>5. Units(m2) \in SUBSET (Units(m1) \cup UnitsOf(t, m.base))
  BY SMT, <1>1, OrdersAssumption DEF Units, UnitsOf, Match
<1>6. IsFiniteSet(Units(m1)) /\ Cardinality(Units(m1)) \in Nat
  BY UnitsFinite
<1>7. /\ IsFiniteSet(Units(m1) \cup UnitsOf(t, m.base))
      /\ Cardinality(Units(m1) \cup UnitsOf(t, m.base))
           = Cardinality(Units(m1)) + m.base - Cardinality(Units(m1) \cap UnitsOf(t, m.base))
  BY <1>4, <1>6, FS_Union
<1>8. Cardinality(Units(m1) \cap UnitsOf(t, m.base)) \in Nat
  <2>1. Units(m1) \cap UnitsOf(t, m.base) \in SUBSET Units(m1)
    OBVIOUS
  <2>. QED  BY <1>6, <2>1, FS_Subset, FS_CardinalityType
<1>9. Cardinality(Units(m2)) <= Cardinality(Units(m1) \cup UnitsOf(t, m.base))
  BY Zenon, <1>5, <1>7, FS_Subset
<1>10. Cardinality(Units(m2)) \in Nat
  BY UnitsFinite
<1>. QED  BY SMT, <1>1, <1>6, <1>7, <1>8, <1>9, <1>10

-----------------------------------------------------------------------------
(* Orders that have what is reserved of them.                              *)

\* setprice.
LEMMA NewOrderFits ==
  ASSUME NEW o \in Makers
  PROVE  NewOrder(Ask[o]) \in FitOrder
<1>1. NewOrder(Ask[o]) \in MakerOrder
  BY NewOrderType
<1>2. NewOrder(Ask[o]).max <= MaxVol /\ NewOrder(Ask[o]).max >= 0
  BY SMT, OrdersAssumption DEF NewOrder
<1>. QED  BY <1>1, <1>2, NewOrderUnits DEF FitOrder

\* A converted taker order.
LEMMA FromTakerFits ==
  ASSUME NEW t \in Takers
  PROVE  FromTaker(t) \in FitOrder
<1>1. Request[t].base \in 1 .. MaxVol /\ Request[t].rel \in 1 .. MaxVol /\ MaxVol \in Nat
  BY OrdersAssumption
<1>2. PICK ask : /\ FromTaker(t) = NewOrder(ask)
                 /\ ask \in [max : 1 .. MaxVol, price : Price]
  BY SMT, <1>1 DEF FromTaker, Price
<1>3. NewOrder(ask) \in MakerOrder
  BY SMT, <1>1, <1>2 DEF NewOrder, MakerOrder, Match, NoMatch
<1>4. NewOrder(ask).max <= MaxVol /\ NewOrder(ask).max >= 0
  BY SMT, <1>1, <1>2 DEF NewOrder
<1>. QED  BY <1>2, <1>3, <1>4, NewOrderUnits DEF FitOrder

\* What a uuid stands for before it is issued.
LEMMA BlankFits ==
  ASSUME NEW o \in Orders
  PROVE  Blank(o) \in FitOrder
BY NewOrderFits, FromTakerFits DEF Blank, Orders

\* process_taker_request: the match is tested against what is available.
LEMMA ReserveFits ==
  ASSUME NEW c \in FitOrder, NEW t \in Takers, Enough(c, t)
  PROVE  [c EXCEPT !.matches[t] = [status |-> "reserved", base |-> MatchedBase(c, t),
                                   rel |-> MatchedRel(c, t)]] \in FitOrder
<1>. DEFINE m == [status |-> "reserved", base |-> MatchedBase(c, t), rel |-> MatchedRel(c, t)]
            d == [c EXCEPT !.matches[t] = m]
<1>1. c \in MakerOrder /\ c.max <= MaxVol /\ ReservedAmount(c) <= c.max
  BY DEF FitOrder
<1>2. MatchedBase(c, t) \in Nat /\ MatchedRel(c, t) \in Nat
  BY <1>1, MatchedNat
<1>3. m \in Match
  BY <1>2 DEF Match
<1>4. c.matches \in [Takers -> Match] /\ c.max \in Nat
  BY <1>1 DEF MakerOrder
<1>5. d.max = c.max /\ d.price = c.price /\ d.matches = [c.matches EXCEPT ![t] = m]
  BY <1>1 DEF MakerOrder
<1>6. d \in MakerOrder
  BY <1>1, <1>3, <1>4 DEF MakerOrder
<1>7. ReservedAmount(d) <= ReservedAmount(c) + MatchedBase(c, t)
  <2>1. Cardinality(Units([c.matches EXCEPT ![t] = m])) <= Cardinality(Units(c.matches)) + m.base
    BY <1>3, <1>4, MoreUnits
  <2>2. m.base = MatchedBase(c, t)
    OBVIOUS
  <2>. QED  BY <1>5, <2>1, <2>2 DEF ReservedAmount
<1>8. MatchedBase(c, t) <= c.max - ReservedAmount(c)
  BY DEF Enough, AvailableAmount
<1>9. ReservedAmount(c) \in Nat /\ ReservedAmount(d) \in Nat
  BY UnitsFinite DEF ReservedAmount
<1>10. ReservedAmount(d) <= d.max
  BY SMT, <1>2, <1>4, <1>5, <1>7, <1>8, <1>9
<1>. QED  BY Zenon, <1>1, <1>5, <1>6, <1>10 DEF FitOrder

\* Matches that do not grow leave the order fit.
LEMMA LessFits ==
  ASSUME NEW c \in FitOrder, NEW d \in MakerOrder, d.max = c.max,
         \A t \in Takers : d.matches[t].base <= c.matches[t].base
  PROVE  d \in FitOrder
<1>1. c \in MakerOrder /\ c.max <= MaxVol /\ ReservedAmount(c) <= c.max
  BY DEF FitOrder
<1>2. ReservedAmount(d) <= ReservedAmount(c)
  BY <1>1, FewerUnits DEF ReservedAmount, MakerOrder
<1>3. ReservedAmount(c) \in Nat /\ ReservedAmount(d) \in Nat /\ c.max \in Nat
  BY <1>1, UnitsFinite DEF ReservedAmount, MakerOrder
<1>. QED  BY SMT, <1>1, <1>2, <1>3 DEF FitOrder

\* A new volume that covers the reservations, at any price.
LEMMA ResizeFits ==
  ASSUME NEW c \in FitOrder, NEW max \in Nat, NEW price \in Price,
         max <= MaxVol, ReservedAmount(c) <= max
  PROVE  /\ [c EXCEPT !.max = max, !.price = price] \in FitOrder
         /\ [c EXCEPT !.max = max] \in FitOrder
<1>1. c \in MakerOrder
  BY DEF FitOrder
<1>2. ASSUME NEW d \in MakerOrder, d.max = max, d.matches = c.matches PROVE d \in FitOrder
  BY <1>2 DEF FitOrder, ReservedAmount
<1>3. /\ [c EXCEPT !.max = max, !.price = price] \in MakerOrder
      /\ [c EXCEPT !.max = max] \in MakerOrder
  BY Zenon, <1>1 DEF MakerOrder
<1>4. /\ [c EXCEPT !.max = max, !.price = price].max = max
      /\ [c EXCEPT !.max = max].max = max
      /\ [c EXCEPT !.max = max, !.price = price].matches = c.matches
      /\ [c EXCEPT !.max = max].matches = c.matches
  BY <1>1 DEF MakerOrder
<1>. QED  BY Zenon, <1>2, <1>3, <1>4

\* What a balance allows, when it is less than what is available.
LEMMA CutFits ==
  ASSUME NEW c \in FitOrder, NEW volume \in Balances, volume < AvailableAmount(c)
  PROVE  CutTo(c, volume) \in FitOrder
<1>1. c \in MakerOrder /\ c.max <= MaxVol /\ c.max \in Nat /\ c.price \in Price
  BY DEF FitOrder, MakerOrder
<1>2. ReservedAmount(c) \in Nat
  BY UnitsFinite DEF ReservedAmount
<1>3. volume \in Nat /\ MaxVol \in Nat
  BY SMT, BudgetAssumption, OrdersAssumption
<1>4. /\ ReservedAmount(c) + volume \in Nat
      /\ ReservedAmount(c) + volume <= MaxVol
      /\ ReservedAmount(c) <= ReservedAmount(c) + volume
  BY SMT, <1>1, <1>2, <1>3 DEF AvailableAmount
<1>. QED  BY Zenon, <1>1, <1>4, ResizeFits DEF CutTo

-----------------------------------------------------------------------------
(* No step breaks a volume.                                                *)

\* The volumes of others stand.
LEMMA VolumeFrame ==
  ASSUME VolumeInv, UNCHANGED <<owner, order, saved, rpc>>
  PROVE  VolumeInv'
BY DEF VolumeInv

\* One order in memory or in its file is replaced by one that fits.
LEMMA VolumePut ==
  ASSUME VolumeInv, UNCHANGED owner, rpc' \in [Nodes -> FitTask],
         \/ order' = order
         \/ \E o \in Orders, c \in FitOrder : order' = [order EXCEPT ![o] = c],
         \/ saved' = saved
         \/ \E o \in Orders, c \in FitOrder : saved' = [saved EXCEPT ![o] = c]
  PROVE  VolumeInv'
BY DEF VolumeInv

\* The handlers of messages and the files they write.
LEMMA VolumeHandler ==
  ASSUME VolumeInv, NEW o \in Orders, HandlerStep(o)
  PROVE  VolumeInv'
<1>. USE DEF swapVars, fileVars, bookVars
<1>1. order[o] \in FitOrder /\ order[o] \in MakerOrder
  BY DEF VolumeInv, FitOrder
<1>2. CASE Save(o)
  BY <1>1, <1>2, VolumePut DEF Save, VolumeInv
<1>3. CASE Delete(o)
  BY <1>3, BlankFits, VolumePut DEF Delete, DeleteFile, VolumeInv
<1>4. ASSUME NEW t \in Takers, ProcessTakerRequest(o, t) PROVE VolumeInv'
  <2>. DEFINE c == order[o]
              m == [status |-> "reserved", base |-> MatchedBase(c, t), rel |-> MatchedRel(c, t)]
  <2>1. [c EXCEPT !.matches[t] = m] \in FitOrder
    BY <1>1, <1>4, ReserveFits DEF ProcessTakerRequest, MatchWithRequest
  <2>2. order' = [order EXCEPT ![o] = [c EXCEPT !.matches[t] = m]]
    BY <1>4 DEF ProcessTakerRequest
  <2>. QED  BY <1>4, <2>1, <2>2, VolumePut DEF ProcessTakerRequest, VolumeInv
<1>5. ASSUME NEW t \in Takers, ProcessTakerConnect(o, t) PROVE VolumeInv'
  <2>. DEFINE d == [order[o] EXCEPT !.matches[t].status = "connected"]
  <2>1. d \in MakerOrder /\ d.max = order[o].max
    BY <1>1 DEF MakerOrder, Match
  <2>2. \A x \in Takers : d.matches[x].base = order[o].matches[x].base
    BY <1>1 DEF MakerOrder, Match
  <2>3. \A x \in Takers : order[o].matches[x].base \in Nat
    BY <1>1 DEF MakerOrder, Match
  <2>. HIDE DEF d
  <2>4. \A x \in Takers : d.matches[x].base <= order[o].matches[x].base
    BY SMT, <2>2, <2>3
  <2>5. d \in FitOrder
    BY <1>1, <2>1, <2>4, LessFits
  <2>. QED  BY <1>5, <2>5, VolumePut DEF ProcessTakerConnect, VolumeInv, d
<1>. QED  BY <1>2, <1>3, <1>4, <1>5 DEF HandlerStep

\* lp_ordermatch_loop.
LEMMA VolumeLoop ==
  ASSUME VolumeInv, NEW o \in Orders, LoopStep(o)
  PROVE  VolumeInv'
<1>. USE DEF swapVars, fileVars, bookVars, envVars
<1>1. order[o] \in FitOrder /\ order[o] \in MakerOrder
  BY DEF VolumeInv, FitOrder
<1>2. ASSUME NEW old \in SUBSET Takers, HandleTimedOutMakerMatches(o, old) PROVE VolumeInv'
  <2>. DEFINE rest == [t \in Takers |-> IF t \in old THEN NoMatch ELSE order[o].matches[t]]
              d == [order[o] EXCEPT !.matches = rest]
  <2>1. rest \in [Takers -> Match]
    BY <1>1 DEF MakerOrder, Match, NoMatch
  <2>2. d \in MakerOrder /\ d.max = order[o].max /\ d.matches = rest
    BY <1>1, <2>1 DEF MakerOrder
  <2>3. \A x \in Takers : rest[x].base <= order[o].matches[x].base
    BY SMT, <1>1 DEF MakerOrder, Match, NoMatch
  <2>4. d \in FitOrder
    BY Zenon, <1>1, <2>2, <2>3, LessFits
  <2>5. order' = [order EXCEPT ![o] = d]
    BY <1>2 DEF HandleTimedOutMakerMatches
  <2>. QED  BY Zenon, <1>2, <2>4, <2>5, VolumePut DEF HandleTimedOutMakerMatches, VolumeInv
<1>3. CASE CheckBalanceForMakerOrders(o)
  BY <1>3, VolumeFrame DEF CheckBalanceForMakerOrders, RemoveAndDelete
<1>4. ASSUME NEW volume \in Balances, CheckMissingOrder(o, volume) PROVE VolumeInv'
  <2>. DEFINE cut == IF volume < AvailableAmount(order[o]) THEN CutTo(order[o], volume)
                                                          ELSE order[o]
  <2>1. cut \in FitOrder
    BY <1>1, CutFits
  <2>2. order' = order \/ order' = [order EXCEPT ![o] = cut]
    BY <1>4 DEF CheckMissingOrder
  <2>. QED  BY <1>4, <2>1, <2>2, VolumePut DEF CheckMissingOrder, VolumeInv
<1>5. CASE LoopTaskStep(o)
  BY <1>5, VolumeFrame
  DEF LoopTaskStep, AnnounceMissingOrder, CancelMissingOrder, DeleteMissingOrder
<1>. QED  BY <1>2, <1>3, <1>4, <1>5 DEF LoopStep

\* The calls that set, update and cancel orders.
LEMMA VolumeRpc ==
  ASSUME VolumeInv, NEW n \in Nodes, RpcStep(n)
  PROVE  VolumeInv'
<1>. USE DEF swapVars, fileVars, bookVars, mapVars, envVars
<1>1. rpc[n] \in FitTask /\ Idle \in FitTask
  BY DEF VolumeInv, FitTask
<1>2. ASSUME NEW p \in Orders, CancelPreviousMakerOrder(n, p) PROVE VolumeInv'
  BY <1>2, VolumeFrame DEF CancelPreviousMakerOrder, RemoveAndDelete
<1>3. CASE SaveNewMakerOrder(n)
  <2>1. rpc[n].o \in Makers
    BY SMT, <1>1, <1>3 DEF SaveNewMakerOrder, FitTask, Idle
  <2>2. [op |-> "created", o |-> rpc[n].o] \in FitTask
    BY <2>1 DEF FitTask
  <2>3. rpc' \in [Nodes -> FitTask]
    BY <1>1, <1>3, <2>2 DEF SaveNewMakerOrder, VolumeInv
  <2>4. rpc[n].o \in Orders /\ NewOrder(Ask[rpc[n].o]) \in FitOrder
    BY <2>1, NewOrderFits DEF Orders
  <2>. QED  BY <1>3, <2>3, <2>4, VolumePut DEF SaveNewMakerOrder
<1>4. CASE AddNewMakerOrder(n)
  <2>1. rpc[n].o \in Makers
    BY SMT, <1>1, <1>4 DEF AddNewMakerOrder, FitTask, Idle
  <2>2. rpc' \in [Nodes -> FitTask]
    BY <1>1, <1>4 DEF AddNewMakerOrder, VolumeInv
  <2>3. rpc[n].o \in Orders /\ NewOrder(Ask[rpc[n].o]) \in FitOrder
    BY <2>1, NewOrderFits DEF Orders
  <2>. QED  BY Zenon, <1>4, <2>2, <2>3, VolumePut DEF AddNewMakerOrder
<1>5. ASSUME NEW ask \in NewAsks, ApplyUpdate(n, ask) PROVE VolumeInv'
  <2>1. rpc[n] \in [op : {"update", "updating"}, o : Orders, before : FitOrder]
    BY SMT, <1>1, <1>5 DEF ApplyUpdate, FitTask, Idle
  <2>2. [rpc[n] EXCEPT !.op = "updating"] \in FitTask
    <3>1. [rpc[n] EXCEPT !.op = "updating"]
            \in [op : {"update", "updating"}, o : Orders, before : FitOrder]
      BY <2>1
    <3>. QED  BY <3>1 DEF FitTask
  <2>3. rpc' \in [Nodes -> FitTask]
    BY <1>1, <1>5, <2>2 DEF ApplyUpdate, VolumeInv
  <2>. DEFINE o == rpc[n].o
              d == [order[o] EXCEPT !.max = ask.max, !.price = ask.price]
  <2>4. o \in Orders /\ order[o] \in FitOrder /\ order[o] \in MakerOrder
    BY <2>1 DEF VolumeInv, FitOrder
  <2>5. ask.max \in Nat /\ ask.max <= MaxVol /\ ask.price \in Price
    BY SMT, OrdersAssumption
  <2>6. CASE order' = order
    BY <1>5, <2>3, <2>6, VolumePut DEF ApplyUpdate
  <2>7. CASE /\ order[o] = rpc[n].before /\ ask.max > ReservedAmount(rpc[n].before)
             /\ order' = [order EXCEPT ![o].max = ask.max, ![o].price = ask.price]
    <3>1. ReservedAmount(order[o]) \in Nat
      BY UnitsFinite DEF ReservedAmount
    <3>2. d \in FitOrder
      <4>1. ReservedAmount(order[o]) <= ask.max
        BY SMT, <2>5, <2>7, <3>1
      <4>. QED  BY Zenon, <2>4, <2>5, <4>1, ResizeFits
    <3>3. order' = [order EXCEPT ![o] = d]
      BY Zenon, <2>4, <2>7 DEF VolumeInv, MakerOrder
    <3>. QED  BY Zenon, <1>5, <2>3, <2>4, <3>2, <3>3, VolumePut DEF ApplyUpdate
  <2>. QED  BY <1>5, <2>6, <2>7 DEF ApplyUpdate
<1>6. CASE SaveUpdate(n)
  <2>1. rpc[n] \in [op : {"update", "updating"}, o : Orders, before : FitOrder]
    BY SMT, <1>1, <1>6 DEF SaveUpdate, FitTask, Idle
  <2>2. rpc' \in [Nodes -> FitTask]
    BY <1>1, <1>6 DEF SaveUpdate, VolumeInv
  <2>3. rpc[n].o \in Orders /\ order[rpc[n].o] \in FitOrder /\ rpc[n].before \in FitOrder
    BY <2>1 DEF VolumeInv
  <2>. QED  BY <1>6, <2>2, <2>3, VolumePut DEF SaveUpdate
<1>. QED  BY <1>2, <1>3, <1>4, <1>5, <1>6 DEF RpcStep

\* Calls begin, balances change.
LEMMA VolumeCall ==
  ASSUME VolumeInv,
         \/ \E o \in Makers, cancel_previous \in BOOLEAN : SetPrice(o, cancel_previous)
         \/ \E o \in Orders : UpdateMakerOrder(o) \/ CancelMakerOrder(o)
         \/ \E o \in Orders, volume \in Balances : BalanceUpdated(o, volume)
  PROVE  VolumeInv'
<1>. USE DEF swapVars, fileVars, bookVars, mapVars
<1>1. ASSUME NEW o \in Makers, NEW cancel_previous \in BOOLEAN, SetPrice(o, cancel_previous)
      PROVE  VolumeInv'
  <2>1. [op |-> "setprice", o |-> o,
         prev |-> IF cancel_previous THEN orders \cap Own(owner[o]) \cap Makers ELSE {}]
          \in FitTask
    BY DEF FitTask, Orders
  <2>2. rpc' \in [Nodes -> FitTask]
    BY Zenon, <1>1, <2>1 DEF SetPrice, VolumeInv
  <2>. QED  BY <1>1, <2>2, VolumePut DEF SetPrice
<1>2. ASSUME NEW o \in Orders, UpdateMakerOrder(o) PROVE VolumeInv'
  <2>1. [op |-> "update", o |-> o, before |-> order[o]] \in FitTask
    BY DEF FitTask, VolumeInv
  <2>2. rpc' \in [Nodes -> FitTask]
    BY <1>2, <2>1 DEF UpdateMakerOrder, VolumeInv
  <2>. QED  BY <1>2, <2>2, VolumePut DEF UpdateMakerOrder
<1>3. ASSUME NEW o \in Orders, CancelMakerOrder(o) PROVE VolumeInv'
  BY <1>3, VolumeFrame DEF CancelMakerOrder, RemoveAndDelete
<1>4. ASSUME NEW o \in Orders, NEW volume \in Balances, BalanceUpdated(o, volume)
      PROVE  VolumeInv'
  <2>1. CASE order' = order
    BY <1>4, <2>1, VolumeFrame DEF BalanceUpdated, RemoveAndDelete
  <2>2. CASE /\ volume < AvailableAmount(order[o])
             /\ order' = [order EXCEPT ![o] = CutTo(order[o], volume)]
             /\ UNCHANGED fileVars
    <3>1. CutTo(order[o], volume) \in FitOrder
      BY <2>2, CutFits DEF VolumeInv
    <3>. QED  BY <1>4, <2>2, <3>1, VolumePut DEF BalanceUpdated, VolumeInv
  <2>. QED  BY <1>4, <2>1, <2>2 DEF BalanceUpdated, RemoveAndDelete
<1>. QED  BY <1>1, <1>2, <1>3, <1>4

\* The steps that touch both sides of a node.
LEMMA VolumeBoth ==
  ASSUME VolumeInv, BothStep
  PROVE  VolumeInv'
<1>. USE DEF swapVars, fileVars, bookVars, mapVars, envVars
<1>1. ASSUME NEW t \in Takers, ConversionStep(t) PROVE VolumeInv'
  <2>1. t \in Orders /\ FromTaker(t) \in FitOrder
    BY FromTakerFits DEF Orders
  <2>. QED  BY <1>1, <2>1, VolumePut
            DEF ConversionStep, AddConvertedOrder, SaveConvertedOrder,
                AnnounceConvertedOrder, VolumeInv
<1>2. ASSUME NEW n \in Nodes, CancelOrdersBy(n) PROVE VolumeInv'
  <2>1. [op |-> "cancel_by", left |-> orders \cap Own(n), chosen |-> {}] \in FitTask
    BY DEF FitTask, Own
  <2>2. rpc' \in [Nodes -> FitTask]
    BY <1>2, <2>1 DEF CancelOrdersBy, VolumeInv
  <2>. QED  BY <1>2, <2>2, VolumePut DEF CancelOrdersBy
<1>3. ASSUME NEW n \in Nodes, NEW o \in Orders, TestCancellable(n, o) PROVE VolumeInv'
  <2>1. rpc[n] \in [op : {"cancel_by"}, left : SUBSET Orders, chosen : SUBSET Orders]
    BY SMT, <1>3 DEF TestCancellable, VolumeInv, FitTask, Idle
  <2>2. ASSUME NEW left \in SUBSET Orders, NEW picked \in SUBSET Orders
        PROVE  [rpc[n] EXCEPT !.left = left, !.chosen = picked] \in FitTask
    BY Zenon, <2>1 DEF FitTask
  <2>3. rpc' \in [Nodes -> FitTask]
    BY Zenon, <1>3, <2>1, <2>2 DEF TestCancellable, VolumeInv
  <2>. QED  BY <1>3, <2>3, VolumePut DEF TestCancellable
<1>4. ASSUME NEW n \in Nodes, RemoveCancelled(n) PROVE VolumeInv'
  <2>1. rpc[n].chosen \in SUBSET Orders
    BY SMT, <1>4 DEF RemoveCancelled, VolumeInv, FitTask, Idle
  <2>2. [op |-> "cancelled_by", chosen |-> rpc[n].chosen,
         takers |-> {t \in takers \cap Own(n) : chosen[t] = {}}] \in FitTask
    BY <2>1 DEF FitTask, Own
  <2>3. rpc' \in [Nodes -> FitTask]
    BY <1>4, <2>2 DEF RemoveCancelled, VolumeInv
  <2>. QED  BY <1>4, <2>3, VolumePut DEF RemoveCancelled
<1>5. ASSUME NEW n \in Nodes, DeleteCancelled(n) PROVE VolumeInv'
  <2>1. rpc[n] \in [op : {"cancelled_by"}, chosen : SUBSET Orders, takers : SUBSET Orders]
    BY SMT, <1>5 DEF DeleteCancelled, VolumeInv, FitTask, Idle
  <2>2. ASSUME NEW o PROVE [rpc[n] EXCEPT !.chosen = @ \ {o}] \in FitTask
    BY <2>1 DEF FitTask
  <2>3. ASSUME NEW t PROVE [rpc[n] EXCEPT !.takers = @ \ {t}] \in FitTask
    BY <2>1 DEF FitTask
  <2>4. Idle \in FitTask
    BY DEF FitTask
  <2>5. rpc' \in [Nodes -> FitTask]
    <3>1. \E r \in FitTask : rpc' = [rpc EXCEPT ![n] = r]
      <4>1. \/ \E o : rpc' = [rpc EXCEPT ![n] = [rpc[n] EXCEPT !.chosen = @ \ {o}]]
            \/ \E t : rpc' = [rpc EXCEPT ![n] = [rpc[n] EXCEPT !.takers = @ \ {t}]]
            \/ rpc' = [rpc EXCEPT ![n] = Idle]
        BY Zenon, <1>5 DEF DeleteCancelled
      <4>. QED  BY Zenon, <2>2, <2>3, <2>4, <4>1
    <3>. QED  BY <3>1 DEF VolumeInv
  <2>6. \A o \in rpc[n].chosen : o \in Orders /\ Blank(o) \in FitOrder
    BY <2>1, BlankFits
  <2>. QED  BY <1>5, <2>5, <2>6, VolumePut DEF DeleteCancelled, DeleteFile
<1>6. ASSUME NEW n \in Nodes, Restart(n) PROVE VolumeInv'
  <2>1. Idle \in FitTask
    BY DEF FitTask
  <2>. QED  BY <1>6, <2>1 DEF Restart, MakerRestart, VolumeInv
<1>. QED  BY <1>1, <1>2, <1>3, <1>4, <1>5, <1>6 DEF BothStep, CancelByStep

\* Every step.
LEMMA VolumeNext ==
  ASSUME VolumeInv, [Next]_vars
  PROVE  VolumeInv'
<1>1. CASE MakerStep /\ UNCHANGED takerVars
  BY <1>1, VolumeHandler, VolumeLoop, VolumeRpc, VolumeCall DEF MakerStep
<1>2. CASE (\E t \in Takers : TakerStep(t)) /\ UNCHANGED makerVars
  <2>1. UNCHANGED owner
    BY <1>2
    DEF TakerStep, TakerTaskStep, LpAutoBuy, SaveNewTakerOrder, SaveTakerMatch,
        DeleteMyTakerOrder, MakerReservedArrives, ProcessMakerReserved,
        ProcessMakerConnected, HandleTimedOutTakerOrder, CancelTakerOrder, envVars
  <2>. QED  BY <1>2, <2>1, VolumeFrame DEF makerVars, mapVars, fileVars
<1>3. CASE BothStep
  BY <1>3, VolumeBoth
<1>4. CASE UNCHANGED vars
  BY <1>4, VolumeFrame DEF vars, envVars, makerVars, mapVars, fileVars
<1>. QED  BY <1>1, <1>2, <1>3, <1>4 DEF Next

-----------------------------------------------------------------------------
(* The messages behind both sides.                                         *)

\* A new order has nothing to announce.
LEMMA NewAnnounced ==
  /\ \A ms, o, ask : Announced(ms, o, NewOrder(ask))
  /\ \A ms, o, t : Announced(ms, o, FromTaker(t))
  /\ \A ms, o, x : Announced(ms, o, Blank(x))
<1>1. \A ms, o, ask : Announced(ms, o, NewOrder(ask))
  BY DEF Announced, NewOrder, NoMatch
<1>2. \A ms, o, t : Announced(ms, o, FromTaker(t))
  BY <1>1 DEF FromTaker
<1>. QED  BY <1>1, <1>2 DEF Blank

\* Messages stay, and only the matches of an order count.
LEMMA AnnouncedStays ==
  ASSUME NEW ms, NEW ms1, ms \subseteq ms1, NEW o, NEW c, NEW c1, Announced(ms, o, c),
         c1.matches = c.matches
  PROVE  Announced(ms1, o, c1)
BY DEF Announced

\* What a step has to leave alone on the maker side: every step but a connect.
MakerMsgsStay ==
  /\ msgs \subseteq msgs' /\ msgs' \subseteq Message
  /\ \A o \in Orders : \/ order'[o].matches = order[o].matches
                       \/ order'[o] = saved[o]
                       \/ Announced(msgs', o, order'[o])
  /\ \A o \in Orders : \/ saved'[o] \in {saved[o], order[o]}
                       \/ Announced(msgs', o, saved'[o])
  /\ \A n \in Nodes : rpc'[n].op \in {"update", "updating"} =>
       \/ /\ rpc[n].op \in {"update", "updating"}
          /\ rpc'[n].o = rpc[n].o /\ rpc'[n].before = rpc[n].before
       \/ rpc'[n].o \in Orders /\ rpc'[n].before = order[rpc'[n].o]
  /\ makerSwaps' = makerSwaps
  /\ \A o \in Orders, t \in Takers : ConnectedMsg(o, t) \in msgs' => ConnectedMsg(o, t) \in msgs

LEMMA MakerMsgsKeep ==
  ASSUME MakerMsgs, MakerMsgsStay
  PROVE  MakerMsgs'
<1>1. msgs \subseteq msgs' /\ msgs' \subseteq Message /\ makerSwaps' = makerSwaps
  BY DEF MakerMsgsStay
<1>2. ASSUME NEW o \in Orders
      PROVE  Announced(msgs', o, order'[o]) /\ Announced(msgs', o, saved'[o])
  <2>1. Announced(msgs, o, order[o]) /\ Announced(msgs, o, saved[o])
    BY DEF MakerMsgs
  <2>2. Announced(msgs', o, order[o]) /\ Announced(msgs', o, saved[o])
    BY <1>1, <2>1, AnnouncedStays
  <2>3. order'[o].matches = order[o].matches => Announced(msgs', o, order'[o])
    BY <1>1, <2>1, AnnouncedStays
  <2>. QED  BY <2>2, <2>3 DEF MakerMsgsStay
<1>3. ASSUME NEW n \in Nodes, rpc'[n].op \in {"update", "updating"}
      PROVE  Announced(msgs', rpc'[n].o, rpc'[n].before)
  <2>1. Announced(msgs, rpc'[n].o, rpc'[n].before)
    BY <1>3 DEF MakerMsgs, MakerMsgsStay
  <2>. QED  BY SMT, <1>1, <2>1, AnnouncedStays
<1>4. \A d \in makerSwaps' : ReservedMsg(d.o, d.t, d.base, d.rel) \in msgs'
  BY <1>1 DEF MakerMsgs
<1>5. \A o \in Orders, t \in Takers : ConnectedMsg(o, t) \in msgs' =>
        \E d \in makerSwaps' : d.o = o /\ d.t = t
  BY SMT, <1>1 DEF MakerMsgs, MakerMsgsStay
<1>. QED  BY <1>1, <1>2, <1>3, <1>4, <1>5 DEF MakerMsgs

\* process_taker_request announces what it reserves.
LEMMA MsgsRequest ==
  ASSUME VolumeInv, MakerMsgs, NEW o \in Orders, NEW t \in Takers, ProcessTakerRequest(o, t)
  PROVE  MakerMsgs'
<1>. DEFINE b == MatchedBase(order[o], t)
            r == MatchedRel(order[o], t)
<1>1. order \in [Orders -> FitOrder] /\ order[o] \in MakerOrder
  BY DEF VolumeInv, FitOrder
<1>2. b \in Nat /\ r \in Nat
  BY <1>1, MatchedNat
<1>3. /\ msgs' = msgs \cup {ReservedMsg(o, t, b, r)}
      /\ order' = [order EXCEPT ![o].matches[t] = [status |-> "reserved", base |-> b, rel |-> r]]
      /\ UNCHANGED <<saved, rpc, makerSwaps>>
  BY DEF ProcessTakerRequest, Broadcast, fileVars, swapVars
<1>. HIDE DEF b, r
<1>4. msgs' \subseteq Message
  BY <1>2, <1>3, Kinds DEF MakerMsgs
<1>5. /\ \A x \in Orders \ {o} : order'[x] = order[x]
      /\ \A x \in Takers \ {t} : order'[o].matches[x] = order[o].matches[x]
      /\ order'[o].matches[t].base = b /\ order'[o].matches[t].rel = r
  BY <1>1, <1>3 DEF MakerOrder
<1>6. Announced(msgs', o, order'[o])
  BY SMT, <1>3, <1>5 DEF Announced, MakerMsgs
<1>7. \A x \in Orders, y \in Takers : ConnectedMsg(x, y) \in msgs' => ConnectedMsg(x, y) \in msgs
  BY SMT, <1>3, Kinds
<1>8. MakerMsgsStay
  BY <1>3, <1>4, <1>5, <1>6, <1>7 DEF MakerMsgsStay
<1>. QED  BY <1>8, MakerMsgsKeep

\* process_taker_connect answers for a swap it starts, on a match it announced.
LEMMA MsgsConnect ==
  ASSUME VolumeInv, MakerMsgs, NEW o \in Orders, NEW t \in Takers, ProcessTakerConnect(o, t)
  PROVE  MakerMsgs'
<1>. DEFINE m == order[o].matches[t]
            d == [o |-> o, t |-> t, base |-> m.base, rel |-> m.rel]
<1>1. order \in [Orders -> FitOrder] /\ order[o] \in MakerOrder /\ m \in Match
  BY DEF VolumeInv, FitOrder, MakerOrder
<1>2. /\ order' = [order EXCEPT ![o].matches[t].status = "connected"]
      /\ m.status = "reserved"
      /\ makerSwaps' = makerSwaps \cup {d}
      /\ msgs' = msgs \cup {ConnectedMsg(o, t)}
      /\ UNCHANGED <<saved, rpc>>
  BY DEF ProcessTakerConnect, MayConnect, StartBob, Broadcast, fileVars
<1>3. msgs' \subseteq Message /\ msgs \subseteq msgs'
  BY SMT, <1>2, Kinds DEF MakerMsgs
<1>4. ReservedMsg(o, t, m.base, m.rel) \in msgs
  BY <1>2 DEF MakerMsgs, Announced
<1>5. /\ \A x \in Orders \ {o} : order'[x] = order[x]
      /\ \A x \in Takers \ {t} : order'[o].matches[x] = order[o].matches[x]
      /\ order'[o].matches[t].base = m.base /\ order'[o].matches[t].rel = m.rel
  BY <1>1, <1>2 DEF MakerOrder, Match
<1>6. ASSUME NEW x \in Orders
      PROVE  Announced(msgs', x, order'[x]) /\ Announced(msgs', x, saved'[x])
  BY SMT, <1>2, <1>3, <1>4, <1>5 DEF Announced, MakerMsgs
<1>7. \A n \in Nodes : rpc'[n].op \in {"update", "updating"} =>
        Announced(msgs', rpc'[n].o, rpc'[n].before)
  BY <1>2, <1>3 DEF MakerMsgs, Announced
<1>8. \A e \in makerSwaps' : ReservedMsg(e.o, e.t, e.base, e.rel) \in msgs'
  BY SMT, <1>2, <1>3, <1>4 DEF MakerMsgs
<1>9. d \in makerSwaps' /\ d.o = o /\ d.t = t
  BY <1>2
<1>. HIDE DEF d
<1>10. \A x \in Orders, y \in Takers : ConnectedMsg(x, y) \in msgs' =>
         \E e \in makerSwaps' : e.o = x /\ e.t = y
  <2>1. ASSUME NEW x \in Orders, NEW y \in Takers, ConnectedMsg(x, y) = ConnectedMsg(o, t)
        PROVE  x = o /\ y = t
    BY <2>1 DEF ConnectedMsg
  <2>. QED  BY SMT, <1>2, <1>9, <2>1 DEF MakerMsgs
<1>. QED  BY <1>3, <1>6, <1>7, <1>8, <1>10 DEF MakerMsgs

\* The other steps of the maker side send nothing.
LEMMA MsgsQuiet ==
  ASSUME MakerMsgs, UNCHANGED <<msgs, makerSwaps>>,
         \A o \in Orders : \/ order'[o].matches = order[o].matches
                           \/ order'[o] = saved[o]
                           \/ Announced(msgs, o, order'[o]),
         \A o \in Orders : saved'[o] \in {saved[o], order[o]} \/ Announced(msgs, o, saved'[o]),
         \A n \in Nodes : rpc'[n].op \in {"update", "updating"} =>
           \/ /\ rpc[n].op \in {"update", "updating"}
              /\ rpc'[n].o = rpc[n].o /\ rpc'[n].before = rpc[n].before
           \/ rpc'[n].o \in Orders /\ rpc'[n].before = order[rpc'[n].o]
  PROVE  MakerMsgs'
<1>1. MakerMsgsStay
  BY DEF MakerMsgsStay, MakerMsgs
<1>. QED  BY <1>1, MakerMsgsKeep

\* The steps on one order.
LEMMA MsgsOrder ==
  ASSUME VolumeInv, MakerMsgs, NEW o \in Orders,
         \/ LoopStep(o) \/ Save(o) \/ Delete(o) \/ CancelMakerOrder(o)
         \/ \E volume \in Balances : BalanceUpdated(o, volume)
         \/ \E n \in Nodes : CancelPreviousMakerOrder(n, o)
  PROVE  MakerMsgs'
<1>1. order \in [Orders -> FitOrder] /\ order[o] \in MakerOrder /\ saved \in [Orders -> FitOrder]
  BY DEF VolumeInv, FitOrder
<1>2. UNCHANGED <<msgs, makerSwaps, rpc>>
  BY DEF LoopStep, HandleTimedOutMakerMatches, CheckBalanceForMakerOrders, CheckMissingOrder,
         LoopTaskStep, AnnounceMissingOrder, CancelMissingOrder, DeleteMissingOrder, Save, Delete,
         CancelMakerOrder, BalanceUpdated, CancelPreviousMakerOrder, swapVars, envVars
<1>3. \A x \in Orders : saved'[x] \in {saved[x], order[x]} \/ Announced(msgs, x, saved'[x])
  <2>1. \/ saved' = saved
        \/ saved' = [saved EXCEPT ![o] = order[o]]
        \/ saved' = [saved EXCEPT ![o] = Blank(o)]
    BY DEF LoopStep, HandleTimedOutMakerMatches, CheckBalanceForMakerOrders, CheckMissingOrder,
           LoopTaskStep, AnnounceMissingOrder, CancelMissingOrder, DeleteMissingOrder, Save, Delete,
           CancelMakerOrder, BalanceUpdated, CancelPreviousMakerOrder, RemoveAndDelete, DeleteFile,
           fileVars
  <2>. QED  BY SMT, <1>1, <2>1, NewAnnounced
<1>4. \/ order' = order
      \/ \E volume \in Balances : order' = [order EXCEPT ![o] = CutTo(order[o], volume)]
      \/ \E old \in SUBSET Takers : HandleTimedOutMakerMatches(o, old)
  <2>1. ASSUME NEW volume \in Balances, CheckMissingOrder(o, volume)
        PROVE  order' = order \/ order' = [order EXCEPT ![o] = CutTo(order[o], volume)]
    BY <1>1, <2>1 DEF CheckMissingOrder
  <2>. QED
    BY <2>1
    DEF LoopStep, CheckBalanceForMakerOrders, LoopTaskStep, AnnounceMissingOrder, CancelMissingOrder,
        DeleteMissingOrder, Save, Delete, CancelMakerOrder, BalanceUpdated,
        CancelPreviousMakerOrder, RemoveAndDelete
<1>5. \A x \in Orders : order'[x].matches = order[x].matches \/ Announced(msgs, x, order'[x])
  <2>1. ASSUME NEW old \in SUBSET Takers, HandleTimedOutMakerMatches(o, old)
        PROVE  \A x \in Orders : order'[x].matches = order[x].matches \/ Announced(msgs, x, order'[x])
    <3>1. /\ \A x \in Orders \ {o} : order'[x] = order[x]
          /\ \A t \in Takers : order'[o].matches[t] \in {NoMatch, order[o].matches[t]}
      BY <1>1, <2>1 DEF HandleTimedOutMakerMatches, MakerOrder
    <3>2. Announced(msgs, o, order'[o])
      BY SMT, <3>1 DEF Announced, MakerMsgs, NoMatch
    <3>. QED  BY <3>1, <3>2
  <2>. QED  BY <1>4, <2>1, CutMatches
<1>. QED  BY <1>2, <1>3, <1>5, MsgsQuiet

\* The steps of calls.
LEMMA MsgsCall ==
  ASSUME VolumeInv, MakerMsgs,
         \/ \E n \in Nodes : \/ SaveNewMakerOrder(n) \/ AddNewMakerOrder(n) \/ SaveUpdate(n)
                             \/ \E ask \in NewAsks : ApplyUpdate(n, ask)
         \/ \E o \in Makers, cancel_previous \in BOOLEAN : SetPrice(o, cancel_previous)
         \/ \E o \in Orders : UpdateMakerOrder(o)
  PROVE  MakerMsgs'
<1>1. /\ order \in [Orders -> FitOrder] /\ saved \in [Orders -> FitOrder]
      /\ rpc \in [Nodes -> FitTask] /\ owner \in [Orders -> Nodes]
      /\ \A o \in Orders : order[o] \in MakerOrder
  BY DEF VolumeInv, FitOrder
<1>2. Idle.op = "idle"
  BY DEF Idle
<1>3. ASSUME NEW n \in Nodes, SaveNewMakerOrder(n)
      PROVE  MakerMsgs'
  <2>1. /\ UNCHANGED <<msgs, makerSwaps, order>>
        /\ saved' = saved \/ saved' = [saved EXCEPT ![rpc[n].o] = NewOrder(Ask[rpc[n].o])]
        /\ \E next \in {[op |-> "created", o |-> rpc[n].o], Idle} : rpc' = [rpc EXCEPT ![n] = next]
    BY <1>3 DEF SaveNewMakerOrder, mapVars, fileVars, swapVars
  <2>2. \A x \in Orders : saved'[x] = saved[x] \/ Announced(msgs, x, saved'[x])
    BY SMT, <1>1, <2>1, NewAnnounced
  <2>3. \A m \in Nodes : rpc'[m].op \in {"update", "updating"} => rpc'[m] = rpc[m]
    BY SMT, <1>1, <1>2, <2>1
  <2>. QED  BY <2>1, <2>2, <2>3, MsgsQuiet
<1>4. ASSUME NEW n \in Nodes, AddNewMakerOrder(n)
      PROVE  MakerMsgs'
  <2>1. /\ UNCHANGED <<msgs, makerSwaps, saved>>
        /\ order' = [order EXCEPT ![rpc[n].o] = NewOrder(Ask[rpc[n].o])]
        /\ rpc' = [rpc EXCEPT ![n] = Idle]
    BY <1>4 DEF AddNewMakerOrder, fileVars, swapVars, envVars
  <2>2. \A x \in Orders : order'[x] = order[x] \/ Announced(msgs, x, order'[x])
    BY <1>1, <2>1, NewAnnounced
  <2>3. \A m \in Nodes : rpc'[m].op \in {"update", "updating"} => rpc'[m] = rpc[m]
    BY <1>1, <1>2, <2>1
  <2>. QED  BY <2>1, <2>2, <2>3, MsgsQuiet
<1>5. ASSUME NEW n \in Nodes, SaveUpdate(n)
      PROVE  MakerMsgs'
  <2>1. PICK o \in Orders : o = rpc[n].o /\ rpc[n].op = "updating"
    BY SMT, <1>1, <1>5 DEF SaveUpdate, FitTask, Idle
  <2>2. /\ UNCHANGED <<msgs, makerSwaps>>
        /\ order' = order \/ order' = [order EXCEPT ![o] = rpc[n].before]
        /\ saved' = saved \/ saved' = [saved EXCEPT ![o] = order[o]]
        /\ rpc' = [rpc EXCEPT ![n] = Idle]
    BY <1>5, <2>1 DEF SaveUpdate, fileVars, swapVars
  <2>3. Announced(msgs, o, rpc[n].before)
    BY <2>1 DEF MakerMsgs
  <2>4. /\ \A x \in Orders : order'[x] = order[x] \/ Announced(msgs, x, order'[x])
        /\ \A x \in Orders : saved'[x] \in {saved[x], order[x]}
    BY <1>1, <2>2, <2>3
  <2>5. \A m \in Nodes : rpc'[m].op \in {"update", "updating"} => rpc'[m] = rpc[m]
    BY <1>1, <1>2, <2>2
  <2>. QED  BY <2>2, <2>4, <2>5, MsgsQuiet
<1>6. ASSUME NEW n \in Nodes, NEW ask \in NewAsks, ApplyUpdate(n, ask)
      PROVE  MakerMsgs'
  <2>1. PICK o \in Orders : o = rpc[n].o /\ rpc[n].op = "update"
    BY SMT, <1>1, <1>6 DEF ApplyUpdate, FitTask, Idle
  <2>2. /\ UNCHANGED <<msgs, makerSwaps, saved>>
        /\ order' = order \/ order' = [order EXCEPT ![o].max = ask.max, ![o].price = ask.price]
        /\ rpc' = [rpc EXCEPT ![n] = Idle] \/ rpc' = [rpc EXCEPT ![n].op = "updating"]
    BY <1>6, <2>1 DEF ApplyUpdate, fileVars, swapVars, envVars
  <2>3. \A x \in Orders : order'[x].matches = order[x].matches
    BY SMT, <1>1, <2>2 DEF MakerOrder
  <2>4. \A m \in Nodes : rpc'[m].op \in {"update", "updating"} =>
          /\ rpc[m].op \in {"update", "updating"}
          /\ rpc'[m].o = rpc[m].o /\ rpc'[m].before = rpc[m].before
    BY SMT, <1>1, <1>2, <2>1, <2>2 DEF FitTask, Idle
  <2>. QED  BY <2>2, <2>3, <2>4, MsgsQuiet
<1>7. ASSUME NEW o \in Makers, NEW cancel_previous \in BOOLEAN, SetPrice(o, cancel_previous)
      PROVE  MakerMsgs'
  <2>1. PICK next : next.op = "setprice" /\ rpc' = [rpc EXCEPT ![owner[o]] = next]
    <3>. DEFINE p == IF cancel_previous THEN orders \cap Own(owner[o]) \cap Makers ELSE {}
                next == [op |-> "setprice", o |-> o, prev |-> p]
    <3>1. next.op = "setprice" /\ rpc' = [rpc EXCEPT ![owner[o]] = next]
      BY <1>7 DEF SetPrice
    <3>. QED  BY Zenon, <3>1
  <2>2. UNCHANGED <<msgs, makerSwaps, order, saved>>
    BY <1>7 DEF SetPrice, mapVars, fileVars, swapVars
  <2>3. \A m \in Nodes : rpc'[m].op \in {"update", "updating"} => rpc'[m] = rpc[m]
    BY <1>1, <2>1
  <2>. QED  BY <2>2, <2>3, MsgsQuiet
<1>8. ASSUME NEW o \in Orders, UpdateMakerOrder(o)
      PROVE  MakerMsgs'
  <2>1. /\ UNCHANGED <<msgs, makerSwaps, order, saved>>
        /\ rpc' = [rpc EXCEPT ![owner[o]] = [op |-> "update", o |-> o, before |-> order[o]]]
    BY <1>8 DEF UpdateMakerOrder, mapVars, fileVars, swapVars
  <2>2. \A m \in Nodes : \/ rpc'[m] = rpc[m]
                         \/ rpc'[m].o = o /\ rpc'[m].before = order[o]
    BY <1>1, <2>1
  <2>. QED  BY <2>1, <2>2, MsgsQuiet
<1>. QED  BY <1>3, <1>4, <1>5, <1>6, <1>7, <1>8

\* Every step of the maker side.
LEMMA MsgsMaker ==
  ASSUME VolumeInv, MakerMsgs, MakerStep
  PROVE  MakerMsgs'
<1>1. ASSUME NEW o \in Orders, HandlerStep(o)
      PROVE  MakerMsgs'
  BY <1>1, MsgsOrder, MsgsRequest, MsgsConnect DEF HandlerStep
<1>2. ASSUME NEW n \in Nodes, RpcStep(n)
      PROVE  MakerMsgs'
  BY <1>2, MsgsOrder, MsgsCall DEF RpcStep
<1>. QED  BY <1>1, <1>2, MsgsOrder, MsgsCall DEF MakerStep

\* The taker side sends requests and connects.
LEMMA MsgsTaker ==
  ASSUME VolumeInv, SoldInv, DealInv, NEW t \in Takers, TakerStep(t), UNCHANGED makerVars
  PROVE  MakerMsgs' /\ msgs \subseteq msgs'
<1>1. UNCHANGED <<order, saved, rpc, makerSwaps>>
  BY DEF makerVars, mapVars, fileVars, swapVars
<1>2. \/ msgs' = msgs
      \/ msgs' = msgs \cup {RequestMsg(t)}
      \/ \E o \in Orders : msgs' = msgs \cup {ConnectMsg(o, t)}
  <2>1. ASSUME ProcessMakerReserved(t)
        PROVE  msgs' = msgs \/ \E o \in Orders : msgs' = msgs \cup {ConnectMsg(o, t)}
    <3>1. \A m \in pending[t] : m.o \in Orders
      BY Kinds DEF DealInv, TakerMsgs
    <3>. QED  BY Zenon, <2>1, <3>1 DEF ProcessMakerReserved, Broadcast
  <2>. QED
    BY <2>1
    DEF TakerStep, TakerTaskStep, LpAutoBuy, SaveNewTakerOrder, SaveTakerMatch, DeleteMyTakerOrder,
        MakerReservedArrives, ProcessMakerConnected, HandleTimedOutTakerOrder, CancelTakerOrder,
        Broadcast, envVars
<1>3. msgs' \subseteq Message /\ msgs \subseteq msgs'
  BY <1>2, Kinds DEF DealInv, MakerMsgs
<1>4. \A x \in Orders, y \in Takers : ConnectedMsg(x, y) \in msgs' => ConnectedMsg(x, y) \in msgs
  BY SMT, <1>2, Kinds
<1>5. MakerMsgsStay
  BY <1>1, <1>3, <1>4 DEF MakerMsgsStay
<1>. QED  BY <1>3, <1>5, MakerMsgsKeep DEF DealInv

\* The steps on both sides send nothing.
LEMMA MsgsBoth ==
  ASSUME VolumeInv, MakerMsgs, BothStep
  PROVE  MakerMsgs'
<1>1. UNCHANGED <<msgs, makerSwaps>>
  BY Zenon DEF BothStep, ConversionStep, AddConvertedOrder, SaveConvertedOrder, AnnounceConvertedOrder,
         CancelOrdersBy, CancelByStep, TestCancellable, RemoveCancelled, DeleteCancelled, Restart,
         MakerRestart, swapVars, envVars
<1>2. /\ order \in [Orders -> FitOrder] /\ saved \in [Orders -> FitOrder]
      /\ rpc \in [Nodes -> FitTask]
  BY DEF VolumeInv
<1>3. Idle.op = "idle"
  BY DEF Idle
<1>4. ASSUME NEW t \in Takers, ConversionStep(t)
      PROVE  MakerMsgs'
  <2>1. /\ order' = order \/ order' = [order EXCEPT ![t] = FromTaker(t)]
        /\ saved' = saved \/ saved' = [saved EXCEPT ![t] = FromTaker(t)]
        /\ rpc' = rpc
    BY <1>4 DEF ConversionStep, AddConvertedOrder, SaveConvertedOrder, AnnounceConvertedOrder,
                mapVars, fileVars
  <2>2. \A x \in Orders : /\ order'[x] = order[x] \/ Announced(msgs, x, order'[x])
                          /\ saved'[x] = saved[x] \/ Announced(msgs, x, saved'[x])
    BY SMT, <1>2, <2>1, NewAnnounced
  <2>. QED  BY <1>1, <2>1, <2>2, MsgsQuiet
<1>5. ASSUME NEW n \in Nodes, CancelOrdersBy(n) \/ CancelByStep(n)
      PROVE  MakerMsgs'
  <2>1. /\ order' = order
        /\ saved' = saved \/ \E o \in rpc[n].chosen : saved' = [saved EXCEPT ![o] = Blank(o)]
    BY Zenon, <1>5 DEF CancelOrdersBy, CancelByStep, TestCancellable, RemoveCancelled, DeleteCancelled,
                DeleteFile, mapVars, fileVars
  <2>2. \A x \in Orders : saved'[x] = saved[x] \/ Announced(msgs, x, saved'[x])
    BY SMT, <1>2, <2>1, NewAnnounced
  <2>3. \A m \in Nodes : m # n => rpc'[m] = rpc[m]
    BY Zenon, <1>2, <1>5 DEF CancelOrdersBy, CancelByStep, TestCancellable, RemoveCancelled, DeleteCancelled
  <2>4. rpc'[n].op \in {"cancel_by", "cancelled_by", "idle"}
    <3>1. CASE CancelOrdersBy(n) \/ RemoveCancelled(n)
      BY SMT, <1>2, <3>1 DEF CancelOrdersBy, RemoveCancelled
    <3>2. ASSUME NEW o \in Orders, TestCancellable(n, o)
          PROVE  rpc'[n].op \in {"cancel_by", "cancelled_by", "idle"}
      BY <1>2, <3>2 DEF TestCancellable, FitTask, Idle
    <3>3. CASE DeleteCancelled(n)
      BY SMT, <1>2, <1>3, <3>3 DEF DeleteCancelled, FitTask, Idle
    <3>. QED  BY <1>5, <3>1, <3>2, <3>3 DEF CancelByStep
  <2>5. \A m \in Nodes : rpc'[m].op \in {"update", "updating"} => rpc'[m] = rpc[m]
    BY <2>3, <2>4
  <2>. QED  BY <1>1, <2>1, <2>2, <2>5, MsgsQuiet
<1>6. ASSUME NEW n \in Nodes, Restart(n)
      PROVE  MakerMsgs'
  <2>1. /\ \A x \in Orders : order'[x] \in {order[x], saved[x]}
        /\ saved' = saved
        /\ rpc' = [rpc EXCEPT ![n] = Idle]
    BY <1>6 DEF Restart, MakerRestart, fileVars
  <2>2. \A m \in Nodes : rpc'[m].op \in {"update", "updating"} => rpc'[m] = rpc[m]
    BY <1>2, <1>3, <2>1
  <2>. QED  BY <1>1, <2>1, <2>2, MsgsQuiet
<1>. QED  BY <1>4, <1>5, <1>6 DEF BothStep

\* A step that starts no swap of a taker.
LEMMA TakerMsgsKeep ==
  ASSUME TakerMsgs, msgs \subseteq msgs', makerSwaps \subseteq makerSwaps', takerSwaps' = takerSwaps,
         chosen' \in [Takers -> SUBSET Reserved],
         takerSaved' \in [Takers -> SUBSET Reserved],
         pending' \in [Takers -> SUBSET Reserved],
         \A t \in Takers : \A m \in Kept(t)' : m \in Kept(t) \/ (m \in msgs /\ m.t = t)
  PROVE  TakerMsgs'
<1>1. TakerDealIsMakers'
  BY SMT DEF TakerMsgs, TakerDealIsMakers
<1>2. \A t \in Takers : \A m \in Kept(t)' : m \in msgs' /\ m.t = t
  BY DEF TakerMsgs
<1>. QED  BY <1>1, <1>2 DEF TakerMsgs

\* process_maker_connected: the maker answered for the order that was chosen.  It has a swap
\* with this taker, and if it is for other amounts the maker had reserved twice.
LEMMA TakerConnected ==
  ASSUME SoldInv, DealInv, NEW o \in Orders, NEW t \in Takers, ProcessMakerConnected(o, t),
         makerSwaps' = makerSwaps
  PROVE  TakerMsgs'
<1>1. PICK m \in chosen[t] :
        /\ m.o = o
        /\ takerSwaps' = takerSwaps \cup {[o |-> o, t |-> t, base |-> m.base, rel |-> m.rel]}
  BY DEF ProcessMakerConnected, ConnectedAlice, IsChosen
<1>2. /\ m \in Reserved /\ m \in msgs /\ m.t = t /\ m = ReservedMsg(o, t, m.base, m.rel)
      /\ m.type = "reserved"
  <2>1. m \in Reserved /\ m \in Kept(t)
    BY DEF DealInv, TakerMsgs, Kept
  <2>2. m \in msgs /\ m.t = t
    BY <2>1 DEF DealInv, TakerMsgs
  <2>. QED  BY <1>1, <2>1, <2>2, Kinds DEF ReservedMsg, Reserved
<1>3. PICK e \in makerSwaps : e.o = o /\ e.t = t
  BY DEF DealInv, MakerMsgs, ProcessMakerConnected
<1>4. e \in Deal /\ ReservedMsg(o, t, e.base, e.rel) \in msgs
  BY <1>3 DEF SoldInv, SoldTypeOK, DealInv, MakerMsgs
<1>. DEFINE d == [o |-> o, t |-> t, base |-> m.base, rel |-> m.rel]
            r == ReservedMsg(o, t, e.base, e.rel)
<1>5. r.type = "reserved" /\ r.o = o /\ r.t = t /\ r.base = e.base /\ r.rel = e.rel
  BY DEF ReservedMsg
<1>6. d # e => m # r
  BY <1>3, <1>4, <1>5 DEF Deal
<1>7. d.o = o /\ d.t = t
  OBVIOUS
<1>8. UNCHANGED <<msgs, takerSaved, pending>> /\ takerSwaps' = takerSwaps \cup {d}
  BY <1>1 DEF ProcessMakerConnected, takerFileVars, pendingVars, envVars
<1>9. /\ chosen' \in [Takers -> SUBSET Reserved]
      /\ \A x \in Takers : chosen'[x] \subseteq chosen[x]
  <2>1. chosen' = [x \in Takers |-> IF x \in {t} THEN {} ELSE chosen[x]]
    BY DEF ProcessMakerConnected, RemoveTaker
  <2>. QED  BY <2>1 DEF DealInv, TakerMsgs
<1>. HIDE DEF d, r
<1>10. TakerDealIsMakers'
  <2>1. ASSUME NEW c \in takerSwaps'
        PROVE  \/ c \in makerSwaps
               \/ /\ \E e1 \in makerSwaps : e1.o = c.o /\ e1.t = c.t
                  /\ \E m1, m2 \in msgs :
                       /\ m1.type = "reserved" /\ m2.type = "reserved" /\ m1 # m2
                       /\ m1.o = c.o /\ m2.o = c.o /\ m1.t = c.t /\ m2.t = c.t
    <3>1. CASE c \in takerSwaps
      BY <3>1 DEF DealInv, TakerMsgs, TakerDealIsMakers
    <3>2. CASE c = d /\ d # e
      <4>1. r \in msgs
        BY <1>4 DEF r
      <4>. QED  BY <1>1, <1>2, <1>3, <1>5, <1>6, <1>7, <3>2, <4>1
    <3>3. CASE c = d /\ d = e
      BY <3>3
    <3>. QED  BY <1>8, <3>1, <3>2, <3>3
  <2>. QED  BY <1>8, <2>1 DEF TakerDealIsMakers
<1>11. \A x \in Takers : \A y \in Kept(x)' : y \in msgs' /\ y.t = x
  BY <1>8, <1>9 DEF Kept, DealInv, TakerMsgs
<1>. QED  BY <1>8, <1>9, <1>10, <1>11 DEF TakerMsgs, DealInv

\* The other steps of the taker side keep messages they had, or take one that was sent.
LEMMA TakerMsgsTaker ==
  ASSUME VolumeInv, SoldInv, DealInv, NEW t \in Takers, TakerStep(t), UNCHANGED makerVars
  PROVE  TakerMsgs'
<1>1. makerSwaps' = makerSwaps /\ msgs \subseteq msgs'
  BY MsgsTaker DEF makerVars, swapVars
<1>2. /\ chosen \in [Takers -> SUBSET Reserved]
      /\ takerSaved \in [Takers -> SUBSET Reserved]
      /\ pending \in [Takers -> SUBSET Reserved]
      /\ msgs \subseteq Message
  BY DEF DealInv, TakerMsgs, MakerMsgs
<1>3. ASSUME NEW o \in Orders, ProcessMakerConnected(o, t)
      PROVE  TakerMsgs'
  BY <1>1, <1>3, TakerConnected
<1>4. SUFFICES ASSUME \A o \in Orders : ~ProcessMakerConnected(o, t)
               PROVE  /\ takerSwaps' = takerSwaps
                      /\ chosen' \in [Takers -> SUBSET Reserved]
                      /\ takerSaved' \in [Takers -> SUBSET Reserved]
                      /\ pending' \in [Takers -> SUBSET Reserved]
                      /\ \A x \in Takers : \A m \in Kept(x)' : m \in Kept(x) \/ (m \in msgs /\ m.t = x)
  BY <1>1, <1>3, TakerMsgsKeep DEF DealInv
<1>5. CASE LpAutoBuy(t) \/ SaveNewTakerOrder(t)
  <2>1. UNCHANGED <<chosen, takerSaved, pending, takerSwaps>>
    BY <1>5 DEF LpAutoBuy, SaveNewTakerOrder, takerMapVars, takerFileVars, pendingVars
  <2>. QED  BY <1>2, <2>1 DEF Kept
<1>6. CASE SaveTakerMatch(t) \/ DeleteMyTakerOrder(t)
  <2>1. /\ UNCHANGED <<chosen, pending, takerSwaps>>
        /\ \/ takerSaved' = takerSaved
           \/ \E s \in {chosen[t], {}} : takerSaved' = [takerSaved EXCEPT ![t] = s]
    BY <1>6 DEF SaveTakerMatch, DeleteMyTakerOrder, DeleteTakerFile, takerMapVars, takerFileVars,
                pendingVars
  <2>. QED  BY <1>2, <2>1 DEF Kept
<1>7. ASSUME NEW m \in msgs, m.t = t, MakerReservedArrives(m)
      PROVE  /\ takerSwaps' = takerSwaps
             /\ chosen' \in [Takers -> SUBSET Reserved]
             /\ takerSaved' \in [Takers -> SUBSET Reserved]
             /\ pending' \in [Takers -> SUBSET Reserved]
             /\ \A x \in Takers : \A y \in Kept(x)' : y \in Kept(x) \/ (y \in msgs /\ y.t = x)
  <2>1. /\ UNCHANGED <<chosen, takerSaved, takerSwaps>>
        /\ pending' = [pending EXCEPT ![t] = @ \cup {m}]
        /\ m.type = "reserved"
    BY <1>7 DEF MakerReservedArrives, takerMapVars, takerFileVars
  <2>2. m \in Reserved
    BY <1>2, <2>1, Kinds
  <2>. QED  BY <1>2, <1>7, <2>1, <2>2 DEF Kept
<1>8. CASE ProcessMakerReserved(t)
  <2>1. /\ UNCHANGED <<takerSaved, takerSwaps>>
        /\ pending' = pending \/ pending' = [pending EXCEPT ![t] = {}]
        /\ chosen' = chosen \/ \E m \in pending[t] : chosen' = [chosen EXCEPT ![t] = {m}]
    BY Zenon, <1>8 DEF ProcessMakerReserved, ClearPending, takerFileVars
  <2>. QED  BY SMT, <1>2, <2>1 DEF Kept
<1>9. CASE HandleTimedOutTakerOrder(t) \/ CancelTakerOrder(t)
  <2>1. /\ UNCHANGED <<takerSaved, pending, takerSwaps>>
        /\ chosen' = [x \in Takers |-> IF x \in {t} THEN {} ELSE chosen[x]]
    BY <1>9 DEF HandleTimedOutTakerOrder, CancelTakerOrder, RemoveTaker, takerFileVars, pendingVars
  <2>. QED  BY <1>2, <2>1 DEF Kept
<1>. QED  BY <1>4, <1>5, <1>6, <1>7, <1>8, <1>9 DEF TakerStep, TakerTaskStep

\* So do the steps on both sides.
LEMMA TakerMsgsBoth ==
  ASSUME DealInv, BothStep
  PROVE  TakerMsgs'
<1>1. UNCHANGED <<msgs, makerSwaps, takerSwaps>>
  BY Zenon DEF BothStep, ConversionStep, AddConvertedOrder, SaveConvertedOrder, AnnounceConvertedOrder,
         CancelOrdersBy, CancelByStep, TestCancellable, RemoveCancelled, DeleteCancelled, Restart,
         MakerRestart, TakerRestart, swapVars, takerVars, envVars
<1>2. /\ chosen \in [Takers -> SUBSET Reserved]
      /\ takerSaved \in [Takers -> SUBSET Reserved]
      /\ pending \in [Takers -> SUBSET Reserved]
  BY DEF DealInv, TakerMsgs
<1>3. /\ \/ takerSaved' = takerSaved
         \/ \E t : takerSaved' = [takerSaved EXCEPT ![t] = {}]
      /\ \/ chosen' = chosen
         \/ \E ts : chosen' = [x \in Takers |-> IF x \in ts THEN {} ELSE chosen[x]]
         \/ \E ts : chosen' = [x \in Takers |-> IF x \in ts THEN takerSaved[x] ELSE chosen[x]]
      /\ \/ pending' = pending
         \/ \E ts : pending' = [x \in Takers |-> IF x \in ts THEN {} ELSE pending[x]]
  <2>1. ASSUME NEW t \in Takers, ConversionStep(t)
        PROVE  /\ takerSaved' = takerSaved \/ takerSaved' = [takerSaved EXCEPT ![t] = {}]
               /\ UNCHANGED <<chosen, pending>>
    BY <2>1 DEF ConversionStep, AddConvertedOrder, SaveConvertedOrder, AnnounceConvertedOrder,
                DeleteTakerFile, takerMapVars, takerFileVars, pendingVars
  <2>2. ASSUME NEW n \in Nodes, CancelOrdersBy(n) \/ \E o \in Orders : TestCancellable(n, o)
        PROVE  UNCHANGED <<takerSaved, chosen, pending>>
    BY Zenon, <2>2 DEF CancelOrdersBy, TestCancellable, takerVars, takerMapVars, takerFileVars, pendingVars
  <2>3. ASSUME NEW n \in Nodes, RemoveCancelled(n)
        PROVE  /\ UNCHANGED <<takerSaved, pending>>
               /\ \E ts : chosen' = [x \in Takers |-> IF x \in ts THEN {} ELSE chosen[x]]
    BY Zenon, <2>3 DEF RemoveCancelled, RemoveTaker, takerFileVars, pendingVars
  <2>4. ASSUME NEW n \in Nodes, DeleteCancelled(n)
        PROVE  /\ UNCHANGED <<chosen, pending>>
               /\ takerSaved' = takerSaved \/ \E t : takerSaved' = [takerSaved EXCEPT ![t] = {}]
    BY <2>4 DEF DeleteCancelled, DeleteTakerFile, takerMapVars, takerFileVars, pendingVars
  <2>5. ASSUME NEW n \in Nodes, Restart(n)
        PROVE  /\ UNCHANGED takerSaved
               /\ \E ts : chosen' = [x \in Takers |-> IF x \in ts THEN takerSaved[x] ELSE chosen[x]]
               /\ \E ts : pending' = [x \in Takers |-> IF x \in ts THEN {} ELSE pending[x]]
    BY <2>5 DEF Restart, TakerRestart, takerFileVars
  <2>. QED  BY <2>1, <2>2, <2>3, <2>4, <2>5 DEF BothStep, CancelByStep
<1>4. takerSaved' \in [Takers -> SUBSET Reserved] /\ \A x \in Takers : takerSaved'[x] \subseteq takerSaved[x]
  BY <1>2, <1>3
<1>5. /\ chosen' \in [Takers -> SUBSET Reserved]
      /\ \A x \in Takers : chosen'[x] \subseteq chosen[x] \cup takerSaved[x]
  BY <1>2, <1>3
<1>6. pending' \in [Takers -> SUBSET Reserved] /\ \A x \in Takers : pending'[x] \subseteq pending[x]
  BY <1>2, <1>3
<1>7. \A x \in Takers : \A m \in Kept(x)' : m \in Kept(x)
  BY <1>4, <1>5, <1>6 DEF Kept
<1>. QED  BY <1>1, <1>4, <1>5, <1>6, <1>7, TakerMsgsKeep DEF DealInv

\* Every step keeps the messages behind both sides.
LEMMA DealNext ==
  ASSUME VolumeInv, SoldInv, DealInv, [Next]_vars
  PROVE  DealInv'
<1>1. CASE UNCHANGED vars
  <2>1. UNCHANGED <<msgs, order, saved, rpc, makerSwaps, chosen, takerSaved, pending, takerSwaps>>
    BY <1>1 DEF vars, envVars, makerVars, mapVars, fileVars, swapVars, takerVars, takerMapVars,
                takerFileVars, pendingVars
  <2>. QED  BY <2>1 DEF DealInv, MakerMsgs, TakerMsgs, TakerDealIsMakers, Kept
<1>2. CASE MakerStep /\ UNCHANGED takerVars
  <2>1. MakerMsgs'
    BY <1>2, MsgsMaker DEF DealInv
  <2>2. msgs \subseteq msgs' /\ makerSwaps \subseteq makerSwaps'
    BY <1>2, MakerFrame
  <2>3. UNCHANGED <<chosen, takerSaved, pending, takerSwaps>>
    BY <1>2 DEF takerVars, takerMapVars, takerFileVars, pendingVars
  <2>4. TakerMsgs'
    <3>1. \A x : Kept(x)' = Kept(x)
      BY <2>3 DEF Kept
    <3>2. /\ chosen \in [Takers -> SUBSET Reserved]
          /\ takerSaved \in [Takers -> SUBSET Reserved]
          /\ pending \in [Takers -> SUBSET Reserved]
          /\ TakerMsgs
      BY DEF DealInv, TakerMsgs
    <3>. QED  BY <2>2, <2>3, <3>1, <3>2, TakerMsgsKeep
  <2>. QED  BY <2>1, <2>4 DEF DealInv
<1>3. ASSUME NEW t \in Takers, TakerStep(t), UNCHANGED makerVars
      PROVE  DealInv'
  BY <1>3, MsgsTaker, TakerMsgsTaker DEF DealInv
<1>4. CASE BothStep
  BY <1>4, MsgsBoth, TakerMsgsBoth DEF DealInv
<1>. QED  BY <1>1, <1>2, <1>3, <1>4 DEF Next

-----------------------------------------------------------------------------
\* Nothing is issued yet.
LEMMA MatchInit == Init => MatchInv
<1>. SUFFICES ASSUME Init PROVE MatchInv
  OBVIOUS
<1>1. /\ owner \in [Orders -> Nodes] /\ msgs = {} /\ crashed = {} /\ faults = 0
      /\ orders = {} /\ held = {} /\ makerSwaps = {} /\ again = {}
      /\ rpc = [n \in Nodes |-> Idle] /\ loop = [n \in Nodes |-> Idle]
      /\ lock = [o \in Orders |-> "free"]
      /\ order = [o \in Orders |-> Blank(o)] /\ saved = [o \in Orders |-> Blank(o)]
  BY OrdersAssumption DEF Init, EnvInit, MakerInit
<1>2. /\ takers = {} /\ takerFiles = {} /\ takerSwaps = {}
      /\ chosen = [t \in Takers |-> {}] /\ takerSaved = [t \in Takers |-> {}]
      /\ pending = [t \in Takers |-> {}] /\ sleeping = [t \in Takers |-> FALSE]
      /\ task = [n \in Nodes |-> Free]
  BY DEF Init, TakerInit
<1>3. Idle \in FitTask /\ Idle \in LoopTask /\ Idle.op = "idle" /\ \A o, op : Idle # [op |-> op, o |-> o]
  BY DEF FitTask, LoopTask, Idle
<1>4. Free \in TakerTask /\ \A op \in Ops, t \in Takers : Free # [op |-> op, t |-> t]
  BY DEF TakerTask, Free, Ops
<1>5. VolumeInv
  BY <1>1, <1>3, BlankFits DEF VolumeInv
<1>6. \A t \in Takers : owner[t] \in Nodes
  BY <1>1 DEF Orders
<1>7. \A op \in Ops, t \in Takers : ~Doing(op, t)
  BY <1>2, <1>4, <1>6 DEF Doing
<1>8. \A o \in Orders : ~BeingTaken(o) /\ ~BeingSet(o) /\ ~Updating(o)
  BY <1>1, <1>2, <1>3, <1>7 DEF BeingTaken, BeingSet, Updating, Ops
<1>9. SoldInv
  <2>1. SoldTypeOK
    BY <1>1, <1>2, <1>3, <1>4 DEF SoldTypeOK
  <2>2. SoldIsCounted /\ StartedOnce /\ UnbornInv
    BY <1>1, <1>8 DEF SoldIsCounted, StartedOnce, UnbornInv
  <2>3. OneWayInv
    BY <1>2, <1>8 DEF OneWayInv
  <2>4. OwnCalls /\ UpdateInv /\ AnnounceInv
    BY <1>1, <1>3 DEF OwnCalls, UpdateInv, AnnounceInv
  <2>. QED  BY <2>1, <2>2, <2>3, <2>4 DEF SoldInv
<1>10. DealInv
  <2>1. MakerMsgs
    BY <1>1, <1>3, NewAnnounced DEF MakerMsgs
  <2>2. TakerMsgs
    BY <1>2 DEF TakerMsgs, Kept, TakerDealIsMakers
  <2>. QED  BY <2>1, <2>2 DEF DealInv
<1>11. ChoiceInv
  <2>1. CancelledInv
    BY <1>1, <1>3 DEF CancelledInv
  <2>2. sleeping \in [Takers -> BOOLEAN]
    BY <1>2
  <2>3. \A t \in Takers : FitTaker(t) /\ PendingFit(t)
    BY <1>2, <1>7 DEF FitTaker, PendingFit, Ops
  <2>. QED  BY <1>1, <1>2, <2>1, <2>2, <2>3 DEF ChoiceInv
<1>. QED  BY <1>5, <1>9, <1>10, <1>11 DEF MatchInv

\* The inductive invariant of order matching holds of every run, for any orders, nodes, volumes
\* and number of restarts.
THEOREM MatchInvariance == Spec => []MatchInv
<1>1. MatchInv /\ [Next]_vars => MatchInv'
  BY VolumeNext, SoldNext, DealNext, ChoiceNext DEF MatchInv
<1>. QED  BY MatchInit, <1>1, PTL DEF Spec

\* match_with_request never lets more volume be reserved or sold than a maker order has, in memory
\* or in the file that orders_kick_start loads.
THEOREM NeverOversold == Spec => []NotOversold
<1>1. MatchInv => NotOversold
  <2>1. VolumeInv => \A o \in Orders : ReservedAmount(order[o]) <= order[o].max
    BY DEF VolumeInv, FitOrder
  <2>2. VolumeInv => \A o \in Orders : ReservedAmount(saved[o]) <= saved[o].max
    BY DEF VolumeInv, FitOrder
  <2>. QED  BY <2>1, <2>2 DEF MatchInv, NotOversold
<1>. QED  BY <1>1, MatchInvariance, PTL

\* Every swap that process_taker_connect started stays counted by reserved_amount until the process
\* is restarted.
THEOREM SoldStaysCounted == Spec => []SoldIsCounted
<1>1. MatchInv => SoldIsCounted
  BY DEF MatchInv, SoldInv
<1>. QED  BY <1>1, MatchInvariance, PTL

\* process_taker_connect starts a swap a second time only in a process that was restarted.
THEOREM SoldOnce == Spec => []StartedOnce
<1>1. MatchInv => StartedOnce
  BY DEF MatchInv, SoldInv
<1>. QED  BY <1>1, MatchInvariance, PTL

\* process_maker_connected starts a swap only with a maker that started it.
THEOREM DealsAgree == Spec => []TakerDealIsMakers
<1>1. MatchInv => TakerDealIsMakers
  BY DEF MatchInv, DealInv, TakerMsgs
<1>. QED  BY <1>1, MatchInvariance, PTL

\* A taker order never has two swaps, across restarts, as long as its files are written.
THEOREM OneSwapPerOrder == Spec => []OneTakerDeal
<1>1. MatchInv => OneTakerDeal
  BY DEF MatchInv, ChoiceInv, OneTakerDeal, SoldInv, SoldTypeOK
<1>. QED  BY <1>1, MatchInvariance, PTL

\* No reserved message is left in pending_maker_reserved without a handler that sleeps.
THEOREM PendingIsRead == Spec => []PendingHasReader
<1>1. MatchInv => PendingHasReader
  BY DEF MatchInv, ChoiceInv, PendingHasReader, PendingFit, SoldInv, SoldTypeOK
<1>. QED  BY <1>1, MatchInvariance, PTL

-----------------------------------------------------------------------------
(* Orders that leave the map.                                              *)

\* What RemovalInv says of order x.
Fits(x) == (Live(x) => ListFits(x)) /\ (faults = 0 => FileFits(x))

\* What a step does to everybody.
EnvStays ==
  /\ owner' = owner /\ crashed \subseteq crashed' /\ msgs \subseteq msgs'
  /\ faults' = 0 => faults = 0

\* The call that its node executes means the same to order x.
CallStays(x) ==
  /\ CancelledBy(x)' <=> CancelledBy(x)
  /\ Writing(x)' => Writing(x)
  /\ BeingSet(x) => BeingSet(x)'

\* lp_ordermatch_loop of its node means the same to order x.
LoopStays(x) ==
  /\ loop[owner[x]] = [op |-> "delete", o |-> x] => loop'[owner[x]] = [op |-> "delete", o |-> x]
  /\ InLoop(x)' => InLoop(x)

\* Order x stays where it is, with its matches.
PlaceStays(x) ==
  /\ x \in orders' <=> x \in orders
  /\ x \in listed' <=> x \in listed
  /\ x \in files' <=> x \in files
  /\ lock'[x] = lock[x]
  /\ order'[x].matches = order[x].matches
  /\ held \subseteq held' /\ \A h \in held' : h.o = x => h \in held

\* A step that touches neither the order nor what is about to be done to it.
LEMMA Untouched ==
  ASSUME NEW x, Fits(x), EnvStays, CallStays(x), LoopStays(x), PlaceStays(x)
  PROVE  Fits(x)'
<1>1. owner'[x] = owner[x] /\ (Live(x)' => Live(x)) /\ (faults' = 0 => faults = 0)
  BY DEF EnvStays, Live
<1>2. ASSUME ListFits(x) PROVE ListFits(x)'
  BY <1>2 DEF ListFits, CallStays, LoopStays, PlaceStays
<1>3. HeldRequest(x) => HeldRequest(x)'
  BY DEF HeldRequest, HeldFor, PlaceStays
<1>4. Deleting(x) => Deleting(x)'
  BY <1>1 DEF Deleting, CallStays, LoopStays, PlaceStays
<1>5. ASSUME RemovedFits(x) PROVE RemovedFits(x)'
  <2>1. lock'[x] = "save" => HeldRequest(x)'
    BY <1>3, <1>5 DEF RemovedFits, PlaceStays
  <2>2. Writing(x)' => loop'[owner'[x]] = [op |-> "delete", o |-> x] \/ HeldRequest(x)'
    BY <1>1, <1>3, <1>5 DEF RemovedFits, CallStays, LoopStays
  <2>3. x \in files' => Deleting(x)' \/ BeingSet(x)' \/ HeldRequest(x)'
    BY <1>3, <1>4, <1>5 DEF RemovedFits, CallStays, PlaceStays
  <2>4. ASSUME NEW h \in held', h.o = x, NEW t \in Takers, order'[x].matches[t].status # "none"
        PROVE  HeldFor(x, t)'
    BY <1>5, <2>4 DEF RemovedFits, HeldFor, PlaceStays
  <2>. QED  BY <2>1, <2>2, <2>3, <2>4 DEF RemovedFits
<1>6. ASSUME FileFits(x) PROVE FileFits(x)'
  BY <1>5, <1>6 DEF FileFits, PlaceStays, EnvStays
<1>. QED  BY <1>1, <1>2, <1>6 DEF Fits

\* The call of another node, or none.
LEMMA SameCall ==
  ASSUME NEW x, owner' = owner, rpc'[owner[x]] = rpc[owner[x]]
  PROVE  CallStays(x)
BY DEF CallStays, CancelledBy, Writing, BeingSet

\* A call that begins, goes on or ends, and was not about to delete, write or add order x.
LEMMA OtherCall ==
  ASSUME NEW x, owner' = owner, ~CancelledBy(x), ~CancelledBy(x)', ~Writing(x)', ~BeingSet(x)
  PROVE  CallStays(x)
BY DEF CallStays

\* lp_ordermatch_loop of another node, or none.
LEMMA SameLoop ==
  ASSUME NEW x, owner' = owner, loop'[owner[x]] = loop[owner[x]]
  PROVE  LoopStays(x)
BY DEF LoopStays, InLoop

\* lp_ordermatch_loop is busy with another order.
LEMMA OtherLoop ==
  ASSUME VolumeInv, SoldInv, NEW x \in Orders, NEW o \in Orders, x # o, owner' = owner,
         NEW next, next = Idle \/ next.o = o,
         loop[owner[o]] = Idle \/ loop[owner[o]].o = o,
         loop' = [loop EXCEPT ![owner[o]] = next]
  PROVE  LoopStays(x)
<1>1. owner[x] \in Nodes /\ owner[o] \in Nodes /\ loop \in [Nodes -> LoopTask]
  BY DEF VolumeInv, SoldInv, SoldTypeOK
<1>2. CASE owner[x] # owner[o]
  BY <1>1, <1>2, SameLoop
<1>3. CASE owner[x] = owner[o]
  <2>1. loop'[owner[x]] = next /\ ~InLoop(x)'
    BY <1>1, <1>3 DEF InLoop
  <2>2. Idle # [op |-> "delete", o |-> x]
    BY DEF Idle
  <2>3. loop[owner[x]] # [op |-> "delete", o |-> x]
    BY SMT, <1>3, <2>2
  <2>. QED  BY <2>1, <2>3 DEF LoopStays
<1>. QED  BY <1>2, <1>3

\* A match was requested: its reserved message answered the request.
LEMMA MatchAsked ==
  ASSUME MatchInv, RemovalInv, NEW o \in Orders, NEW t \in Takers,
         order[o].matches[t].status # "none"
  PROVE  RequestMsg(t) \in msgs
<1>. DEFINE m == ReservedMsg(o, t, order[o].matches[t].base, order[o].matches[t].rel)
<1>1. m \in msgs
  BY DEF MatchInv, DealInv, MakerMsgs, Announced
<1>2. m.type = "reserved" /\ m.t = t
  BY DEF ReservedMsg
<1>. QED  BY <1>1, <1>2 DEF RemovalInv, Asked

\* What a removed order of the map leaves to the handlers of the messages that are out.
LEMMA RemovedHeld ==
  ASSUME MatchInv, RemovalInv, NEW os, NEW x \in os, x \in orders, RemoveOrders(os)
  PROVE  /\ x \notin orders'
         /\ \A t \in Takers : RequestMsg(t) \in msgs => [o |-> x, m |-> RequestMsg(t)] \in held'
         /\ \A t \in Takers : order[x].matches[t].status # "none" =>
              [o |-> x, m |-> RequestMsg(t)] \in held'
<1>1. \A t : RequestMsg(t).type = "request"
  BY DEF RequestMsg
<1>2. x \in Orders
  BY DEF MatchInv, SoldInv, SoldTypeOK
<1>3. x \notin orders'
  BY DEF RemoveOrders
<1>4. \A t \in Takers : RequestMsg(t) \in msgs => [o |-> x, m |-> RequestMsg(t)] \in held'
  BY SMT, <1>1 DEF RemoveOrders
<1>. QED  BY <1>2, <1>3, <1>4, MatchAsked

\* Another order than the removed ones.
LEMMA RemovedOther ==
  ASSUME NEW os, NEW x, x \notin os \cap orders, RemoveOrders(os)
  PROVE  /\ x \in orders' <=> x \in orders
         /\ held \subseteq held' /\ \A h \in held' : h.o = x => h \in held
<1>1. x \in orders' <=> x \in orders
  BY DEF RemoveOrders
<1>2. held \subseteq held'
  BY SMT DEF RemoveOrders
<1>3. ASSUME NEW h \in held', h.o = x PROVE h \in held
  BY SMT, <1>3 DEF RemoveOrders
<1>. QED  BY <1>1, <1>2, <1>3
\* The holder of the mutex of order o works on it: the others do not notice.
LEMMA OthersFit ==
  ASSUME RemovalInv, NEW o, NEW x \in Makers, x # o, EnvStays, rpc' = rpc, loop' = loop,
         PlaceStays(x)
  PROVE  Fits(x)'
<1>1. Fits(x)
  BY DEF RemovalInv, Fits
<1>. QED  BY <1>1, Untouched, SameCall, SameLoop DEF EnvStays

\* A handler that writes the file of a removed order holds it for a request.
LEMMA FitsSave ==
  ASSUME MatchInv, RemovalInv, NEW o \in Orders, Save(o), NEW x \in Makers
  PROVE  Fits(x)'
<1>. USE DEF swapVars, fileVars, bookVars
<1>1. lock[o] = "save" /\ lock' = [lock EXCEPT ![o] = "free"]
      /\ UNCHANGED <<orders, order, listed, held, rpc, loop, owner, msgs, crashed>>
  BY DEF Save
<1>2. faults \in Nat /\ lock \in [Orders -> {"free", "save", "delete", "update", "announce"}]
  BY DEF MatchInv, ChoiceInv, SoldInv, SoldTypeOK
<1>3. faults' = faults \/ faults' = faults + 1
  BY DEF Save, Fault, NoFault
<1>4. EnvStays
  BY SMT, <1>1, <1>2, <1>3 DEF EnvStays
<1>5. \A y : y # o => (y \in files' <=> y \in files)
  BY DEF Save
<1>6. CASE x # o
  BY SMT, <1>1, <1>2, <1>4, <1>5, <1>6, OthersFit DEF PlaceStays
<1>7. CASE x = o
  <2>1. Fits(o)
    BY <1>7 DEF RemovalInv, Fits
  <2>2. ListFits(o) => ListFits(o)'
    BY <1>1 DEF ListFits, CancelledBy, InLoop
  <2>3. Live(o)' <=> Live(o)
    BY <1>1 DEF Live
  <2>4. ASSUME FileFits(o) PROVE FileFits(o)'
    <3>1. lock'[o] = "free"
      BY <1>1, <1>2
    <3>2. SUFFICES ASSUME o \notin orders PROVE RemovedFits(o)'
      BY <1>1, <3>1 DEF FileFits
    <3>3. RemovedFits(o) /\ HeldRequest(o)
      BY <1>1, <2>4, <3>2 DEF FileFits, RemovedFits
    <3>4. HeldRequest(o)'
      BY <1>1, <3>3 DEF HeldRequest, HeldFor
    <3>. QED  BY <1>1, <3>1, <3>3, <3>4 DEF RemovedFits, HeldFor, Writing
  <2>. QED  BY <1>4, <1>7, <2>1, <2>2, <2>3, <2>4 DEF Fits, EnvStays
<1>. QED  BY <1>6, <1>7

\* delete_my_maker_order deletes the file.
LEMMA FitsDelete ==
  ASSUME MatchInv, RemovalInv, NEW o \in Orders, Delete(o), NEW x \in Makers
  PROVE  Fits(x)'
<1>. USE DEF swapVars, fileVars, bookVars
<1>1. lock[o] = "delete" /\ lock' = [lock EXCEPT ![o] = "free"]
      /\ UNCHANGED <<orders, order, listed, held, rpc, loop, owner, msgs, crashed>>
  BY DEF Delete
<1>2. faults \in Nat /\ lock \in [Orders -> {"free", "save", "delete", "update", "announce"}]
  BY DEF MatchInv, ChoiceInv, SoldInv, SoldTypeOK
<1>3. (faults' = faults /\ o \notin files') \/ faults' = faults + 1
  BY DEF Delete, Fault, NoFault, DeleteFile
<1>4. EnvStays
  BY SMT, <1>1, <1>2, <1>3 DEF EnvStays
<1>5. \A y : y # o => (y \in files' <=> y \in files)
  BY DEF Delete, DeleteFile
<1>6. CASE x # o
  BY SMT, <1>1, <1>2, <1>4, <1>5, <1>6, OthersFit DEF PlaceStays
<1>7. CASE x = o
  <2>1. Fits(o)
    BY <1>7 DEF RemovalInv, Fits
  <2>2. ListFits(o) => ListFits(o)'
    BY <1>1 DEF ListFits, CancelledBy, InLoop
  <2>3. Live(o)' <=> Live(o)
    BY <1>1 DEF Live
  <2>4. ASSUME FileFits(o), faults' = 0 PROVE FileFits(o)'
    <3>1. lock'[o] = "free" /\ o \notin files'
      BY SMT, <1>1, <1>2, <1>3, <2>4
    <3>. QED  BY <1>1, <2>4, <3>1 DEF FileFits, RemovedFits, HeldRequest, HeldFor, Writing
  <2>. QED  BY <1>4, <1>7, <2>1, <2>2, <2>3, <2>4 DEF Fits, EnvStays
<1>. QED  BY <1>6, <1>7

\* A handler or the loop that changes the matches of an order it fetched, and will write its file.
LEMMA FitsMatches ==
  ASSUME MatchInv, RemovalInv, NEW o \in Orders, NEW x \in Makers,
         EnvStays, lock[o] = "free",
         UNCHANGED <<orders, files, listed, held, rpc, loop, crashed>>,
         lock' = [lock EXCEPT ![o] = "save"],
         \A y \in Orders : y # o => order'[y] = order[y],
         NEW t \in Takers, RequestMsg(t) \in msgs,
         faults = 0 /\ o \in Makers /\ o \notin orders => HeldFor(o, t),
         \A y \in Takers : order'[o].matches[y].status # "none" =>
           y = t \/ order[o].matches[y].status # "none"
  PROVE  Fits(x)'
<1>1. owner' = owner /\ msgs \subseteq msgs' /\ x \in Orders
  BY DEF EnvStays, Orders
<1>2. lock \in [Orders -> {"free", "save", "delete", "update", "announce"}]
  BY DEF MatchInv, SoldInv, SoldTypeOK
<1>3. CASE x # o
  BY <1>1, <1>2, <1>3, OthersFit DEF PlaceStays
<1>4. CASE x = o
  <2>1. Fits(o)
    BY <1>4 DEF RemovalInv, Fits
  <2>2. ListFits(o) => ListFits(o)'
    BY <1>1 DEF ListFits, CancelledBy, InLoop
  <2>3. Live(o)' <=> Live(o)
    BY <1>1 DEF Live
  <2>4. ASSUME faults = 0, FileFits(o) PROVE FileFits(o)'
    <3>1. SUFFICES ASSUME o \notin orders PROVE RemovedFits(o)'
      BY <1>1 DEF FileFits
    <3>2. RemovedFits(o) /\ HeldFor(o, t)
      BY <1>4, <2>4, <3>1 DEF FileFits
    <3>3. HeldRequest(o)' /\ \A y : HeldFor(o, y)' <=> HeldFor(o, y)
      BY <3>2 DEF HeldRequest, HeldFor
    <3>. QED  BY <3>2, <3>3 DEF RemovedFits
  <2>. QED  BY <1>4, <2>1, <2>2, <2>3, <2>4 DEF Fits, EnvStays
<1>. QED  BY <1>3, <1>4

\* process_taker_request
LEMMA FitsRequest ==
  ASSUME MatchInv, RemovalInv, NEW o \in Orders, NEW t \in Takers, ProcessTakerRequest(o, t),
         NEW x \in Makers
  PROVE  Fits(x)'
<1>. DEFINE m == [status |-> "reserved", base |-> MatchedBase(order[o], t),
                  rel |-> MatchedRel(order[o], t)]
<1>1. /\ order' = [order EXCEPT ![o].matches[t] = m] /\ lock' = [lock EXCEPT ![o] = "save"]
      /\ lock[o] = "free" /\ UNCHANGED <<orders, files, listed, held, rpc, loop, crashed>>
      /\ RequestMsg(t) \in msgs /\ (o \notin orders => HeldFor(o, t))
      /\ EnvStays
  BY DEF ProcessTakerRequest, Broadcast, Reaches, HeldFor, EnvStays, fileVars, bookVars
<1>2. order \in [Orders -> FitOrder] /\ order[o] \in MakerOrder
  BY DEF MatchInv, VolumeInv, FitOrder
<1>3. \A y \in Orders : y # o => order'[y] = order[y]
  BY <1>1, <1>2
<1>4. order'[o].matches = [order[o].matches EXCEPT ![t] = m]
  BY <1>1, <1>2 DEF MakerOrder
<1>5. \A y \in Takers : order'[o].matches[y].status # "none" =>
        y = t \/ order[o].matches[y].status # "none"
  BY <1>2, <1>4 DEF MakerOrder
<1>. QED  BY <1>1, <1>3, <1>5, FitsMatches

\* process_taker_connect
LEMMA FitsConnect ==
  ASSUME MatchInv, RemovalInv, NEW o \in Orders, NEW t \in Takers, ProcessTakerConnect(o, t),
         NEW x \in Makers
  PROVE  Fits(x)'
<1>1. /\ order' = [order EXCEPT ![o] = [order[o] EXCEPT !.matches[t].status = "connected"]]
      /\ lock' = [lock EXCEPT ![o] = "save"] /\ order[o].matches[t].status = "reserved"
      /\ lock[o] = "free" /\ UNCHANGED <<orders, files, listed, held, rpc, loop, crashed>>
      /\ (o \notin orders => [o |-> o, m |-> ConnectMsg(o, t)] \in held)
      /\ EnvStays
  BY DEF ProcessTakerConnect, MayConnect, Broadcast, Reaches, EnvStays, NotifyUpdated, fileVars, bookVars
<1>2. order \in [Orders -> FitOrder] /\ order[o] \in MakerOrder
  BY DEF MatchInv, VolumeInv, FitOrder
<1>3. \A y \in Orders : y # o => order'[y] = order[y]
  BY <1>1, <1>2
<1>4. \A y \in Takers : order'[o].matches[y].status # "none" =>
        y = t \/ order[o].matches[y].status # "none"
  BY <1>1, <1>2 DEF MakerOrder
<1>5. RequestMsg(t) \in msgs
  BY <1>1, MatchAsked
<1>6. ASSUME faults = 0, o \in Makers, o \notin orders PROVE HeldFor(o, t)
  BY <1>1, <1>6 DEF RemovalInv, FileFits, RemovedFits
<1>. QED  BY <1>1, <1>3, <1>4, <1>5, <1>6, FitsMatches

\* handle_timed_out_maker_matches
LEMMA FitsTimeout ==
  ASSUME MatchInv, RemovalInv, NEW o \in Orders, NEW old \in SUBSET Takers,
         HandleTimedOutMakerMatches(o, old), NEW x \in Makers
  PROVE  Fits(x)'
<1>. DEFINE rest == [t \in Takers |-> IF t \in old THEN NoMatch ELSE order[o].matches[t]]
<1>1. /\ order' = [order EXCEPT ![o].matches = rest]
      /\ lock' = [lock EXCEPT ![o] = "save"] /\ lock[o] = "free"
      /\ UNCHANGED <<orders, files, listed, held, rpc, loop, crashed>>
      /\ EnvStays
  BY DEF HandleTimedOutMakerMatches, EnvStays, fileVars, bookVars, envVars
<1>2. old # {} /\ \A t \in old : order[o].matches[t].status = "reserved"
  BY DEF HandleTimedOutMakerMatches, MayTimeOut
<1>3. PICK t \in old : o \notin orders => HeldFor(o, t)
  BY <1>2 DEF HandleTimedOutMakerMatches, HeldFor
<1>4. t \in Takers /\ RequestMsg(t) \in msgs
  BY <1>2, MatchAsked
<1>5. order \in [Orders -> FitOrder] /\ order[o] \in MakerOrder
  BY DEF MatchInv, VolumeInv, FitOrder
<1>6. \A y \in Orders : y # o => order'[y] = order[y]
  BY <1>1, <1>5
<1>7. order'[o].matches = rest
  BY <1>1, <1>5 DEF MakerOrder
<1>8. \A y \in Takers : order'[o].matches[y].status # "none" => order[o].matches[y].status # "none"
  BY SMT, <1>7 DEF NoMatch
<1>. QED  BY <1>1, <1>3, <1>4, <1>6, <1>8, FitsMatches

\* The mutex is free: nobody is about to write an update of the order.
LEMMA FreeNotWriting ==
  ASSUME MatchInv, NEW o \in Orders, lock[o] = "free"
  PROVE  ~Writing(o)
<1>1. owner[o] \in Nodes
  BY DEF MatchInv, VolumeInv
<1>. QED  BY <1>1 DEF MatchInv, SoldInv, UpdateInv, Writing

\* remove_order with the mutex held: the file is deleted next.
LEMMA FitsRemove ==
  ASSUME MatchInv, RemovalInv, NEW o \in Orders, o \in orders, lock[o] = "free",
         RemoveAndDelete(o), EnvStays, UNCHANGED <<rpc, loop, crashed>>, NEW x \in Makers
  PROVE  Fits(x)'
<1>1. /\ RemoveOrders({o}) /\ listed' = listed \ {o} /\ lock' = [lock EXCEPT ![o] = "delete"]
      /\ UNCHANGED <<order, files>>
  BY DEF RemoveAndDelete, fileVars
<1>2. owner' = owner /\ lock \in [Orders -> {"free", "save", "delete", "update", "announce"}]
  BY DEF MatchInv, SoldInv, SoldTypeOK, EnvStays
<1>3. CASE x # o
  <2>1. /\ x \in orders' <=> x \in orders
        /\ held \subseteq held' /\ \A h \in held' : h.o = x => h \in held
    BY <1>1, <1>3, RemovedOther
  <2>2. lock'[x] = lock[x]
    BY <1>1, <1>2, <1>3 DEF Orders
  <2>. QED  BY <1>1, <1>3, <2>1, <2>2, OthersFit DEF PlaceStays
<1>4. CASE x = o
  <2>1. Fits(o)
    BY <1>4 DEF RemovalInv, Fits
  <2>2. /\ o \notin orders' /\ o \notin listed' /\ lock'[o] = "delete"
        /\ \A t \in Takers : order[o].matches[t].status # "none" => HeldFor(o, t)'
    BY <1>1, <1>2, RemovedHeld DEF HeldFor
  <2>3. ListFits(o) => ListFits(o)'
    BY <1>2, <2>2 DEF ListFits, CancelledBy, InLoop
  <2>4. ~Writing(o)'
    BY <1>2, FreeNotWriting DEF Writing
  <2>5. RemovedFits(o)'
    BY <1>1, <2>2, <2>4 DEF RemovedFits, Deleting
  <2>6. FileFits(o)'
    BY <2>2, <2>5 DEF FileFits
  <2>7. Live(o)' <=> Live(o)
    BY <1>2 DEF Live
  <2>. QED  BY <1>4, <2>1, <2>3, <2>6, <2>7 DEF Fits
<1>. QED  BY <1>3, <1>4

\* lp_ordermatch_loop finds an order missing from the own orderbook only after a restart.
LEMMA FitsMissing ==
  ASSUME MatchInv, RemovalInv, NEW o \in Orders, NEW volume \in Balances,
         CheckMissingOrder(o, volume), NEW x \in Makers
  PROVE  Fits(x)'
<1>. DEFINE cut == IF volume < AvailableAmount(order[o]) THEN CutTo(order[o], volume) ELSE order[o]
<1>1. /\ o \in orders /\ o \notin listed /\ lock[o] = "free" /\ loop[owner[o]] = Idle
      /\ order' = order \/ order' = [order EXCEPT ![o] = cut]
      /\ lock' = lock \/ lock' = [lock EXCEPT ![o] = "announce"]
      /\ \E op \in {"cancel", "announce"} :
           loop' = [loop EXCEPT ![owner[o]] = [op |-> op, o |-> o]]
      /\ UNCHANGED <<orders, files, listed, held, rpc, owner, crashed, msgs>>
      /\ EnvStays
  BY DEF CheckMissingOrder, EnvStays, fileVars, bookVars, envVars
<1>2. order \in [Orders -> FitOrder] /\ x \in Orders
      /\ lock \in [Orders -> {"free", "save", "delete", "update", "announce"}]
  BY DEF MatchInv, VolumeInv, SoldInv, SoldTypeOK, Orders
<1>3. CASE x # o
  <2>1. LoopStays(x)
    <3>1. PICK op \in {"cancel", "announce"} :
            loop' = [loop EXCEPT ![owner[o]] = [op |-> op, o |-> o]]
      BY <1>1
    <3>2. [op |-> op, o |-> o].o = o
      OBVIOUS
    <3>. QED  BY <1>1, <1>2, <1>3, <3>1, <3>2, OtherLoop DEF MatchInv
  <2>2. PlaceStays(x)
    BY <1>1, <1>2, <1>3 DEF PlaceStays
  <2>3. Fits(x)
    BY DEF RemovalInv, Fits
  <2>. QED  BY <1>1, <2>1, <2>2, <2>3, SameCall, Untouched
<1>4. CASE x = o
  <2>1. ~Live(o)
    BY <1>1, <1>4 DEF RemovalInv, ListFits
  <2>2. ~Live(o)'
    BY <1>1, <2>1 DEF Live
  <2>3. lock'[o] # "save"
    BY <1>1, <1>2
  <2>4. FileFits(o)'
    BY <1>1, <2>3 DEF FileFits
  <2>. QED  BY <1>4, <2>2, <2>4 DEF Fits
<1>. QED  BY <1>3, <1>4

\* lp_ordermatch_loop finishes with an order: announced again, or removed and deleted.
LEMMA FitsLoopTask ==
  ASSUME MatchInv, RemovalInv, NEW o \in Orders, LoopTaskStep(o), NEW x \in Makers
  PROVE  Fits(x)'
<1>. USE DEF fileVars, bookVars, envVars
<1>1. x \in Orders /\ owner[o] \in Nodes /\ loop \in [Nodes -> LoopTask] /\ Fits(x)
      /\ lock \in [Orders -> {"free", "save", "delete", "update", "announce"}]
  BY DEF MatchInv, VolumeInv, SoldInv, SoldTypeOK, Orders, RemovalInv, Fits
<1>2. UNCHANGED <<order, files, rpc, owner, crashed, msgs, faults>> /\ EnvStays
  BY DEF LoopTaskStep, AnnounceMissingOrder, CancelMissingOrder, DeleteMissingOrder, EnvStays
<1>3. CallStays(x)
  BY <1>2, SameCall
<1>4. \A op : [op |-> op, o |-> o] # Idle /\ [op |-> op, o |-> o].o = o /\ [op |-> op, o |-> o].op = op
  BY DEF Idle
<1>5. PICK op \in {"announce", "cancel", "delete"} : loop[owner[o]] = [op |-> op, o |-> o]
  BY DEF LoopTaskStep, AnnounceMissingOrder, CancelMissingOrder, DeleteMissingOrder
<1>6. PICK next : loop' = [loop EXCEPT ![owner[o]] = next] /\ (next = Idle \/ next = [op |-> "delete", o |-> o])
  BY DEF LoopTaskStep, AnnounceMissingOrder, CancelMissingOrder, DeleteMissingOrder
<1>7. CASE x # o
  <2>1. LoopStays(x)
    BY <1>1, <1>2, <1>4, <1>5, <1>6, <1>7, OtherLoop DEF MatchInv
  <2>2. /\ x \in orders' <=> x \in orders
        /\ held \subseteq held' /\ \A h \in held' : h.o = x => h \in held
    <3>1. CASE UNCHANGED <<orders, held>>
      BY <3>1
    <3>2. CASE RemoveOrders({o})
      BY <1>7, <3>2, RemovedOther
    <3>. QED  BY <3>1, <3>2
              DEF LoopTaskStep, AnnounceMissingOrder, CancelMissingOrder, DeleteMissingOrder
  <2>3. /\ x \in listed' <=> x \in listed
        /\ lock'[x] = lock[x]
    BY <1>1, <1>7
    DEF LoopTaskStep, AnnounceMissingOrder, CancelMissingOrder, DeleteMissingOrder, NotifyCreated
  <2>. QED  BY <1>1, <1>2, <1>3, <2>1, <2>2, <2>3, Untouched DEF PlaceStays
<1>8. CASE x = o
  <2>1. ~Live(o)'
    <3>1. InLoop(o)
      BY <1>4, <1>5 DEF InLoop
    <3>2. ~Live(o)
      BY <1>8, <3>1 DEF RemovalInv, ListFits
    <3>. QED  BY <1>2, <3>2 DEF Live
  <2>2. SUFFICES ASSUME faults = 0, FileFits(o) PROVE FileFits(o)'
    BY <1>1, <1>2, <1>8, <2>1 DEF Fits
  <2>3. CASE AnnounceMissingOrder(o)
    <3>1. lock[o] = "announce" /\ lock'[o] = "free" /\ UNCHANGED <<orders, held>>
          /\ loop[owner[o]] # [op |-> "delete", o |-> o]
      BY <1>1, <1>4, <2>3 DEF AnnounceMissingOrder, MatchInv, SoldInv, AnnounceInv
    <3>2. SUFFICES ASSUME o \notin orders PROVE RemovedFits(o)'
      BY <3>1 DEF FileFits
    <3>3. RemovedFits(o)
      BY <2>2, <3>2 DEF FileFits
    <3>4. HeldRequest(o)' <=> HeldRequest(o)
      BY <3>1 DEF HeldRequest, HeldFor
    <3>5. \A t : HeldFor(o, t)' <=> HeldFor(o, t)
      BY <3>1 DEF HeldFor
    <3>. QED  BY <1>2, <1>3, <1>8, <3>1, <3>3, <3>4, <3>5 DEF RemovedFits, Deleting, CallStays
  <2>4. CASE CancelMissingOrder(o) /\ o \in orders
    <3>1. /\ o \notin orders' /\ lock' = lock
          /\ \A t \in Takers : RequestMsg(t) \in msgs => HeldFor(o, t)'
          /\ \A t \in Takers : order[o].matches[t].status # "none" => HeldFor(o, t)'
      BY <2>4, RemovedHeld DEF CancelMissingOrder, HeldFor
    <3>2. loop'[owner'[o]] = [op |-> "delete", o |-> o]
      BY <1>1, <1>2, <2>4 DEF CancelMissingOrder
    <3>3. lock'[o] = "save" => HeldRequest(o)'
      BY <2>2, <3>1 DEF FileFits, HeldRequest
    <3>. QED  BY <1>2, <2>2, <3>1, <3>2, <3>3 DEF FileFits, RemovedFits, Deleting
  <2>5. CASE CancelMissingOrder(o) /\ o \notin orders
    <3>1. lock' = lock /\ orders' = orders /\ held' = held
          /\ loop[owner[o]] # [op |-> "delete", o |-> o]
      BY SMT, <1>4, <2>5 DEF CancelMissingOrder, RemoveOrders
    <3>2. RemovedFits(o)
      BY <2>2, <2>5 DEF FileFits
    <3>3. HeldRequest(o)' <=> HeldRequest(o)
      BY <3>1 DEF HeldRequest, HeldFor
    <3>4. \A t : HeldFor(o, t)' <=> HeldFor(o, t)
      BY <3>1 DEF HeldFor
    <3>5. RemovedFits(o)'
      BY <1>2, <1>3, <1>8, <3>1, <3>2, <3>3, <3>4 DEF RemovedFits, Deleting, CallStays
    <3>. QED  BY <1>2, <2>2, <3>1, <3>5 DEF FileFits
  <2>6. CASE DeleteMissingOrder(o)
    <3>1. lock[o] = "free" /\ lock'[o] = "delete" /\ UNCHANGED <<orders, held>>
      BY <1>1, <2>6 DEF DeleteMissingOrder
    <3>2. ~Writing(o)'
      BY <1>2, <3>1, FreeNotWriting DEF Writing
    <3>3. \A t : HeldFor(o, t)' <=> HeldFor(o, t)
      BY <3>1 DEF HeldFor
    <3>. QED  BY <1>2, <2>2, <3>1, <3>2, <3>3 DEF FileFits, RemovedFits, Deleting
  <2>. QED  BY <2>3, <2>4, <2>5, <2>6 DEF LoopTaskStep
<1>. QED  BY <1>7, <1>8

\* The call of node n goes on, and it neither deletes, writes nor adds order x.
LEMMA CallChanges ==
  ASSUME VolumeInv, NEW n \in Nodes, NEW x, owner' = owner,
         NEW next, rpc' = [rpc EXCEPT ![n] = next],
         rpc[n].op # "cancelled_by", next.op # "cancelled_by",
         next.op = "updating" => next.o # x,
         rpc[n].op \in {"setprice", "created"} => rpc[n].o # x
  PROVE  CallStays(x)
<1>1. CASE owner[x] # n
  BY SMT, <1>1, SameCall DEF VolumeInv
<1>2. CASE owner[x] = n
  <2>1. rpc'[n] = next
    BY DEF VolumeInv
  <2>. QED  BY <1>2, <2>1, OtherCall DEF CancelledBy, Writing, BeingSet
<1>. QED  BY <1>1, <1>2

\* A call and its order.
LEMMA CallOrder ==
  ASSUME MatchInv, NEW n \in Nodes, rpc[n].op \in {"setprice", "created", "update", "updating"}
  PROVE  /\ rpc[n].o \in Orders /\ owner[rpc[n].o] = n
         /\ rpc[n].op \in {"setprice", "created"} => rpc[n].o \in Makers
         /\ ~CancelledBy(rpc[n].o)
<1>1. rpc[n] \in FitTask
  BY DEF MatchInv, VolumeInv
<1>2. rpc[n].o \in Orders /\ (rpc[n].op \in {"setprice", "created"} => rpc[n].o \in Makers)
  BY SMT, <1>1 DEF FitTask, Idle, Orders
<1>3. owner[rpc[n].o] = n
  BY DEF MatchInv, SoldInv, OwnCalls
<1>. QED  BY <1>2, <1>3 DEF CancelledBy

\* setprice writes the file of its order before the order is in the map.
LEMMA FitsSaveNew ==
  ASSUME MatchInv, RemovalInv, NEW n \in Nodes, SaveNewMakerOrder(n), NEW x \in Makers
  PROVE  Fits(x)'
<1>0. PICK o : o = rpc[n].o
  OBVIOUS
<1>1. /\ rpc[n].op = "setprice" /\ UNCHANGED <<orders, order, lock, listed, held, loop, owner, msgs, crashed>>
      /\ \A y : y # o => (y \in files' <=> y \in files)
  BY <1>0 DEF SaveNewMakerOrder, mapVars, bookVars, fileVars
<1>2. PICK next : /\ rpc' = [rpc EXCEPT ![n] = next]
                  /\ \/ next = [op |-> "created", o |-> o] /\ (faults' = faults \/ faults' = faults + 1)
                     \/ next = Idle /\ faults' = faults + 1
  BY <1>0 DEF SaveNewMakerOrder, Fault, NoFault
<1>3. o \in Makers /\ owner[o] = n /\ faults \in Nat /\ Fits(x) /\ VolumeInv
  BY <1>0, <1>1, CallOrder DEF MatchInv, ChoiceInv, RemovalInv, Fits
<1>4. next.op \in {"created", "idle"} /\ (next # Idle => next.o = o)
  BY SMT, <1>2 DEF Idle
<1>5. EnvStays
  BY SMT, <1>1, <1>2, <1>3 DEF EnvStays
<1>6. CASE x # o
  <2>1. CallStays(x)
    BY <1>0, <1>1, <1>2, <1>3, <1>4, <1>6, CallChanges
  <2>. QED  BY <1>1, <1>3, <1>5, <1>6, <2>1, SameLoop, Untouched DEF PlaceStays
<1>7. CASE x = o
  <2>1. rpc'[n] = next /\ ~CancelledBy(o)' /\ ~CancelledBy(o) /\ ~Writing(o)'
    BY <1>0, <1>1, <1>2, <1>3, <1>4 DEF VolumeInv, CancelledBy, Writing
  <2>2. ListFits(o) => ListFits(o)'
    BY <1>1, <2>1 DEF ListFits, InLoop
  <2>3. Live(o)' <=> Live(o)
    BY <1>1 DEF Live
  <2>4. ASSUME FileFits(o), faults' = 0 PROVE FileFits(o)'
    <3>1. next # Idle
      <4>1. faults + 1 # 0
        BY SMT, <1>3
      <4>. QED  BY SMT, <1>2, <2>4, <4>1 DEF Idle
    <3>2. BeingSet(o)'
      BY SMT, <1>1, <1>2, <1>3, <2>1, <3>1 DEF BeingSet, Idle
    <3>3. \A t : HeldFor(o, t)' <=> HeldFor(o, t)
      BY <1>1 DEF HeldFor
    <3>4. HeldRequest(o)' <=> HeldRequest(o)
      BY <3>3 DEF HeldRequest
    <3>. QED  BY <1>1, <2>1, <2>4, <3>2, <3>3, <3>4 DEF FileFits, RemovedFits
  <2>. QED  BY <1>3, <1>5, <1>7, <2>2, <2>3, <2>4 DEF Fits, EnvStays
<1>. QED  BY <1>6, <1>7

\* add_order: the order is in the map and in the own orderbook at once.
LEMMA FitsAddNew ==
  ASSUME MatchInv, RemovalInv, NEW n \in Nodes, AddNewMakerOrder(n), NEW x \in Makers
  PROVE  Fits(x)'
<1>0. PICK o : o = rpc[n].o
  OBVIOUS
<1>1. /\ rpc[n].op = "created" /\ rpc' = [rpc EXCEPT ![n] = Idle]
      /\ orders' = orders \cup {o} /\ listed' = listed \cup {o}
      /\ order' = [order EXCEPT ![o] = NewOrder(Ask[o])]
      /\ UNCHANGED <<lock, files, held, loop, owner, msgs, crashed, faults>> /\ EnvStays
  BY <1>0 DEF AddNewMakerOrder, NotifyCreated, EnvStays, fileVars, envVars
<1>2. o \in Makers /\ owner[o] = n /\ Fits(x) /\ VolumeInv /\ x \in Orders
  BY <1>0, <1>1, CallOrder DEF MatchInv, RemovalInv, Fits, Orders
<1>3. Idle.op = "idle"
  BY DEF Idle
<1>4. CASE x # o
  <2>1. CallStays(x)
    BY <1>0, <1>1, <1>2, <1>3, <1>4, CallChanges
  <2>2. order'[x] = order[x]
    BY <1>1, <1>2, <1>4 DEF VolumeInv
  <2>. QED  BY <1>1, <1>2, <1>4, <2>1, <2>2, SameLoop, Untouched DEF PlaceStays
<1>5. CASE x = o
  <2>1. rpc'[n] = Idle /\ ~CancelledBy(o)'
    BY <1>1, <1>2, <1>3 DEF VolumeInv, CancelledBy
  <2>2. ListFits(o) => ListFits(o)'
    BY <1>1, <2>1 DEF ListFits, InLoop
  <2>3. Live(o)' <=> Live(o)
    BY <1>1 DEF Live
  <2>4. FileFits(o) => FileFits(o)'
    BY <1>1 DEF FileFits
  <2>. QED  BY <1>1, <1>2, <1>5, <2>2, <2>3, <2>4 DEF Fits
<1>. QED  BY <1>4, <1>5

\* update_maker_order changes an order of the map under its mutex, or nothing.
LEMMA FitsApply ==
  ASSUME MatchInv, RemovalInv, NEW n \in Nodes, NEW ask \in NewAsks, ApplyUpdate(n, ask), NEW x \in Makers
  PROVE  Fits(x)'
<1>0. PICK o : o = rpc[n].o
  OBVIOUS
<1>1. /\ rpc[n].op = "update"
      /\ UNCHANGED <<orders, listed, files, held, loop, owner, msgs, crashed, faults>> /\ EnvStays
  BY <1>0 DEF ApplyUpdate, EnvStays, fileVars, bookVars, envVars
<1>2. o \in Orders /\ owner[o] = n /\ Fits(x) /\ VolumeInv /\ x \in Orders /\ rpc[n] \in FitTask
      /\ lock \in [Orders -> {"free", "save", "delete", "update", "announce"}]
  BY <1>0, <1>1, CallOrder DEF MatchInv, RemovalInv, Fits, Orders, VolumeInv, SoldInv, SoldTypeOK
<1>3. CASE UNCHANGED <<order, lock>> /\ rpc' = [rpc EXCEPT ![n] = Idle]
  <2>1. Idle.op = "idle"
    BY DEF Idle
  <2>2. CallStays(x)
    BY <1>0, <1>1, <1>2, <1>3, <2>1, CallChanges
  <2>. QED  BY <1>1, <1>2, <1>3, <2>2, SameLoop, Untouched DEF PlaceStays
<1>4. CASE /\ o \in orders /\ lock' = [lock EXCEPT ![o] = "update"]
           /\ order' = [order EXCEPT ![o].max = ask.max, ![o].price = ask.price]
           /\ rpc' = [rpc EXCEPT ![n].op = "updating"]
  <2>. DEFINE next == [rpc[n] EXCEPT !.op = "updating"]
  <2>1. rpc' = [rpc EXCEPT ![n] = next] /\ next.op = "updating" /\ next.o = o
    BY SMT, <1>0, <1>1, <1>2, <1>4 DEF FitTask, Idle, VolumeInv
  <2>2. CASE x # o
    <3>1. CallStays(x)
      BY <1>0, <1>1, <1>2, <2>1, <2>2, CallChanges
    <3>2. order'[x] = order[x] /\ lock'[x] = lock[x]
      BY <1>2, <1>4, <2>2 DEF VolumeInv
    <3>. QED  BY <1>1, <1>2, <2>2, <3>1, <3>2, SameLoop, Untouched DEF PlaceStays
  <2>3. CASE x = o
    <3>1. lock'[o] = "update" /\ o \in orders'
      BY <1>1, <1>2, <1>4
    <3>2. ~CancelledBy(o) /\ ~CancelledBy(o)'
      BY <1>1, <1>2, <2>1 DEF CancelledBy, VolumeInv
    <3>3. ListFits(o) => ListFits(o)'
      BY <1>1, <3>2 DEF ListFits, InLoop
    <3>4. FileFits(o)'
      BY <3>1 DEF FileFits
    <3>. QED  BY <1>1, <1>2, <2>3, <3>3, <3>4 DEF Fits, Live
  <2>. QED  BY <2>2, <2>3
<1>. QED  BY <1>0, <1>3, <1>4 DEF ApplyUpdate

\* save_maker_order_on_update: an order that lp_ordermatch_loop removed in the meantime is deleted
\* once the mutex is free again.
LEMMA FitsSaveUpdate ==
  ASSUME MatchInv, RemovalInv, NEW n \in Nodes, SaveUpdate(n), NEW x \in Makers
  PROVE  Fits(x)'
<1>0. PICK o : o = rpc[n].o
  OBVIOUS
<1>1. /\ rpc[n].op = "updating" /\ rpc' = [rpc EXCEPT ![n] = Idle] /\ lock' = [lock EXCEPT ![o] = "free"]
      /\ UNCHANGED <<orders, listed, held, loop, owner, msgs, crashed>>
      /\ \A y : y # o => (y \in files' <=> y \in files)
      /\ order' = order \/ order' = [order EXCEPT ![o] = rpc[n].before]
  BY <1>0 DEF SaveUpdate, NotifyUpdated, fileVars, bookVars
<1>2. (faults' = faults /\ order' = order) \/ faults' = faults + 1
  BY <1>0 DEF SaveUpdate, NoFault, Fault
<1>3. o \in Orders /\ owner[o] = n /\ Fits(x) /\ VolumeInv /\ x \in Orders /\ rpc[n] \in FitTask
      /\ lock \in [Orders -> {"free", "save", "delete", "update", "announce"}] /\ faults \in Nat
      /\ lock[o] = "update"
  BY <1>0, <1>1, CallOrder DEF MatchInv, RemovalInv, Fits, Orders, VolumeInv, SoldInv, SoldTypeOK, ChoiceInv, UpdateInv
<1>4. EnvStays
  BY SMT, <1>1, <1>2, <1>3 DEF EnvStays
<1>5. Idle.op = "idle"
  BY DEF Idle
<1>6. CallStays(x)
  BY <1>0, <1>1, <1>3, <1>5, CallChanges
<1>7. CASE x # o
  <2>1. order'[x] = order[x] /\ lock'[x] = lock[x]
    BY <1>1, <1>3, <1>7 DEF VolumeInv
  <2>. QED  BY <1>1, <1>3, <1>4, <1>6, <1>7, <2>1, SameLoop, Untouched DEF PlaceStays
<1>8. CASE x = o
  <2>1. ListFits(o) => ListFits(o)'
    BY <1>1, <1>6, <1>8 DEF ListFits, InLoop, CallStays
  <2>2. ASSUME FileFits(o), faults' = 0 PROVE FileFits(o)'
    <3>1. lock'[o] = "free" /\ Writing(o) /\ ~Writing(o)'
      BY <1>0, <1>1, <1>3, <1>5 DEF Writing, VolumeInv
    <3>2. order' = order
      BY SMT, <1>2, <1>3, <2>2
    <3>3. SUFFICES ASSUME o \notin orders PROVE RemovedFits(o)'
      BY <1>1, <3>1 DEF FileFits
    <3>4. RemovedFits(o)
      BY <2>2, <3>3 DEF FileFits
    <3>5. \A t : HeldFor(o, t)' <=> HeldFor(o, t)
      BY <1>1 DEF HeldFor
    <3>6. HeldRequest(o)' <=> HeldRequest(o)
      BY <3>5 DEF HeldRequest
    <3>7. Deleting(o)' \/ HeldRequest(o)'
      BY <1>1, <3>1, <3>4, <3>6 DEF RemovedFits, Deleting
    <3>. QED  BY <1>1, <3>1, <3>2, <3>4, <3>5, <3>7 DEF RemovedFits
  <2>. QED  BY <1>1, <1>3, <1>4, <1>8, <2>1, <2>2 DEF Fits, Live, EnvStays
<1>. QED  BY <1>7, <1>8

\* A step after which the maker side of node n is the same but for the call it executes.
LEMMA FitsCall ==
  ASSUME MatchInv, RemovalInv, EnvStays, NEW x \in Makers, CallStays(x),
         UNCHANGED <<orders, order, lock, files, listed, held, loop>>
  PROVE  Fits(x)'
<1>1. Fits(x)
  BY DEF RemovalInv, Fits
<1>. QED  BY <1>1, SameLoop, Untouched DEF PlaceStays, EnvStays

\* setprice, update_maker_order and cancel_orders_by begin.
LEMMA FitsBegin ==
  ASSUME MatchInv, RemovalInv, NEW x \in Makers,
         \/ \E o \in Makers, cancel_previous \in BOOLEAN : SetPrice(o, cancel_previous)
         \/ \E o \in Orders : UpdateMakerOrder(o)
         \/ \E n \in Nodes : CancelOrdersBy(n)
  PROVE  Fits(x)'
<1>. USE DEF mapVars, fileVars, bookVars
<1>1. VolumeInv /\ \A o \in Orders : owner[o] \in Nodes
  BY DEF MatchInv, VolumeInv
<1>2. UNCHANGED <<orders, order, lock, files, listed, held, loop>> /\ EnvStays
  BY DEF SetPrice, UpdateMakerOrder, CancelOrdersBy, EnvStays
<1>3. PICK n \in Nodes : \E next : /\ rpc' = [rpc EXCEPT ![n] = next] /\ rpc[n] = Idle
                                   /\ next.op \in {"setprice", "update", "cancel_by"}
  <2>1. ASSUME NEW o \in Makers, NEW cancel_previous \in BOOLEAN, SetPrice(o, cancel_previous)
        PROVE  \E n \in Nodes : \E next : /\ rpc' = [rpc EXCEPT ![n] = next] /\ rpc[n] = Idle
                               /\ next.op \in {"setprice", "update", "cancel_by"}
    <3>. DEFINE next == [op |-> "setprice", o |-> o,
                  prev |-> IF cancel_previous THEN orders \cap Own(owner[o]) \cap Makers ELSE {}]
    <3>1. rpc' = [rpc EXCEPT ![owner[o]] = next] /\ rpc[owner[o]] = Idle
      BY <2>1 DEF SetPrice
    <3>2. next.op = "setprice" /\ owner[o] \in Nodes
      BY <1>1 DEF Orders
    <3>. QED  BY <3>1, <3>2
  <2>2. ASSUME NEW o \in Orders, UpdateMakerOrder(o)
        PROVE  \E n \in Nodes : \E next : /\ rpc' = [rpc EXCEPT ![n] = next] /\ rpc[n] = Idle
                               /\ next.op \in {"setprice", "update", "cancel_by"}
    <3>. DEFINE next == [op |-> "update", o |-> o, before |-> order[o]]
    <3>1. rpc' = [rpc EXCEPT ![owner[o]] = next] /\ rpc[owner[o]] = Idle
      BY <2>2 DEF UpdateMakerOrder
    <3>2. next.op = "update" /\ owner[o] \in Nodes
      BY <1>1
    <3>. QED  BY <3>1, <3>2
  <2>3. ASSUME NEW n \in Nodes, CancelOrdersBy(n)
        PROVE  \E next : /\ rpc' = [rpc EXCEPT ![n] = next] /\ rpc[n] = Idle
                         /\ next.op \in {"setprice", "update", "cancel_by"}
    <3>. DEFINE next == [op |-> "cancel_by", left |-> orders \cap Own(n), chosen |-> {}]
    <3>1. rpc' = [rpc EXCEPT ![n] = next] /\ rpc[n] = Idle
      BY <2>3 DEF CancelOrdersBy
    <3>2. next.op = "cancel_by"
      OBVIOUS
    <3>. QED  BY <3>1, <3>2
  <2>. QED  BY <2>1, <2>2, <2>3
<1>4. rpc[n].op = "idle"
  BY SMT, <1>3 DEF Idle
<1>5. CallStays(x)
  BY <1>1, <1>2, <1>3, <1>4, CallChanges DEF EnvStays
<1>. QED  BY <1>2, <1>5, FitsCall

\* balance_updated cuts the volume of an order.
LEMMA FitsCut ==
  ASSUME MatchInv, RemovalInv, NEW o \in Orders, NEW volume \in Balances, BalanceUpdated(o, volume),
         NEW x \in Makers
  PROVE  Fits(x)'
<1>1. o \in orders /\ lock[o] = "free" /\ UNCHANGED <<rpc, loop, crashed>> /\ EnvStays
  BY DEF BalanceUpdated, EnvStays
<1>2. CASE RemoveAndDelete(o)
  BY <1>1, <1>2, FitsRemove
<1>3. CASE order' = [order EXCEPT ![o] = CutTo(order[o], volume)] /\ UNCHANGED <<orders, held, lock, files, listed>>
  <2>1. x \in Orders /\ \A y \in Orders : order'[y].matches = order[y].matches
    BY <1>3, CutMatches DEF MatchInv, Orders
  <2>2. PlaceStays(x)
    BY <1>3, <2>1 DEF PlaceStays
  <2>3. Fits(x)
    BY DEF RemovalInv, Fits
  <2>. QED  BY <1>1, <2>2, <2>3, SameCall, SameLoop, Untouched DEF EnvStays
<1>. QED  BY <1>2, <1>3 DEF BalanceUpdated, NotifyUpdated, fileVars

\* Every step of the maker side.
LEMMA FitsMaker ==
  ASSUME MatchInv, RemovalInv, MakerStep, NEW x \in Makers
  PROVE  Fits(x)'
<1>1. ASSUME NEW o \in Orders, LoopStep(o) PROVE Fits(x)'
  <2>1. ASSUME CheckBalanceForMakerOrders(o) PROVE Fits(x)'
    <3>1. o \in orders /\ lock[o] = "free" /\ RemoveAndDelete(o) /\ UNCHANGED <<rpc, loop, crashed>>
          /\ EnvStays
      BY <2>1 DEF CheckBalanceForMakerOrders, EnvStays, envVars
    <3>. QED  BY <3>1, FitsRemove
  <2>. QED  BY <1>1, <2>1, FitsTimeout, FitsMissing, FitsLoopTask DEF LoopStep
<1>2. ASSUME NEW o \in Orders, HandlerStep(o) PROVE Fits(x)'
  BY <1>2, FitsSave, FitsDelete, FitsRequest, FitsConnect DEF HandlerStep
<1>3. ASSUME NEW n \in Nodes, RpcStep(n) PROVE Fits(x)'
  <2>1. ASSUME NEW p \in Orders, CancelPreviousMakerOrder(n, p) PROVE Fits(x)'
    <3>1. p \in orders /\ lock[p] = "free" /\ RemoveAndDelete(p) /\ UNCHANGED <<rpc, loop, crashed>>
          /\ EnvStays
      BY <2>1 DEF CancelPreviousMakerOrder, EnvStays, envVars
    <3>. QED  BY <3>1, FitsRemove
  <2>. QED  BY <1>3, <2>1, FitsSaveNew, FitsAddNew, FitsApply, FitsSaveUpdate DEF RpcStep
<1>4. ASSUME NEW o \in Orders, CancelMakerOrder(o) PROVE Fits(x)'
  <2>1. o \in orders /\ lock[o] = "free" /\ RemoveAndDelete(o) /\ UNCHANGED <<rpc, loop, crashed>>
        /\ EnvStays
    BY <1>4 DEF CancelMakerOrder, EnvStays
  <2>. QED  BY <2>1, FitsRemove
<1>. QED  BY <1>1, <1>2, <1>3, <1>4, FitsBegin, FitsCut DEF MakerStep

\* Every step of the taker side.
LEMMA FitsTaker ==
  ASSUME MatchInv, RemovalInv, NEW t \in Takers, TakerStep(t), UNCHANGED makerVars, NEW x \in Makers
  PROVE  Fits(x)'
<1>1. faults \in Nat
  BY DEF MatchInv, ChoiceInv
<1>2. /\ owner' = owner /\ crashed \subseteq crashed' /\ msgs \subseteq msgs'
      /\ faults' = faults \/ faults' = faults + 1
  BY DEF TakerStep, TakerTaskStep, LpAutoBuy, SaveNewTakerOrder, SaveTakerMatch, DeleteMyTakerOrder,
         MakerReservedArrives, ProcessMakerReserved, ProcessMakerConnected, HandleTimedOutTakerOrder,
         CancelTakerOrder, Broadcast, NoFault, Fault, envVars
<1>3. EnvStays
  BY SMT, <1>1, <1>2 DEF EnvStays
<1>4. UNCHANGED <<orders, order, lock, files, listed, held, loop, rpc>>
  BY DEF makerVars, mapVars, fileVars, bookVars
<1>. QED  BY <1>2, <1>3, <1>4, SameCall, FitsCall

\* The conversion of a taker order does not touch the orders of setprice.
LEMMA FitsConversion ==
  ASSUME MatchInv, RemovalInv, NEW t \in Takers, ConversionStep(t), NEW x \in Makers
  PROVE  Fits(x)'
<1>. USE DEF mapVars, fileVars, bookVars
<1>1. x # t /\ x \in Orders /\ faults \in Nat /\ order \in [Orders -> FitOrder]
  BY OrdersAssumption DEF MatchInv, ChoiceInv, VolumeInv, Orders
<1>2. /\ UNCHANGED <<owner, crashed, msgs, lock, held, loop, rpc>>
      /\ faults' = faults \/ faults' = faults + 1
  BY DEF ConversionStep, AddConvertedOrder, SaveConvertedOrder, AnnounceConvertedOrder, NoFault, Fault
<1>3. EnvStays
  BY SMT, <1>1, <1>2 DEF EnvStays
<1>4. /\ orders' = orders \/ orders' = orders \cup {t}
      /\ order' = order \/ order' = [order EXCEPT ![t] = FromTaker(t)]
      /\ files' = files \/ files' = files \cup {t}
      /\ listed' = listed \/ listed' = listed \cup {t}
  BY DEF ConversionStep, AddConvertedOrder, SaveConvertedOrder, AnnounceConvertedOrder, NotifyCreated
<1>5. PlaceStays(x)
  BY <1>1, <1>2, <1>4 DEF PlaceStays
<1>6. Fits(x)
  BY DEF RemovalInv, Fits
<1>. QED  BY <1>2, <1>3, <1>5, <1>6, SameCall, SameLoop, Untouched

\* cancel_orders_by: what it took out of the map it announces as cancelled and deletes.
LEMMA FitsCancelBy ==
  ASSUME MatchInv, RemovalInv, NEW n \in Nodes, CancelByStep(n), NEW x \in Makers
  PROVE  Fits(x)'
<1>. USE DEF mapVars, fileVars, bookVars, envVars
<1>1. /\ x \in Orders /\ owner[x] \in Nodes /\ faults \in Nat /\ rpc \in [Nodes -> FitTask] /\ rpc[n] \in FitTask
      /\ Fits(x) /\ VolumeInv
  BY DEF MatchInv, ChoiceInv, VolumeInv, Orders, RemovalInv, Fits
<1>2. ASSUME NEW o \in Orders, TestCancellable(n, o) PROVE Fits(x)'
  <2>1. UNCHANGED <<orders, order, lock, files, listed, held, loop, owner>> /\ EnvStays /\ rpc[n].op = "cancel_by"
    BY <1>2 DEF TestCancellable, EnvStays
  <2>2. PICK next : rpc' = [rpc EXCEPT ![n] = next] /\ next.op = "cancel_by"
    <3>. DEFINE next == [rpc[n] EXCEPT !.left = @ \ {o},
                           !.chosen = IF IsCancellable(order[o]) THEN @ \cup {o} ELSE @]
    <3>1. rpc' = [rpc EXCEPT ![n] = next]
      BY Zenon, <1>1, <1>2 DEF TestCancellable
    <3>2. next.op = "cancel_by"
      BY SMT, <1>1, <2>1 DEF FitTask, Idle
    <3>. QED  BY <3>1, <3>2
  <2>3. CallStays(x)
    BY <1>1, <2>1, <2>2, CallChanges
  <2>. QED  BY <2>1, <2>3, FitsCall
<1>3. CASE RemoveCancelled(n)
  <2>0. PICK os : os = rpc[n].chosen
    OBVIOUS
  <2>1. /\ UNCHANGED <<order, lock, files, listed, loop, owner, crashed, msgs, faults>> /\ EnvStays
        /\ RemoveOrders(os) /\ rpc[n].op = "cancel_by" /\ os \subseteq Own(n)
    BY <1>3, <2>0 DEF RemoveCancelled, EnvStays, RemovalInv, OwnCancels
  <2>2. rpc'[n].op = "cancelled_by" /\ rpc'[n].chosen = os /\ \A y \in Nodes : y # n => rpc'[y] = rpc[y]
    BY <1>1, <1>3, <2>0 DEF RemoveCancelled
  <2>3. CASE x \in os
    <3>1. owner[x] = n /\ CancelledBy(x)' /\ ~Writing(x)' /\ ~BeingSet(x)
      BY <2>1, <2>2, <2>3 DEF Own, CancelledBy, Writing, BeingSet
    <3>2. x \notin orders' /\ (InLoop(x)' <=> InLoop(x)) /\ (Live(x)' <=> Live(x))
      BY <2>1, <2>3 DEF RemoveOrders, InLoop, Live
    <3>3. ListFits(x) => ListFits(x)'
      BY <3>1, <3>2 DEF ListFits
    <3>4. ASSUME FileFits(x) PROVE FileFits(x)'
      <4>1. CASE x \in orders
        <5>1. /\ \A t \in Takers : RequestMsg(t) \in msgs => HeldFor(x, t)'
              /\ \A t \in Takers : order[x].matches[t].status # "none" => HeldFor(x, t)'
          BY <2>1, <2>3, <4>1, RemovedHeld DEF HeldFor
        <5>2. lock'[x] = "save" => HeldRequest(x)'
          BY <2>1, <3>4, <5>1 DEF FileFits, HeldRequest
        <5>. QED  BY <2>1, <3>1, <3>4, <5>1, <5>2 DEF FileFits, RemovedFits, Deleting
      <4>2. CASE x \notin orders
        <5>1. held \subseteq held' /\ \A h \in held' : h.o = x => h \in held
          BY <2>1, <4>2, RemovedOther
        <5>2. RemovedFits(x)
          BY <3>4, <4>2 DEF FileFits
        <5>3. \A t : HeldFor(x, t) => HeldFor(x, t)'
          BY <5>1 DEF HeldFor
        <5>4. lock'[x] = "save" => HeldRequest(x)'
          BY <2>1, <5>2, <5>3 DEF RemovedFits, HeldRequest
        <5>5. RemovedFits(x)'
          BY <2>1, <3>1, <5>1, <5>2, <5>3, <5>4 DEF RemovedFits, Deleting
        <5>. QED  BY <2>1, <3>4, <5>5 DEF FileFits
      <4>. QED  BY <4>1, <4>2
    <3>. QED  BY <1>1, <2>1, <3>2, <3>3, <3>4 DEF Fits
  <2>4. CASE x \notin os
    <3>1. CallStays(x)
      <4>1. CASE owner[x] # n
        BY <1>1, <2>1, <2>2, <4>1, SameCall
      <4>2. CASE owner[x] = n
        BY <2>1, <2>2, <2>4, <4>2, OtherCall DEF CancelledBy, Writing, BeingSet
      <4>. QED  BY <4>1, <4>2
    <3>2. PlaceStays(x)
      BY <2>1, <2>4, RemovedOther DEF PlaceStays
    <3>. QED  BY <1>1, <2>1, <3>1, <3>2, SameLoop, Untouched
  <2>. QED  BY <2>3, <2>4
<1>4. CASE DeleteCancelled(n)
  <2>1. /\ UNCHANGED <<orders, order, lock, held, loop, owner, crashed, msgs>>
        /\ rpc[n].op = "cancelled_by" /\ (faults' = faults \/ faults' = faults + 1)
    BY <1>4 DEF DeleteCancelled, NoFault, Fault
  <2>2. EnvStays
    BY SMT, <1>1, <2>1 DEF EnvStays
  <2>3. ASSUME UNCHANGED <<listed, files>>, rpc[n].chosen = {},
               NEW next, rpc' = [rpc EXCEPT ![n] = next],
               next.op = "idle" \/ (next.op = "cancelled_by" /\ next.chosen = {})
        PROVE  Fits(x)'
    <3>1. CallStays(x)
      <4>1. CASE owner[x] # n
        BY <1>1, <2>1, <2>3, <4>1, SameCall
      <4>2. CASE owner[x] = n
        <5>1. rpc'[n].op = "idle" \/ (rpc'[n].op = "cancelled_by" /\ rpc'[n].chosen = {})
          BY <1>1, <2>3
        <5>. QED  BY <2>1, <2>3, <4>2, <5>1, OtherCall DEF CancelledBy, Writing, BeingSet
      <4>. QED  BY <4>1, <4>2
    <3>. QED  BY <2>1, <2>2, <2>3, <3>1, FitsCall
  <2>4. ASSUME NEW o \in rpc[n].chosen, listed' = listed \ {o}, rpc' = [rpc EXCEPT ![n].chosen = @ \ {o}],
               (faults' = faults /\ files' = files \ {o}) \/ (faults' = faults + 1 /\ files' = files)
        PROVE  Fits(x)'
    <3>1. owner[o] = n /\ \A y \in rpc[n].chosen : owner[y] = n
      BY <2>1 DEF RemovalInv, OwnCancels, Own
    <3>2. /\ rpc'[n].op = "cancelled_by" /\ rpc'[n].chosen = rpc[n].chosen \ {o}
          /\ \A y \in Nodes : y # n => rpc'[y] = rpc[y]
      BY SMT, <1>1, <2>1, <2>4 DEF FitTask, Idle
    <3>3. CASE x # o
      <4>1. CallStays(x)
        <5>1. CASE owner[x] # n
          BY <1>1, <2>1, <3>2, <5>1, SameCall
        <5>2. CASE owner[x] = n
          BY <2>1, <3>2, <3>3, <5>2 DEF CallStays, CancelledBy, Writing, BeingSet
        <5>. QED  BY <5>1, <5>2
      <4>2. PlaceStays(x)
        BY <2>1, <2>4, <3>3 DEF PlaceStays
      <4>. QED  BY <1>1, <2>1, <2>2, <4>1, <4>2, SameLoop, Untouched
    <3>4. CASE x = o
      <4>1. CancelledBy(x) /\ ~CancelledBy(x)' /\ ~Writing(x)' /\ x \notin listed'
        BY <2>1, <2>4, <3>1, <3>2, <3>4 DEF CancelledBy, Writing
      <4>2. ListFits(x) => ListFits(x)'
        BY <2>1, <4>1 DEF ListFits, InLoop
      <4>3. ASSUME FileFits(x), faults' = 0 PROVE FileFits(x)'
        <5>1. x \notin files'
          BY SMT, <1>1, <2>4, <3>4, <4>3
        <5>2. \A t : HeldFor(x, t)' <=> HeldFor(x, t)
          BY <2>1 DEF HeldFor
        <5>3. HeldRequest(x)' <=> HeldRequest(x)
          BY <5>2 DEF HeldRequest
        <5>. QED  BY <2>1, <4>1, <4>3, <5>1, <5>2, <5>3 DEF FileFits, RemovedFits
      <4>. QED  BY <1>1, <2>1, <2>2, <4>2, <4>3 DEF Fits, Live, EnvStays
    <3>. QED  BY <3>3, <3>4
  <2>5. ASSUME rpc[n].chosen = {}, NEW t, rpc' = [rpc EXCEPT ![n].takers = @ \ {t}]
        PROVE  \E next : /\ rpc' = [rpc EXCEPT ![n] = next]
                         /\ next.op = "cancelled_by" /\ next.chosen = {}
    <3>. DEFINE next == [rpc[n] EXCEPT !.takers = @ \ {t}]
    <3>1. rpc' = [rpc EXCEPT ![n] = next]
      BY SMT, <1>1, <2>5
    <3>2. next.op = "cancelled_by" /\ next.chosen = {}
      BY SMT, <1>1, <2>1, <2>5 DEF FitTask, Idle
    <3>. QED  BY <3>1, <3>2
  <2>6. Idle.op = "idle"
    BY DEF Idle
  <2>7. \/ \E o \in rpc[n].chosen :
             /\ listed' = listed \ {o} /\ rpc' = [rpc EXCEPT ![n].chosen = @ \ {o}]
             /\ (faults' = faults /\ files' = files \ {o}) \/ (faults' = faults + 1 /\ files' = files)
        \/ /\ rpc[n].chosen = {} /\ UNCHANGED <<listed, files>>
           /\ \E t \in rpc[n].takers : rpc' = [rpc EXCEPT ![n].takers = @ \ {t}]
        \/ rpc[n].chosen = {} /\ UNCHANGED <<listed, files>> /\ rpc' = [rpc EXCEPT ![n] = Idle]
    BY <1>4 DEF DeleteCancelled, DeleteFile, NoFault, Fault
  <2>8. CASE /\ rpc[n].chosen = {} /\ UNCHANGED <<listed, files>>
             /\ \E t \in rpc[n].takers : rpc' = [rpc EXCEPT ![n].takers = @ \ {t}]
    <3>1. PICK t \in rpc[n].takers : rpc' = [rpc EXCEPT ![n].takers = @ \ {t}]
      BY <2>8
    <3>2. PICK next : rpc' = [rpc EXCEPT ![n] = next] /\ next.op = "cancelled_by" /\ next.chosen = {}
      BY <2>5, <2>8, <3>1
    <3>. QED  BY <2>3, <2>8, <3>2
  <2>9. CASE rpc[n].chosen = {} /\ UNCHANGED <<listed, files>> /\ rpc' = [rpc EXCEPT ![n] = Idle]
    BY <2>3, <2>6, <2>9
  <2>. QED  BY <2>4, <2>7, <2>8, <2>9
<1>. QED  BY <1>2, <1>3, <1>4 DEF CancelByStep

\* A restart loads every file, and no handler of the stopped process is left.
LEMMA FitsRestart ==
  ASSUME MatchInv, RemovalInv, NEW n \in Nodes, Restart(n), NEW x \in Makers
  PROVE  Fits(x)'
<1>1. /\ x \in Orders /\ owner[x] \in Nodes /\ rpc \in [Nodes -> FitTask] /\ Fits(x)
      /\ loop \in [Nodes -> LoopTask]
      /\ lock \in [Orders -> {"free", "save", "delete", "update", "announce"}]
  BY DEF MatchInv, VolumeInv, SoldInv, SoldTypeOK, Orders, RemovalInv, Fits
<1>2. /\ UNCHANGED <<owner, msgs, faults, files>> /\ crashed' = crashed \cup {n} /\ EnvStays
      /\ orders' = (orders \ Own(n)) \cup (files \cap Own(n))
      /\ order' = [o \in Orders |-> IF o \in files \cap Own(n) THEN saved[o] ELSE order[o]]
      /\ lock' = [o \in Orders |-> IF o \in Own(n) THEN "free" ELSE lock[o]]
      /\ listed' = listed \ Own(n) /\ held' = {h \in held : owner[h.o] # n}
      /\ rpc' = [rpc EXCEPT ![n] = Idle] /\ loop' = [loop EXCEPT ![n] = Idle]
  BY DEF Restart, MakerRestart, EnvStays, fileVars
<1>3. CASE owner[x] = n
  <2>1. x \in Own(n) /\ ~Live(x)'
    BY <1>1, <1>2, <1>3 DEF Own, Live
  <2>2. lock'[x] = "free" /\ (x \notin orders' => x \notin files') /\ \A h \in held' : h.o # x
    BY <1>1, <1>2, <1>3, <2>1
  <2>3. ~Writing(x)'
    BY <1>1, <1>2, <1>3 DEF Writing, Idle
  <2>4. FileFits(x)'
    BY <2>2, <2>3 DEF FileFits, RemovedFits
  <2>. QED  BY <2>1, <2>4 DEF Fits
<1>4. CASE owner[x] # n
  <2>1. x \notin Own(n) /\ rpc'[owner[x]] = rpc[owner[x]] /\ loop'[owner[x]] = loop[owner[x]]
    BY <1>1, <1>2, <1>4 DEF Own
  <2>2. /\ x \in orders' <=> x \in orders
        /\ x \in listed' <=> x \in listed
        /\ lock'[x] = lock[x] /\ order'[x] = order[x]
    BY <1>1, <1>2, <2>1
  <2>3. \A h : h.o = x => (h \in held' <=> h \in held)
    BY <1>2, <1>4
  <2>4. /\ \A t : HeldFor(x, t)' <=> HeldFor(x, t)
        /\ HeldRequest(x)' <=> HeldRequest(x)
        /\ Live(x)' <=> Live(x)
    <3>1. \A t : [o |-> x, m |-> RequestMsg(t)].o = x
      OBVIOUS
    <3>. QED  BY <1>2, <1>4, <2>3, <3>1 DEF HeldFor, HeldRequest, Live
  <2>5. CallStays(x) /\ (InLoop(x)' <=> InLoop(x))
    BY <1>2, <2>1, SameCall DEF InLoop
  <2>6. ListFits(x) => ListFits(x)'
    BY <2>2, <2>5 DEF ListFits, CallStays
  <2>7. ASSUME RemovedFits(x) PROVE RemovedFits(x)'
    <3>1. Deleting(x) => Deleting(x)'
      BY <1>2, <2>1, <2>2, <2>5 DEF Deleting, CallStays
    <3>. QED  BY <1>2, <2>1, <2>2, <2>3, <2>4, <2>5, <2>7, <3>1 DEF RemovedFits, CallStays
  <2>8. FileFits(x) => FileFits(x)'
    BY <1>2, <2>2, <2>7 DEF FileFits
  <2>. QED  BY <1>1, <1>2, <2>4, <2>6, <2>8 DEF Fits
<1>. QED  BY <1>3, <1>4

-----------------------------------------------------------------------------
(* The rest of RemovalInv, and what follows from it.                       *)

\* What is available of an order is a number.
LEMMA AvailableInt ==
  ASSUME NEW c \in MakerOrder
  PROVE  AvailableAmount(c) \in Int
<1>1. c.max \in Nat
  BY DEF MakerOrder
<1>2. ReservedAmount(c) \in Nat
  BY UnitsFinite DEF ReservedAmount
<1>. QED  BY SMT, <1>1, <1>2 DEF AvailableAmount

\* The maker side leaves its variables what they are; what it does to the own orderbook apart.
PlacesTyped == files' \subseteq Orders /\ held' \subseteq [o : Orders, m : Message]
BookTyped == listed' \subseteq Orders /\ book' \in [Orders -> Int]

LEMMA BookChanges ==
  ASSUME RestTypeOK,
         \/ UNCHANGED bookVars
         \/ \E o \in Orders, c \in MakerOrder : NotifyCreated(o, c) \/ NotifyUpdated(o, c)
         \/ \E o \in Orders : listed' = listed \ {o} /\ book' = [book EXCEPT ![o] = 0]
  PROVE  BookTyped
<1>1. listed \subseteq Orders /\ book \in [Orders -> Int] /\ 0 \in Int
  BY SMT DEF RestTypeOK
<1>2. CASE UNCHANGED bookVars
  BY <1>1, <1>2 DEF bookVars, BookTyped
<1>3. ASSUME NEW o \in Orders, NEW c \in MakerOrder, NotifyCreated(o, c) \/ NotifyUpdated(o, c)
      PROVE  BookTyped
  BY <1>1, <1>3, AvailableInt DEF NotifyCreated, NotifyUpdated, BookTyped
<1>4. ASSUME NEW o \in Orders, listed' = listed \ {o}, book' = [book EXCEPT ![o] = 0]
      PROVE  BookTyped
  BY <1>1, <1>4 DEF BookTyped
<1>. QED  BY <1>2, <1>3, <1>4

\* remove_order leaves messages to their handlers.
LEMMA HeldTyped ==
  ASSUME MatchInv, RestTypeOK, NEW os, RemoveOrders(os)
  PROVE  held' \subseteq [o : Orders, m : Message]
<1>1. orders \subseteq Orders /\ msgs \subseteq Message /\ held \subseteq [o : Orders, m : Message]
  BY DEF MatchInv, SoldInv, SoldTypeOK, DealInv, MakerMsgs, RestTypeOK
<1>. QED  BY SMT, <1>1 DEF RemoveOrders

\* A handler or the loop works on an order.
LEMMA TypedOrderStep ==
  ASSUME MatchInv, RestTypeOK, NEW o \in Orders,
         LoopStep(o) \/ HandlerStep(o) \/ CancelMakerOrder(o) \/ \E volume \in Balances : BalanceUpdated(o, volume)
  PROVE  PlacesTyped /\ BookTyped
<1>. USE DEF fileVars, bookVars, mapVars
<1>1. files \subseteq Orders /\ held \subseteq [o : Orders, m : Message] /\ order[o] \in MakerOrder
      /\ order[o] \in FitOrder
  BY DEF RestTypeOK, MatchInv, VolumeInv, FitOrder
<1>2. ASSUME RemoveAndDelete(o) PROVE PlacesTyped /\ BookTyped
  BY <1>1, <1>2, HeldTyped, BookChanges DEF RemoveAndDelete, PlacesTyped
<1>3. ASSUME LoopStep(o) PROVE PlacesTyped /\ BookTyped
  <2>1. CASE (\E old \in SUBSET Takers : HandleTimedOutMakerMatches(o, old)) \/ (\E volume \in Balances : CheckMissingOrder(o, volume))
             \/ DeleteMissingOrder(o)
    BY <1>1, <2>1, BookChanges DEF HandleTimedOutMakerMatches, CheckMissingOrder, DeleteMissingOrder, PlacesTyped
  <2>2. CASE AnnounceMissingOrder(o)
    BY <1>1, <2>2, BookChanges DEF AnnounceMissingOrder, PlacesTyped
  <2>3. CASE CancelMissingOrder(o)
    BY <1>1, <2>3, HeldTyped, BookChanges DEF CancelMissingOrder, PlacesTyped
  <2>. QED  BY <1>2, <1>3, <2>1, <2>2, <2>3 DEF LoopStep, LoopTaskStep, CheckBalanceForMakerOrders
<1>4. ASSUME HandlerStep(o) PROVE PlacesTyped /\ BookTyped
  <2>1. CASE Save(o) \/ Delete(o) \/ \E t \in Takers : ProcessTakerRequest(o, t)
    BY <1>1, <2>1, BookChanges DEF Save, Delete, DeleteFile, ProcessTakerRequest, PlacesTyped
  <2>2. ASSUME NEW t \in Takers, ProcessTakerConnect(o, t) PROVE PlacesTyped /\ BookTyped
    <3>. DEFINE c == [order[o] EXCEPT !.matches[t].status = "connected"]
    <3>1. c \in MakerOrder
      BY SMT, <1>1 DEF MakerOrder, Match
    <3>2. NotifyUpdated(o, c) \/ UNCHANGED bookVars
      BY <2>2 DEF ProcessTakerConnect
    <3>3. PlacesTyped
      BY <1>1, <2>2 DEF ProcessTakerConnect, PlacesTyped
    <3>. QED  BY <3>1, <3>2, <3>3, BookChanges
  <2>. QED  BY <1>4, <2>1, <2>2 DEF HandlerStep
<1>5. ASSUME NEW volume \in Balances, BalanceUpdated(o, volume) PROVE PlacesTyped /\ BookTyped
  <2>1. CASE RemoveAndDelete(o)
    BY <1>2, <2>1
  <2>2. CASE /\ volume < AvailableAmount(order[o])
             /\ NotifyUpdated(o, CutTo(order[o], volume))
             /\ UNCHANGED <<orders, held, lock, fileVars>>
    <3>1. CutTo(order[o], volume) \in MakerOrder
      BY <1>1, <2>2, CutFits DEF FitOrder
    <3>. QED  BY <1>1, <2>2, <3>1, BookChanges DEF PlacesTyped
  <2>. QED  BY <1>5, <2>1, <2>2 DEF BalanceUpdated
<1>. QED  BY <1>2, <1>3, <1>4, <1>5 DEF CancelMakerOrder

\* A call works on an order.
LEMMA TypedCall ==
  ASSUME MatchInv, RestTypeOK,
         \/ \E n \in Nodes : RpcStep(n)
         \/ \E o \in Makers, cancel_previous \in BOOLEAN : SetPrice(o, cancel_previous)
         \/ \E o \in Orders : UpdateMakerOrder(o)
  PROVE  PlacesTyped /\ BookTyped
<1>. USE DEF fileVars, bookVars, mapVars
<1>1. files \subseteq Orders /\ held \subseteq [o : Orders, m : Message]
  BY DEF RestTypeOK
<1>2. ASSUME NEW n \in Nodes, NEW p \in Orders, CancelPreviousMakerOrder(n, p)
      PROVE  PlacesTyped /\ BookTyped
  BY <1>1, <1>2, HeldTyped, BookChanges DEF CancelPreviousMakerOrder, RemoveAndDelete, PlacesTyped
<1>3. ASSUME NEW n \in Nodes, SaveNewMakerOrder(n) PROVE PlacesTyped /\ BookTyped
  <2>1. rpc[n].o \in Orders
    BY <1>3, CallOrder DEF SaveNewMakerOrder
  <2>. QED  BY <1>1, <1>3, <2>1, BookChanges DEF SaveNewMakerOrder, PlacesTyped
<1>4. ASSUME NEW n \in Nodes, AddNewMakerOrder(n) PROVE PlacesTyped /\ BookTyped
  <2>1. rpc[n].o \in Makers /\ rpc[n].o \in Orders
    BY <1>4, CallOrder DEF AddNewMakerOrder
  <2>2. NewOrder(Ask[rpc[n].o]) \in MakerOrder
    BY <2>1, NewOrderFits DEF FitOrder
  <2>. QED  BY <1>1, <1>4, <2>1, <2>2, BookChanges DEF AddNewMakerOrder, PlacesTyped
<1>5. ASSUME NEW n \in Nodes, NEW ask \in NewAsks, ApplyUpdate(n, ask) PROVE PlacesTyped /\ BookTyped
  BY <1>1, <1>5, BookChanges DEF ApplyUpdate, PlacesTyped
<1>6. ASSUME NEW n \in Nodes, SaveUpdate(n) PROVE PlacesTyped /\ BookTyped
  <2>1. rpc[n].o \in Orders
    BY <1>6, CallOrder DEF SaveUpdate
  <2>2. order[rpc[n].o] \in MakerOrder
    BY <2>1 DEF MatchInv, VolumeInv, FitOrder
  <2>. QED  BY <1>1, <1>6, <2>1, <2>2, BookChanges DEF SaveUpdate, PlacesTyped
<1>7. ASSUME \/ \E o \in Makers, cancel_previous \in BOOLEAN : SetPrice(o, cancel_previous)
             \/ \E o \in Orders : UpdateMakerOrder(o)
      PROVE  PlacesTyped /\ BookTyped
  BY <1>1, <1>7, BookChanges DEF SetPrice, UpdateMakerOrder, PlacesTyped
<1>. QED  BY <1>2, <1>3, <1>4, <1>5, <1>6, <1>7 DEF RpcStep

\* A step of a taker order, or of both sides.
LEMMA TypedOthers ==
  ASSUME MatchInv, RestTypeOK, UNCHANGED makerVars \/ BothStep
  PROVE  PlacesTyped /\ BookTyped
<1>. USE DEF fileVars, bookVars, mapVars
<1>1. files \subseteq Orders /\ held \subseteq [o : Orders, m : Message] /\ Takers \subseteq Orders
      /\ listed \subseteq Orders /\ book \in [Orders -> Int] /\ 0 \in Int
  BY SMT DEF RestTypeOK, Orders
<1>2. CASE UNCHANGED makerVars
  BY <1>1, <1>2, BookChanges DEF makerVars, PlacesTyped
<1>3. ASSUME NEW t \in Takers, ConversionStep(t) PROVE PlacesTyped /\ BookTyped
  <2>1. t \in Orders /\ FromTaker(t) \in MakerOrder
    BY <1>1, FromTakerFits DEF FitOrder
  <2>. QED  BY <1>1, <1>3, <2>1, BookChanges
            DEF ConversionStep, AddConvertedOrder, SaveConvertedOrder, AnnounceConvertedOrder, PlacesTyped
<1>4. ASSUME NEW n \in Nodes, CancelOrdersBy(n) PROVE PlacesTyped /\ BookTyped
  BY <1>1, <1>4, BookChanges DEF CancelOrdersBy, PlacesTyped
<1>5. ASSUME NEW n \in Nodes, CancelByStep(n) PROVE PlacesTyped /\ BookTyped
  <2>1. CASE \E o \in Orders : TestCancellable(n, o)
    BY <1>1, <2>1, BookChanges DEF TestCancellable, PlacesTyped
  <2>2. CASE RemoveCancelled(n)
    BY <1>1, <2>2, HeldTyped, BookChanges DEF RemoveCancelled, PlacesTyped
  <2>3. CASE DeleteCancelled(n)
    <3>1. rpc[n].chosen \subseteq Orders
      BY SMT, <2>3 DEF DeleteCancelled, MatchInv, VolumeInv, FitTask, Idle
    <3>. QED  BY <1>1, <2>3, <3>1, BookChanges DEF DeleteCancelled, DeleteFile, PlacesTyped
  <2>. QED  BY <1>5, <2>1, <2>2, <2>3 DEF CancelByStep
<1>6. ASSUME NEW n \in Nodes, Restart(n) PROVE PlacesTyped /\ BookTyped
  BY <1>1, <1>6 DEF Restart, MakerRestart, PlacesTyped, BookTyped
<1>. QED  BY <1>2, <1>3, <1>4, <1>5, <1>6 DEF BothStep

\* The calls, restarts and orders that are counted.
LEMMA TypedEnv ==
  ASSUME RestTypeOK, MatchInv, Next
  PROVE  /\ agenda' \subseteq Orders \cup {"update"} /\ calls' \in Nat /\ crashed' \subseteq Nodes
<1>. DEFINE Steps == /\ agenda' \subseteq agenda
                     /\ calls' = calls \/ calls' = calls + 1
                     /\ crashed' = crashed \/ \E n \in Nodes : crashed' = crashed \cup {n}
<1>1. MakerStep => Steps
  <2>1. ASSUME NEW o \in Orders, LoopStep(o) PROVE Steps
    BY <2>1 DEF LoopStep, HandleTimedOutMakerMatches, CheckBalanceForMakerOrders, CheckMissingOrder,
                LoopTaskStep, AnnounceMissingOrder, CancelMissingOrder, DeleteMissingOrder, envVars
  <2>2. ASSUME NEW o \in Orders, HandlerStep(o) PROVE Steps
    BY <2>2 DEF HandlerStep, Save, Delete, ProcessTakerRequest, ProcessTakerConnect
  <2>3. ASSUME NEW n \in Nodes, RpcStep(n) PROVE Steps
    BY <2>3 DEF RpcStep, CancelPreviousMakerOrder, SaveNewMakerOrder, AddNewMakerOrder, ApplyUpdate,
                SaveUpdate, envVars
  <2>4. ASSUME \/ \E o \in Makers, cancel_previous \in BOOLEAN : SetPrice(o, cancel_previous)
               \/ \E o \in Orders : UpdateMakerOrder(o) \/ CancelMakerOrder(o)
               \/ \E o \in Orders, volume \in Balances : BalanceUpdated(o, volume)
        PROVE Steps
    BY <2>4 DEF SetPrice, UpdateMakerOrder, CancelMakerOrder, BalanceUpdated, Issue, Call
  <2>. QED  BY <2>1, <2>2, <2>3, <2>4 DEF MakerStep
<1>2. ASSUME NEW t \in Takers, TakerStep(t) PROVE Steps
  BY <1>2 DEF TakerStep, TakerTaskStep, LpAutoBuy, SaveNewTakerOrder, SaveTakerMatch, DeleteMyTakerOrder,
         MakerReservedArrives, ProcessMakerReserved, ProcessMakerConnected, HandleTimedOutTakerOrder,
         CancelTakerOrder, Issue, Call, envVars
<1>3. BothStep => Steps
  BY DEF BothStep, ConversionStep, AddConvertedOrder, SaveConvertedOrder, AnnounceConvertedOrder,
         CancelOrdersBy, CancelByStep, TestCancellable, RemoveCancelled, DeleteCancelled, Restart, Call, envVars
<1>4. Steps
  BY <1>1, <1>2, <1>3 DEF Next
<1>. QED  BY SMT, <1>4 DEF RestTypeOK

\* cancel_orders_by takes orders of its node, and goes on with no others.
LEMMA CancelsNext ==
  ASSUME MatchInv, RemovalInv, Next
  PROVE  OwnCancels' /\ \A n \in Nodes : rpc'[n].op = "cancelled_by" => rpc'[n].takers \subseteq Takers
<1>. DEFINE Good(n) == /\ rpc'[n].op = "cancel_by" => rpc'[n].left \cup rpc'[n].chosen \subseteq Own(n)
                       /\ rpc'[n].op = "cancelled_by" => rpc'[n].chosen \subseteq Own(n)
                       /\ rpc'[n].op = "cancelled_by" => rpc'[n].takers \subseteq Takers
<1>1. /\ rpc \in [Nodes -> FitTask] /\ takers \subseteq Takers
      /\ \A n \in Nodes : /\ rpc[n].op = "cancel_by" => rpc[n].left \cup rpc[n].chosen \subseteq Own(n)
                          /\ rpc[n].op = "cancelled_by" => rpc[n].chosen \subseteq Own(n)
                          /\ rpc[n].op = "cancelled_by" => rpc[n].takers \subseteq Takers
  BY DEF MatchInv, VolumeInv, SoldInv, SoldTypeOK, RemovalInv, RestTypeOK, OwnCancels
<1>2. Idle.op = "idle"
  BY DEF Idle
<1>3. ASSUME \A n \in Nodes : rpc'[n] = rpc[n] \/ rpc'[n].op \notin {"cancel_by", "cancelled_by"}
      PROVE  \A n \in Nodes : Good(n)
  BY <1>1, <1>3
<1>4. MakerStep => owner' = owner /\ \A n \in Nodes : Good(n)
  BY <1>3, MakerFrame DEF MatchInv
<1>5. ASSUME NEW t \in Takers, TakerStep(t), UNCHANGED makerVars
      PROVE  owner' = owner /\ \A n \in Nodes : Good(n)
  <2>1. owner' = owner
    BY <1>5 DEF TakerStep, TakerTaskStep, LpAutoBuy, SaveNewTakerOrder, SaveTakerMatch, DeleteMyTakerOrder,
         MakerReservedArrives, ProcessMakerReserved, ProcessMakerConnected, HandleTimedOutTakerOrder,
         CancelTakerOrder, envVars
  <2>. QED  BY <1>3, <1>5, <2>1 DEF makerVars
<1>6. ASSUME NEW t \in Takers, ConversionStep(t) PROVE owner' = owner /\ \A n \in Nodes : Good(n)
  BY <1>3, <1>6 DEF ConversionStep, AddConvertedOrder, SaveConvertedOrder, AnnounceConvertedOrder
<1>7. ASSUME NEW n \in Nodes, Restart(n) PROVE owner' = owner /\ \A m \in Nodes : Good(m)
  BY <1>1, <1>2, <1>3, <1>7 DEF Restart, MakerRestart
<1>8. ASSUME NEW n \in Nodes, CancelOrdersBy(n) PROVE owner' = owner /\ \A m \in Nodes : Good(m)
  <2>1. owner' = owner /\ rpc' = [rpc EXCEPT ![n] = [op |-> "cancel_by", left |-> orders \cap Own(n), chosen |-> {}]]
    BY <1>8 DEF CancelOrdersBy
  <2>2. rpc'[n].op = "cancel_by" /\ rpc'[n].left = orders \cap Own(n) /\ rpc'[n].chosen = {}
    BY <1>1, <2>1
  <2>3. Good(n)
    BY <2>2
  <2>. QED  BY <1>1, <2>1, <2>3
<1>9. ASSUME NEW n \in Nodes, CancelByStep(n) PROVE owner' = owner /\ \A m \in Nodes : Good(m)
  <2>1. owner' = owner
    BY <1>9 DEF CancelByStep, TestCancellable, RemoveCancelled, DeleteCancelled, envVars
  <2>2. ASSUME NEW o \in Orders, TestCancellable(n, o) PROVE \A m \in Nodes : Good(m)
    <3>1. /\ rpc[n].op = "cancel_by" /\ o \in rpc[n].left
          /\ rpc' = [rpc EXCEPT ![n] = [rpc[n] EXCEPT !.left = @ \ {o},
                       !.chosen = IF IsCancellable(order[o]) THEN @ \cup {o} ELSE @]]
      BY Zenon, <1>1, <2>2 DEF TestCancellable
    <3>2. /\ rpc'[n].op = "cancel_by" /\ rpc'[n].left = rpc[n].left \ {o}
          /\ rpc'[n].chosen \subseteq rpc[n].chosen \cup {o}
      BY SMT, <1>1, <3>1 DEF FitTask, Idle
    <3>3. Good(n)
      BY <1>1, <3>1, <3>2
    <3>. QED  BY <1>1, <3>1, <3>3
  <2>3. CASE RemoveCancelled(n)
    <3>1. /\ rpc[n].op = "cancel_by"
          /\ rpc' = [rpc EXCEPT ![n] = [op |-> "cancelled_by", chosen |-> rpc[n].chosen,
                       takers |-> {t \in takers \cap Own(n) : chosen[t] = {}}]]
      BY <2>3 DEF RemoveCancelled
    <3>2. /\ rpc'[n].op = "cancelled_by" /\ rpc'[n].chosen = rpc[n].chosen
          /\ rpc'[n].takers \subseteq takers /\ \A m \in Nodes : m # n => rpc'[m] = rpc[m]
      BY <1>1, <3>1
    <3>3. Good(n)
      BY <1>1, <3>1, <3>2
    <3>. QED  BY <1>1, <2>1, <3>2, <3>3
  <2>4. CASE DeleteCancelled(n)
    <3>1. rpc[n].op = "cancelled_by"
      BY <2>4 DEF DeleteCancelled
    <3>2. ASSUME NEW o, rpc' = [rpc EXCEPT ![n].chosen = @ \ {o}] PROVE \A m \in Nodes : Good(m)
      <4>1. /\ rpc'[n].op = "cancelled_by" /\ rpc'[n].chosen \subseteq rpc[n].chosen
            /\ rpc'[n].takers = rpc[n].takers /\ \A m \in Nodes : m # n => rpc'[m] = rpc[m]
        BY SMT, <1>1, <3>1, <3>2 DEF FitTask, Idle
      <4>2. Good(n)
        BY <1>1, <3>1, <4>1
      <4>. QED  BY <1>1, <4>1, <4>2
    <3>3. ASSUME NEW t, rpc' = [rpc EXCEPT ![n].takers = @ \ {t}] PROVE \A m \in Nodes : Good(m)
      <4>1. /\ rpc'[n].op = "cancelled_by" /\ rpc'[n].chosen = rpc[n].chosen
            /\ rpc'[n].takers \subseteq rpc[n].takers /\ \A m \in Nodes : m # n => rpc'[m] = rpc[m]
        BY SMT, <1>1, <3>1, <3>3 DEF FitTask, Idle
      <4>2. Good(n)
        BY <1>1, <3>1, <4>1
      <4>. QED  BY <1>1, <4>1, <4>2
    <3>4. ASSUME rpc' = [rpc EXCEPT ![n] = Idle] PROVE \A m \in Nodes : Good(m)
      BY <1>1, <1>2, <1>3, <3>4
    <3>. QED  BY <2>1, <2>4, <3>2, <3>3, <3>4 DEF DeleteCancelled
  <2>. QED  BY <1>9, <2>1, <2>2, <2>3, <2>4 DEF CancelByStep
<1>10. owner' = owner /\ \A n \in Nodes : Good(n)
  BY <1>4, <1>5, <1>6, <1>7, <1>8, <1>9 DEF Next, BothStep
<1>11. \A n : Own(n)' = Own(n)
  BY <1>10 DEF Own
<1>. QED  BY <1>10, <1>11 DEF OwnCancels

\* Only process_taker_request sends a reserved message, in answer to a request.
LEMMA AskedNext ==
  ASSUME MatchInv, RemovalInv, Next
  PROVE  Asked'
<1>1. msgs \subseteq msgs' /\ \A m \in msgs' : m \in msgs \/ m.type # "reserved" \/ RequestMsg(m.t) \in msgs
  <2>. DEFINE Sent == msgs \subseteq msgs' /\ \A m \in msgs' : m \in msgs \/ m.type # "reserved" \/ RequestMsg(m.t) \in msgs
  <2>1. ASSUME NEW o \in Orders, NEW t \in Takers, ProcessTakerRequest(o, t) PROVE Sent
    <3>1. PICK b, r : msgs' = msgs \cup {ReservedMsg(o, t, b, r)} /\ RequestMsg(t) \in msgs
      BY <2>1 DEF ProcessTakerRequest, Broadcast, Reaches
    <3>2. ReservedMsg(o, t, b, r).t = t
      BY DEF ReservedMsg
    <3>. QED  BY <3>1, <3>2
  <2>2. ASSUME NEW o, NEW t, msgs' = msgs \cup {ConnectedMsg(o, t)} PROVE Sent
    BY SMT, <2>2 DEF ConnectedMsg
  <2>3. ASSUME NEW o, NEW t, msgs' = msgs \cup {ConnectMsg(o, t)} PROVE Sent
    BY SMT, <2>3 DEF ConnectMsg
  <2>4. ASSUME NEW t, msgs' = msgs \cup {RequestMsg(t)} PROVE Sent
    BY SMT, <2>4 DEF RequestMsg
  <2>5. msgs' = msgs => Sent
    OBVIOUS
  <2>6. ASSUME NEW o \in Orders, LoopStep(o) PROVE msgs' = msgs
    BY <2>6 DEF LoopStep, HandleTimedOutMakerMatches, CheckBalanceForMakerOrders, CheckMissingOrder,
                LoopTaskStep, AnnounceMissingOrder, CancelMissingOrder, DeleteMissingOrder, envVars
  <2>7. ASSUME NEW o \in Orders, HandlerStep(o) PROVE Sent
    BY <2>1, <2>2, <2>5, <2>7 DEF HandlerStep, Save, Delete, ProcessTakerConnect, Broadcast
  <2>8. ASSUME NEW n \in Nodes, RpcStep(n) PROVE msgs' = msgs
    BY <2>8 DEF RpcStep, CancelPreviousMakerOrder, SaveNewMakerOrder, AddNewMakerOrder, ApplyUpdate,
                SaveUpdate, envVars
  <2>9. ASSUME \/ \E o \in Makers, cancel_previous \in BOOLEAN : SetPrice(o, cancel_previous)
               \/ \E o \in Orders : UpdateMakerOrder(o) \/ CancelMakerOrder(o)
               \/ \E o \in Orders, volume \in Balances : BalanceUpdated(o, volume)
        PROVE  msgs' = msgs
    BY <2>9 DEF SetPrice, UpdateMakerOrder, CancelMakerOrder, BalanceUpdated
  <2>10. MakerStep => Sent
    BY <2>5, <2>6, <2>7, <2>8, <2>9 DEF MakerStep
  <2>11. ASSUME NEW t \in Takers, TakerStep(t) PROVE Sent
    <3>1. CASE LpAutoBuy(t)
      BY <2>4, <3>1 DEF LpAutoBuy, Broadcast
    <3>2. CASE ProcessMakerReserved(t)
      <4>1. msgs' = msgs \/ \E m : msgs' = msgs \cup {ConnectMsg(m.o, t)}
        BY <3>2 DEF ProcessMakerReserved, Broadcast
      <4>. QED  BY <2>3, <2>5, <4>1
    <3>3. CASE ~LpAutoBuy(t) /\ ~ProcessMakerReserved(t)
      BY <2>5, <2>11, <3>3
      DEF TakerStep, TakerTaskStep, SaveNewTakerOrder, SaveTakerMatch, DeleteMyTakerOrder,
          MakerReservedArrives, ProcessMakerConnected, HandleTimedOutTakerOrder, CancelTakerOrder, envVars
    <3>. QED  BY <3>1, <3>2, <3>3
  <2>12. BothStep => msgs' = msgs
    BY DEF BothStep, ConversionStep, AddConvertedOrder, SaveConvertedOrder, AnnounceConvertedOrder,
         CancelOrdersBy, CancelByStep, TestCancellable, RemoveCancelled, DeleteCancelled, Restart, envVars
  <2>. QED  BY <2>5, <2>10, <2>11, <2>12 DEF Next
<1>. QED  BY <1>1 DEF Asked, RemovalInv

\* RemovalInv in terms of single orders.
LEMMA RemovalParts ==
  RemovalInv <=> RestTypeOK /\ OwnCancels /\ Asked /\ \A x \in Makers : Fits(x)
BY DEF RemovalInv, Fits

\* Every step keeps RemovalInv.
LEMMA RemovalNext ==
  ASSUME MatchInv, RemovalInv, [Next]_vars
  PROVE  RemovalInv'
<1>1. CASE UNCHANGED vars
  <2>1. RestTypeOK' /\ OwnCancels' /\ Asked'
    BY <1>1 DEF RemovalInv, RestTypeOK, OwnCancels, Own, Asked, vars, envVars, makerVars, mapVars, fileVars,
                bookVars
  <2>2. ASSUME NEW x \in Makers PROVE Fits(x)'
    <3>1. UNCHANGED <<orders, order, lock, files, listed, held, loop, rpc, owner>> /\ EnvStays
      BY <1>1 DEF vars, envVars, makerVars, mapVars, fileVars, bookVars, EnvStays
    <3>. QED  BY <3>1, SameCall, FitsCall
  <2>3. (RestTypeOK /\ OwnCancels /\ Asked /\ \A x \in Makers : Fits(x))'
    BY <2>1, <2>2
  <2>. QED  BY <2>3 DEF RemovalInv, Fits
<1>2. CASE Next
  <2>1. ASSUME NEW x \in Makers PROVE Fits(x)'
    BY <1>2, FitsMaker, FitsTaker, FitsConversion, FitsBegin, FitsCancelBy, FitsRestart DEF Next, BothStep
  <2>2. PlacesTyped /\ BookTyped
    <3>1. RestTypeOK
      BY DEF RemovalInv
    <3>. QED  BY <1>2, <3>1, TypedOrderStep, TypedCall, TypedOthers DEF Next, MakerStep
  <2>3. RestTypeOK'
    <3>1. RestTypeOK
      BY DEF RemovalInv
    <3>. QED  BY <1>2, <2>2, <3>1, TypedEnv, CancelsNext DEF RestTypeOK, PlacesTyped, BookTyped
  <2>4. (RestTypeOK /\ OwnCancels /\ Asked /\ \A x \in Makers : Fits(x))'
    BY <1>2, <2>1, <2>3, CancelsNext, AskedNext
  <2>. QED  BY <2>4 DEF RemovalInv, Fits
<1>. QED  BY <1>1, <1>2

\* Nothing is removed at the start.
LEMMA RemovalInit == Init => RemovalInv
<1>. SUFFICES ASSUME Init PROVE RemovalInv
  OBVIOUS
<1>1. /\ owner \in [Orders -> Nodes] /\ agenda \subseteq Orders \cup {"update"} /\ calls = 0 /\ crashed = {}
      /\ msgs = {} /\ files = {} /\ listed = {} /\ held = {} /\ orders = {}
      /\ book = [o \in Orders |-> 0] /\ lock = [o \in Orders |-> "free"]
      /\ rpc = [n \in Nodes |-> Idle] /\ loop = [n \in Nodes |-> Idle]
  BY OrdersAssumption DEF Init, EnvInit, MakerInit
<1>2. Idle.op = "idle"
  BY DEF Idle
<1>3. RestTypeOK
  BY SMT, <1>1, <1>2 DEF RestTypeOK
<1>4. OwnCancels /\ Asked
  BY <1>1, <1>2 DEF OwnCancels, Asked
<1>5. ASSUME NEW o \in Makers PROVE ListFits(o) /\ FileFits(o)
  <2>1. o \in Orders /\ owner[o] \in Nodes
    BY <1>1 DEF Orders
  <2>2. ~CancelledBy(o) /\ ~InLoop(o) /\ ~Writing(o) /\ lock[o] = "free"
    BY <1>1, <1>2, <2>1 DEF CancelledBy, InLoop, Writing
  <2>. QED  BY <1>1, <2>2 DEF ListFits, FileFits, RemovedFits
<1>. QED  BY <1>3, <1>4, <1>5 DEF RemovalInv

\* All parts of the inductive invariant hold of every run.
THEOREM OrderInvariance == Spec => []OrderMatchingInv
<1>1. MatchInv /\ RemovalInv /\ [Next]_vars => RemovalInv'
  BY RemovalNext
<1>2. OrderMatchingInv <=> MatchInv /\ RemovalInv
  BY DEF OrderMatchingInv
<1>. QED  BY RemovalInit, MatchInvariance, <1>1, <1>2, PTL DEF Spec

\* Every variable of order matching keeps its type.
THEOREM MatchingTypes == Spec => []TypeOK
<1>1. OrderMatchingInv => TypeOK
  <2>. SUFFICES ASSUME MatchInv, RemovalInv PROVE TypeOK
    BY DEF OrderMatchingInv
  <2>1. /\ order \in [Orders -> FitOrder] /\ saved \in [Orders -> FitOrder] /\ FitOrder \subseteq MakerOrder
        /\ rpc \in [Nodes -> FitTask]
    BY DEF MatchInv, VolumeInv, FitOrder
  <2>2. ASSUME NEW n \in Nodes PROVE rpc[n] \in RpcTask
    <3>1. rpc[n] \in FitTask /\ (rpc[n].op = "cancelled_by" => rpc[n].takers \subseteq Takers)
      BY <2>1 DEF RemovalInv, RestTypeOK
    <3>. QED  BY SMT, <2>1, <3>1 DEF FitTask, RpcTask, Idle
  <2>3. rpc \in [Nodes -> RpcTask] /\ order \in [Orders -> MakerOrder] /\ saved \in [Orders -> MakerOrder]
    BY <2>1, <2>2
  <2>4. EnvTypeOK
    BY DEF MatchInv, RemovalInv, EnvTypeOK, VolumeInv, RestTypeOK, DealInv, MakerMsgs, ChoiceInv
  <2>5. MakerTypeOK
    BY <2>3 DEF MatchInv, RemovalInv, MakerTypeOK, SoldInv, SoldTypeOK, RestTypeOK
  <2>6. TakerTypeOK
    BY DEF MatchInv, TakerTypeOK, SoldInv, SoldTypeOK, DealInv, TakerMsgs, ChoiceInv
  <2>. QED  BY <2>4, <2>5, <2>6 DEF TypeOK
<1>. QED  BY <1>1, OrderInvariance, PTL

\* An order that the own orderbook lists is in the map or is being cancelled by cancel_orders_by, in
\* a process that was not restarted: no handler leaves a ghost behind.
THEOREM NoGhostListed == Spec => []ListedIsActive
<1>1. OrderMatchingInv => ListedIsActive
  BY DEF OrderMatchingInv, RemovalInv, ListedIsActive, ListFits, Live, CancelledBy
<1>. QED  BY <1>1, OrderInvariance, PTL

\* Once nobody works on a removed order its file is gone, as long as files are written, unless
\* a handler of a request took the order from the map before it was removed.
THEOREM RemovedGoes == Spec => []RemovedIsDeleted
<1>1. OrderMatchingInv => RemovedIsDeleted
  <2>. SUFFICES ASSUME MatchInv, RemovalInv, faults = 0, NEW o \in files \cap Makers,
                       Settled(o), o \notin orders
                PROVE  \E t \in Takers : [o |-> o, m |-> RequestMsg(t)] \in held
    BY DEF OrderMatchingInv, RemovedIsDeleted
  <2>1. RemovedFits(o)
    BY DEF RemovalInv, FileFits
  <2>2. ~Deleting(o) /\ ~BeingSet(o)
    BY SMT DEF Settled, Deleting, CancelledBy, BeingSet, Idle
  <2>3. HeldRequest(o)
    BY <2>1, <2>2 DEF RemovedFits
  <2>. QED  BY <2>3 DEF HeldRequest, HeldFor
<1>. QED  BY <1>1, OrderInvariance, PTL

=============================================================================
