---------------------------- MODULE OrderbookSync ----------------------------
(***************************************************************************)
(* The orders of one public key and one pair at their owner and at the     *)
(* peers that hear of them.  Orders are announced as they are created,     *)
(* updated and cancelled; a keep-alive with the owner's root makes a peer  *)
(* with another root ask the peer it heard it from for the difference.     *)
(* Relays pass on what they processed without an error.                    *)
(*                                                                         *)
(* A message in an inbox may be handled late, in any order or never.       *)
(***************************************************************************)
EXTENDS OrderbookState

CONSTANTS
  Owner,      \* the node with the key
  Peers,      \* the other nodes
  From,       \* the node each peer hears from
  Relays,     \* peers that pass messages on
  MaxMissed,  \* maker_order_timeout, in keep-alive intervals
  MaxOps,     \* bound on changes of the owner's orders
  Announced,  \* orders created, announced and passed on before the start: one, or none
  FirstItem,  \* bound: the content an order is created with
  MaxLosses   \* bound on lost keep-alives and answers and on expired diffs

Nodes == Peers \cup {Owner}

ASSUME PeersAssumption ==
  /\ Owner \notin Peers
  /\ From \in [Peers -> Relays \cup {Owner}]
  /\ Relays \subseteq Peers
  /\ FirstItem \in Items
  /\ Announced \subseteq Uuids /\ \A u, v \in Announced : u = v
  /\ MaxMissed \in Nat /\ MaxOps \in Nat /\ MaxLosses \in Nat

VARIABLES
  state,      \* OrderbookPubkeyState at each node
  inbox,      \* created, updated and cancelled messages on their way to a peer
  keep,       \* keep-alive on its way to a peer: the root it tells, or none
  sync,       \* process_orders_keep_alive of each peer
  fill,       \* subscribe_to_orderbook_topic of each peer
  missed,     \* keep-alives sent since a peer last handled one
  ops,        \* changes the owner made
  losses,     \* keep-alives, answers and diffs lost
  stopped     \* the owner is gone

vars == <<state, inbox, keep, sync, fill, missed, ops, losses, stopped>>

Message == [type : {"created", "updated"}, uuid : Uuids, item : Items]
  \cup [type : {"cancelled"}, uuid : Uuids]
Answer == [type : {"delta"}, delta : [Uuids -> Items \cup {None, Same}]]
  \cup [type : {"full"}, orders : Orders]
Idle == [op |-> "idle"]
Sync == {Idle} \cup [op : {"asked"}, root : Root]
  \cup [op : {"answered"}, root : Root, answer : Answer]
Fill == {[op |-> o] : o \in {"unsubscribed", "asked", "filled"}}
  \cup [op : {"answered"}, orders : Orders]

TypeOK ==
  /\ state \in [Nodes -> State]
  /\ inbox \in [Peers -> SUBSET Message]
  /\ keep \in [Peers -> Root \cup {Idle}]
  /\ sync \in [Peers -> Sync]
  /\ fill \in [Peers -> Fill]
  /\ missed \in [Peers -> 0 .. MaxMissed]
  /\ ops \in 0 .. MaxOps
  /\ losses \in 0 .. MaxLosses
  /\ stopped \in BOOLEAN

AnnouncedState ==
  [NoState EXCEPT !.rooted = Announced # {},
                  !.orders = [u \in Uuids |-> IF u \in Announced THEN FirstItem ELSE None]]

Init ==
  /\ state = [n \in Nodes |-> IF n \in Relays \cup {Owner} THEN AnnouncedState ELSE NoState]
  /\ inbox = [p \in Peers |-> {}]
  /\ keep = [p \in Peers |-> Idle]
  /\ sync = [p \in Peers |-> Idle]
  /\ fill = [p \in Peers |-> [op |-> IF p \in Relays THEN "filled" ELSE "unsubscribed"]]
  /\ missed = [p \in Peers |-> 0]
  /\ ops = 0
  /\ losses = 0
  /\ stopped = FALSE

-----------------------------------------------------------------------------
Listens(p) == fill[p].op # "unsubscribed"
Hearers(n) == {p \in Peers : From[p] = n /\ Listens(p)}

\* propagate_message, and broadcast_p2p_msg at the owner
PassOn(n, m) ==
  IF n \in Relays \cup {Owner}
    THEN [p \in Peers |-> IF p \in Hearers(n) THEN inbox[p] \cup {m} ELSE inbox[p]]
    ELSE inbox

Lose == losses < MaxLosses /\ losses' = losses + 1

\* TimeCache drops expired diffs when the history is next touched.  Nobody asks
\* a node that is no relay, so its history is left out.
Becomes(n, s) == state' = [state EXCEPT ![n] = IF n \in Relays \cup {Owner} THEN s
                                                 ELSE [s EXCEPT !.diffs = {}, !.tracked = FALSE]]
Aging(s) == {[s EXCEPT !.diffs = kept] : kept \in SUBSET s.diffs}
Lost(some) == IF some THEN Lose ELSE UNCHANGED losses

OwnerChanges(u, item, m) ==
  /\ ~stopped /\ ops < MaxOps
  /\ ops' = ops + 1
  /\ \E s \in Aging(state[Owner]) : Becomes(Owner, Change(s, u, item)) /\ Lost(s # state[Owner])
  /\ inbox' = PassOn(Owner, m)
  /\ UNCHANGED <<keep, sync, fill, missed, stopped>>

\* maker_order_created_p2p_notify
OrderCreated(u, item) ==
  /\ state[Owner].orders[u] = None
  /\ OwnerChanges(u, item, [type |-> "created", uuid |-> u, item |-> item])

\* maker_order_updated_p2p_notify
OrderUpdated(u, item) ==
  /\ state[Owner].orders[u] \notin {None, item}
  /\ OwnerChanges(u, item, [type |-> "updated", uuid |-> u, item |-> item])

\* maker_order_cancelled_p2p_notify
OrderCancelled(u) ==
  /\ state[Owner].orders[u] # None
  /\ OwnerChanges(u, None, [type |-> "cancelled", uuid |-> u])

\* The process of the owner ends; its counters are not read any more.
Stop ==
  /\ ~stopped
  /\ stopped' = TRUE
  /\ state' = [state EXCEPT ![Owner] = NoState]
  /\ ops' = 0
  /\ missed' = [p \in Peers |-> 0]
  /\ UNCHANGED <<inbox, keep, sync, fill, losses>>

-----------------------------------------------------------------------------
\* process_msg: an update of an unknown order is an error, and not passed on.
ProcessMsg(p, m) ==
  LET unknown == m.type = "updated" /\ state[p].orders[m.uuid] = None
      item == IF m.type = "cancelled" THEN None ELSE m.item
  IN /\ m \in inbox[p]
     /\ \/ /\ unknown
           /\ inbox' = [inbox EXCEPT ![p] = @ \ {m}]
           /\ UNCHANGED <<state, losses>>
        \/ /\ ~unknown
           /\ \E s \in Aging(state[p]) : Becomes(p, Change(s, m.uuid, item)) /\ Lost(s # state[p])
           /\ inbox' = [PassOn(p, m) EXCEPT ![p] = @ \ {m}]
     /\ UNCHANGED <<keep, sync, fill, missed, ops, stopped>>

\* broadcast_keep_alive_for_pub, every 30 s: the one before has been handled
\* or lost.
KeepAlive ==
  /\ state[Owner].rooted
  /\ \A p \in Peers : keep[p] = Idle /\ sync[p] = Idle
  /\ keep' = [p \in Peers |-> IF p \in Hearers(Owner) THEN RootOf(state[Owner]) ELSE Idle]
  /\ missed' = [p \in Peers |-> IF Listens(p) /\ missed[p] < MaxMissed
                                  THEN missed[p] + 1 ELSE missed[p]]
  /\ UNCHANGED <<state, inbox, sync, fill, ops, losses, stopped>>

LoseKeepAlive(p) ==
  /\ keep[p] # Idle
  /\ Lose
  /\ keep' = [keep EXCEPT ![p] = Idle]
  /\ UNCHANGED <<state, inbox, sync, fill, missed, ops, stopped>>

Forwarded(p, root) ==
  [q \in Peers |-> IF q = p THEN Idle
                   ELSE IF p \in Relays /\ q \in Hearers(p) THEN root ELSE keep[q]]

\* Mutant: a pair that is known is not compared.
NeedsSyncOnce(p, root) == root \notin {ZeroRoot, NullRoot} /\ ~state[p].rooted

\* process_keep_alive: a root of no orders is passed over.
NeedsSync(p, root) == root \notin {ZeroRoot, NullRoot} /\ root # RootOf(state[p])

\* process_orders_keep_alive, up to the request
ProcessKeepAlive(p) ==
  /\ keep[p] # Idle
  /\ missed' = [missed EXCEPT ![p] = 0]
  /\ \/ /\ ~NeedsSync(p, keep[p])
        /\ keep' = Forwarded(p, keep[p])
        /\ UNCHANGED sync
     \/ /\ NeedsSync(p, keep[p])
        /\ sync' = [sync EXCEPT ![p] = [op |-> "asked", root |-> keep[p]]]
        /\ keep' = [keep EXCEPT ![p] = Idle]
  /\ UNCHANGED <<state, inbox, fill, ops, losses, stopped>>

\* process_sync_pubkey_orderbook_state, at the node the keep-alive came from:
\* without a trie there is no answer, and the keep-alive goes no further.
ProcessSync(p) ==
  LET s == state[From[p]]
  IN /\ sync[p].op = "asked"
     /\ \/ /\ s.rooted
           /\ sync' = [sync EXCEPT ![p] = [op |-> "answered", root |-> @.root,
                                           answer |-> FromHistory(s, @.root)]]
           /\ UNCHANGED losses
        \/ /\ ~s.rooted
           /\ sync' = [sync EXCEPT ![p] = Idle]
           /\ UNCHANGED losses
        \/ /\ Lose
           /\ sync' = [sync EXCEPT ![p] = Idle]
     /\ UNCHANGED <<state, inbox, keep, fill, missed, ops, stopped>>

\* process_orders_keep_alive, from the answer on
ApplySync(p) ==
  LET answer == sync[p].answer
  IN /\ sync[p].op = "answered"
     /\ \E order \in InAnyOrder, s \in Aging(state[p]) :
          /\ Becomes(p, IF answer.type = "delta"
                          THEN ProcessTrieDelta(s, answer.delta, order)
                          ELSE ProcessPubkeyFullTrie(answer.orders, order))
          /\ Lost(s # state[p])
     /\ keep' = Forwarded(p, sync[p].root)
     /\ sync' = [sync EXCEPT ![p] = Idle]
     /\ UNCHANGED <<inbox, fill, missed, ops, stopped>>

-----------------------------------------------------------------------------
\* subscribe_to_orderbook_topic
Subscribe(p) ==
  /\ fill[p].op = "unsubscribed"
  /\ fill' = [fill EXCEPT ![p] = [op |-> "asked"]]
  /\ UNCHANGED <<state, inbox, keep, sync, missed, ops, losses, stopped>>

\* process_get_orderbook_request, at a relay
AnswerFill(p) ==
  /\ fill[p].op = "asked"
  /\ fill' = [fill EXCEPT ![p] = [op |-> "answered", orders |-> state[From[p]].orders]]
  /\ UNCHANGED <<state, inbox, keep, sync, missed, ops, losses, stopped>>

\* request_and_fill_orderbook: a key without orders is not in the answer.
ApplyFill(p) ==
  /\ fill[p].op = "answered"
  /\ \E order \in InAnyOrder :
       Becomes(p, IF fill[p].orders = NoOrders THEN state[p]
                    ELSE ProcessPubkeyFullTrie(fill[p].orders, order))
  /\ fill' = [fill EXCEPT ![p] = [op |-> "filled"]]
  /\ UNCHANGED <<inbox, keep, sync, missed, ops, losses, stopped>>

\* Mutant: only the history is removed.
PubkeyTimesOutInPart(p) ==
  /\ missed[p] = MaxMissed \/ stopped
  /\ state[p].diffs # {}
  /\ state' = [state EXCEPT ![p].diffs = {}]
  /\ UNCHANGED <<inbox, keep, sync, fill, missed, ops, losses, stopped>>

\* lp_ordermatch_loop: the state of a key whose keep-alives do not come is
\* removed.
PubkeyTimesOut(p) ==
  /\ missed[p] = MaxMissed \/ stopped
  /\ state[p] # NoState
  /\ state' = [state EXCEPT ![p] = NoState]
  /\ UNCHANGED <<inbox, keep, sync, fill, missed, ops, losses, stopped>>

-----------------------------------------------------------------------------
OwnerStep ==
  \/ \E u \in Uuids : OrderCreated(u, FirstItem) \/ OrderCancelled(u)
  \/ \E u \in Uuids, item \in Items : OrderUpdated(u, item)
  \/ Stop
  \/ KeepAlive

PeerStep(p) ==
  \/ \E m \in inbox[p] : ProcessMsg(p, m)
  \/ LoseKeepAlive(p) \/ ProcessKeepAlive(p) \/ ProcessSync(p) \/ ApplySync(p)
  \/ Subscribe(p) \/ AnswerFill(p) \/ ApplyFill(p)
  \/ PubkeyTimesOut(p)

Next == OwnerStep \/ \E p \in Peers : PeerStep(p)

Spec == Init /\ [][Next]_vars

\* The owner's keep-alive loop, the peers' handlers and their ordermatch loop
\* go on; announcements need not arrive.
Fairness ==
  /\ WF_vars(KeepAlive)
  /\ \A p \in Peers :
       /\ WF_vars(ProcessKeepAlive(p))
       /\ WF_vars(ProcessSync(p))
       /\ WF_vars(ApplySync(p))
       /\ WF_vars(PubkeyTimesOut(p))

FairSpec == Spec /\ Fairness

-----------------------------------------------------------------------------
\* Every diff of a history leads from its root to the next one, and no diffs form
\* a circle, so that the loop of from_history ends: insert_new_diff drops the way
\* back to a root instead of closing it.
HistorySound == \A n \in Nodes : SoundHistory(state[n].diffs)

\* A delta, applied to the orders it starts from, gives the orders of the node
\* that made it, whatever was forgotten and whatever came back meanwhile.
DeltaLeadsHome ==
  \A n \in Nodes : \A d \in state[n].diffs :
    LET a == FromHistory(state[n], d.from)
    IN a.type = "delta" => Patched(d.from.orders, a.delta) = state[n].orders

\* The peers end up with the owner's orders, whichever announcements were lost,
\* late or out of order, unless the owner has none left (the root of no orders
\* is passed over).
Converges ==
  <>[](state[Owner].orders # NoOrders =>
         \A p \in Peers : Listens(p) => state[p].orders = state[Owner].orders)

\* The orders of an owner that is gone disappear from every orderbook.
GhostsExpire == <>[](stopped => \A p \in Peers : state[p].orders = NoOrders)
=============================================================================
