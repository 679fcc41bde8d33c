--------------------------- MODULE OrderbookState ---------------------------
(***************************************************************************)
(* What a node knows of one public key's orders of one pair: the orders,   *)
(* the root of their trie and the history of diffs between roots.  A hash  *)
(* stands for what it is the hash of, so a root is the orders themselves,  *)
(* but for the pair that has no trie yet (H64::default()), whose root is   *)
(* told from the root of an empty trie (hashed_null_node).                 *)
(***************************************************************************)
EXTENDS Integers, FiniteSets

CONSTANTS
  Uuids,      \* the orders a key may issue
  Items       \* the contents an order may have

\* An order that is not there, an order a delta does not speak of.
None == "none"
Same == "same"

ASSUME ItemsAssumption == IsFiniteSet(Uuids) /\ None \notin Items /\ Same \notin Items

Orders == [Uuids -> Items \cup {None}]
NoOrders == [u \in Uuids |-> None]
Root == [rooted : BOOLEAN, orders : Orders]

\* struct TrieDiff with the root it is stored at: one order changes.
Diff == [from : Root, uuid : Uuids, item : Items \cup {None}, next : Root]

\* struct OrderbookPubkeyState; tracked: the pair has a TrieOrderHistory.
State == [rooted : BOOLEAN, orders : Orders, tracked : BOOLEAN, diffs : SUBSET Diff]
NoState == [rooted |-> FALSE, orders |-> NoOrders, tracked |-> FALSE, diffs |-> {}]

RootOf(s) == [rooted |-> s.rooted, orders |-> s.orders]
ZeroRoot == RootOf(NoState)
NullRoot == [rooted |-> TRUE, orders |-> NoOrders]

HasKey(diffs, root) == \E d \in diffs : d.from = root
DiffAt(diffs, root) == CHOOSE d \in diffs : d.from = root

\* The walk along the diffs that insert_new_diff and from_history both do:
\* where it is after n steps, and the changes on the way, the last one counts.
Walk(diffs, root, steps) ==
  LET w[n \in 0 .. steps] ==
        IF n = 0
          THEN [root |-> root, delta |-> [u \in Uuids |-> Same]]
          ELSE LET d == DiffAt(diffs, w[n - 1].root)
               IN IF HasKey(diffs, w[n - 1].root)
                    THEN [root |-> d.next, delta |-> [w[n - 1].delta EXCEPT ![d.uuid] = d.item]]
                    ELSE w[n - 1]
  IN w[steps]

\* Mutant: a root that was reached before is reached again.
InsertNewDiffAnyway(diffs, d) ==
  IF d.from = d.next THEN diffs ELSE {e \in diffs : e.from # d.from} \cup {d}

\* insert_new_diff: on the return to an earlier root the way since then is
\* forgotten instead.
InsertNewDiff(diffs, d) ==
  IF d.from = d.next THEN diffs
  ELSE IF HasKey(diffs, d.next)
    THEN LET way == {Walk(diffs, d.next, n).root : n \in 0 .. Cardinality(diffs)}
         IN {e \in diffs : e.from \notin way}
  ELSE IF HasKey(diffs, d.from) THEN diffs
  ELSE diffs \cup {d}

DiffOf(s, u, item, next) ==
  [from |-> RootOf(s), uuid |-> u, item |-> item, next |-> [rooted |-> TRUE, orders |-> next]]

\* insert_or_update_order_update_trie; the step away from H64::default() is
\* not recorded.
Insert(s, u, item) ==
  LET next == [s.orders EXCEPT ![u] = item]
  IN [rooted |-> TRUE, orders |-> next, tracked |-> s.tracked \/ s.rooted,
      diffs |-> IF s.rooted THEN InsertNewDiff(s.diffs, DiffOf(s, u, item, next)) ELSE s.diffs]

\* remove_order_trie_update
Remove(s, u) ==
  LET next == [s.orders EXCEPT ![u] = None]
  IN IF s.orders[u] = None THEN s
     ELSE [s EXCEPT !.orders = next,
             !.diffs = IF s.tracked THEN InsertNewDiff(@, DiffOf(s, u, None, next)) ELSE @]

\* Mutant: every order of a delta is inserted.
ChangeAll(s, u, item) == IF item = None THEN Remove(s, u) ELSE Insert(s, u, item)

Change(s, u, item) ==
  CASE item = Same -> s
    [] item = None -> Remove(s, u)
    [] OTHER -> Insert(s, u, item)

\* The orders of a response come out of a hash map in any order.
InAnyOrder == {f \in [1 .. Cardinality(Uuids) -> Uuids] : \A i, j \in DOMAIN f : f[i] = f[j] => i = j}

\* process_trie_delta
ProcessTrieDelta(s, delta, order) ==
  LET applied[n \in 0 .. Cardinality(Uuids)] ==
        IF n = 0 THEN s ELSE Change(applied[n - 1], order[n], delta[order[n]])
  IN applied[Cardinality(Uuids)]

\* process_pubkey_full_trie: remove_pubkey_pair_orders forgets the orders, the
\* root and the history, then the new orders are inserted.
ProcessPubkeyFullTrie(orders, order) ==
  ProcessTrieDelta(NoState, [u \in Uuids |-> IF orders[u] = None THEN Same ELSE orders[u]], order)

\* Mutant: where the diffs end is not compared.
FromHistoryUnchecked(s, root) ==
  IF HasKey(s.diffs, root)
    THEN [type |-> "delta", delta |-> Walk(s.diffs, root, Cardinality(s.diffs)).delta]
    ELSE [type |-> "full", orders |-> s.orders]

\* DeltaOrFullTrie::from_history
FromHistory(s, root) ==
  LET end == Walk(s.diffs, root, Cardinality(s.diffs))
  IN IF HasKey(s.diffs, root) /\ end.root = RootOf(s)
       THEN [type |-> "delta", delta |-> end.delta]
       ELSE [type |-> "full", orders |-> s.orders]

\* Diffs each of which has its next one among them: a walk along them never ends.
Circle(diffs) == diffs # {} /\ \A d \in diffs : HasKey(diffs, d.next)

\* Every diff leads from its root to the next one, and none of them form a circle.
SoundHistory(diffs) ==
  /\ \A d \in diffs : d.next.orders = [d.from.orders EXCEPT ![d.uuid] = d.item]
  /\ \A c \in SUBSET diffs : ~Circle(c)

\* What a delta makes of the orders it is applied to.
Patched(orders, delta) == [u \in Uuids |-> IF delta[u] = Same THEN orders[u] ELSE delta[u]]
=============================================================================
