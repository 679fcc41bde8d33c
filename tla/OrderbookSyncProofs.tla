------------------------ MODULE OrderbookSyncProofs ------------------------
(***************************************************************************)
(* Orderbook synchronisation, for any number of peers, orders, contents    *)
(* and losses: the history of diffs stays sound, so the loop that          *)
(* from_history walks along it ends; a delta leads to the orders of the    *)
(* node that made it; a whole answer puts its orders in the place of what  *)
(* the peer had.                                                           *)
(*                                                                         *)
(* The loops are recursive functions over 0 .. N.  What they compute is    *)
(* found by induction over the numbers, which the first section derives    *)
(* for sets from the well-foundedness of <.                                *)
(***************************************************************************)
EXTENDS OrderbookSync, FiniteSetTheorems, TLAPS

\* SMT is the quicker of the two provers here.
USE SMTT(30), ZenonT(30)

-----------------------------------------------------------------------------
(* Loops.                                                                  *)

\* Induction over the numbers, for membership in a set.
LEMMA NatSetInduction ==
  ASSUME NEW P, 0 \in P, \A n \in Nat : n \in P => n + 1 \in P
  PROVE  \A n \in Nat : n \in P
<1>. DEFINE R == OpToRel(<, Nat)
            T == Nat \ P
<1>1. IsWellFoundedOn(R, Nat)
  BY NatLessThanWellFounded DEF OpToRel
<1>2. \A x, y \in Nat : x < y => <<x, y>> \in R
  BY DEF OpToRel
<1>3. SUFFICES ASSUME T # {} PROVE FALSE
  OBVIOUS
<1>. HIDE DEF R
<1>4. T \subseteq Nat
  OBVIOUS
<1>. HIDE DEF T
<1>5. PICK x \in T : \A y \in T : ~(<<y, x>> \in R)
  BY ZenonT(30), <1>1, <1>3, <1>4, WFMin
<1>. USE DEF T
<1>6. x \in Nat /\ x # 0
  BY <1>5
<1>7. x - 1 \in Nat /\ x - 1 < x
  BY <1>6
<1>8. x - 1 \in P
  BY ZenonT(30), <1>2, <1>5, <1>6, <1>7
<1>9. (x - 1) + 1 = x
  BY <1>6
<1>. QED  BY <1>5, <1>6, <1>7, <1>8, <1>9

\* A computation of N steps: step n takes v to G[n][v].
Computes(f, N, a, G) == f = [n \in 0 .. N |-> IF n = 0 THEN a ELSE G[n][f[n - 1]]]

\* There is one, if every step has a value in S for a value in S.
LEMMA Computation ==
  ASSUME NEW N \in Nat, NEW S, NEW a \in S, NEW G \in [1 .. N -> [S -> S]]
  PROVE  \E f \in [0 .. N -> S] : Computes(f, N, a, G)
<1>. DEFINE P == {k \in Nat : k <= N => \E f \in [0 .. k -> S] : Computes(f, k, a, G)}
<1>1. 0 \in P
  <2>. DEFINE f == [n \in 0 .. 0 |-> a]
  <2>1. f \in [0 .. 0 -> S] /\ Computes(f, 0, a, G)
    BY DEF Computes
  <2>. QED  BY <2>1
<1>2. ASSUME NEW k \in Nat, k \in P PROVE k + 1 \in P
  <2>. SUFFICES ASSUME k + 1 <= N PROVE \E f \in [0 .. k + 1 -> S] : Computes(f, k + 1, a, G)
    OBVIOUS
  <2>1. PICK f \in [0 .. k -> S] : Computes(f, k, a, G)
    BY <1>2
  <2>. DEFINE g == [n \in 0 .. k + 1 |-> IF n = k + 1 THEN G[n][f[k]] ELSE f[n]]
  <2>2. f[k] \in S /\ G[k + 1] \in [S -> S]
    OBVIOUS
  <2>3. G[k + 1][f[k]] \in S
    BY <2>2
  <2>4. g \in [0 .. k + 1 -> S]
    BY <2>1, <2>3
  <2>5. ASSUME NEW n \in 0 .. k + 1 PROVE g[n] = IF n = 0 THEN a ELSE G[n][g[n - 1]]
    <3>1. CASE n = k + 1
      BY <3>1
    <3>2. CASE n # k + 1 /\ n # 0
      <4>1. n \in 0 .. k /\ n - 1 \in 0 .. k /\ n - 1 # k + 1
        BY <3>2
      <4>2. f[n] = G[n][f[n - 1]]
        BY <2>1, <3>2, <4>1 DEF Computes
      <4>. QED  BY <3>2, <4>1, <4>2
    <3>3. CASE n # k + 1 /\ n = 0
      BY <2>1, <3>3 DEF Computes
    <3>. QED  BY <3>1, <3>2, <3>3
  <2>6. Computes(g, k + 1, a, G)
    BY <2>4, <2>5 DEF Computes
  <2>. QED  BY <2>4, <2>6
<1>. HIDE DEF P
<1>3. N \in P
  BY <1>1, <1>2, NatSetInduction
<1>. QED  BY <1>3 DEF P

-----------------------------------------------------------------------------
(* The loops of insert_new_diff and from_history.                          *)

Deltas == [Uuids -> Items \cup {None, Same}]
Place == [root : Root, delta : Deltas]
Start(root) == [root |-> root, delta |-> [u \in Uuids |-> Same]]

\* One turn of the loop.
WalkStep(diffs, v) ==
  IF HasKey(diffs, v.root)
    THEN [root |-> DiffAt(diffs, v.root).next,
          delta |-> [v.delta EXCEPT ![DiffAt(diffs, v.root).uuid] = DiffAt(diffs, v.root).item]]
    ELSE v

\* Where the loop is after each turn.
Walks(w, diffs, root, N) ==
  /\ w \in [0 .. N -> Place]
  /\ w[0] = Start(root)
  /\ \A n \in 1 .. N : w[n] = WalkStep(diffs, w[n - 1])

\* The diff at a root is one of the history.
LEMMA DiffAtIn ==
  ASSUME NEW diffs, NEW root, HasKey(diffs, root)
  PROVE  DiffAt(diffs, root) \in diffs /\ DiffAt(diffs, root).from = root
BY DEF DiffAt, HasKey

\* A turn of the loop stays among roots and deltas.
LEMMA WalkStepType ==
  ASSUME NEW diffs \in SUBSET Diff, NEW v \in Place
  PROVE  WalkStep(diffs, v) \in Place
<1>1. CASE ~HasKey(diffs, v.root)
  BY <1>1 DEF WalkStep
<1>2. CASE HasKey(diffs, v.root)
  <2>1. PICK d \in Diff : d = DiffAt(diffs, v.root)
    BY <1>2, DiffAtIn
  <2>2. WalkStep(diffs, v) = [root |-> d.next, delta |-> [v.delta EXCEPT ![d.uuid] = d.item]]
    BY <1>2, <2>1 DEF WalkStep
  <2>3. [v.delta EXCEPT ![d.uuid] = d.item] \in Deltas /\ d.next \in Root
    BY DEF Diff, Place, Deltas
  <2>. QED  BY <2>2, <2>3 DEF Place
<1>. QED  BY <1>1, <1>2

\* What Walk returns is where the loop is after N turns.
LEMMA WalkIs ==
  ASSUME NEW diffs \in SUBSET Diff, NEW root \in Root, NEW N \in Nat
  PROVE  \E w : Walks(w, diffs, root, N) /\ Walk(diffs, root, N) = w[N]
<1>. DEFINE E(w) == w = [n \in 0 .. N |-> IF n = 0 THEN Start(root) ELSE WalkStep(diffs, w[n - 1])]
            G == [n \in 1 .. N |-> [v \in Place |-> WalkStep(diffs, v)]]
<1>1. Walk(diffs, root, N) = (CHOOSE w : E(w))[N]
  BY DEF Walk, WalkStep, Start
<1>2. Start(root) \in Place /\ G \in [1 .. N -> [Place -> Place]]
  <2>1. Start(root) \in Place
    BY DEF Start, Place, Deltas
  <2>. QED  BY <2>1, WalkStepType
<1>3. PICK f \in [0 .. N -> Place] : Computes(f, N, Start(root), G)
  BY ZenonT(30), <1>2, Computation
<1>4. E(f)
  <2>1. ASSUME NEW n \in 0 .. N, n # 0 PROVE G[n][f[n - 1]] = WalkStep(diffs, f[n - 1])
    <3>1. n \in 1 .. N /\ f[n - 1] \in Place
      BY <2>1
    <3>. QED  BY <3>1
  <2>2. f = [n \in 0 .. N |-> IF n = 0 THEN Start(root) ELSE G[n][f[n - 1]]]
    BY SMTT(60), <1>3 DEF Computes
  <2>3. ASSUME NEW n \in 0 .. N PROVE f[n] = IF n = 0 THEN Start(root) ELSE WalkStep(diffs, f[n - 1])
    <3>. HIDE DEF G
    <3>1. f[n] = IF n = 0 THEN Start(root) ELSE G[n][f[n - 1]]
      BY <2>2
    <3>. QED  BY <2>1, <3>1
  <2>. QED  BY <2>3
<1>5. PICK w : E(w) /\ w = (CHOOSE v : E(v))
  BY <1>4
<1>6. \A n \in 0 .. N : w[n] = IF n = 0 THEN Start(root) ELSE WalkStep(diffs, w[n - 1])
  BY <1>5
<1>7. w \in [0 .. N -> Place]
  <2>. DEFINE P == {k \in Nat : k <= N => w[k] \in Place}
  <2>1. 0 \in P
    BY <1>2, <1>6
  <2>2. ASSUME NEW k \in Nat, k \in P PROVE k + 1 \in P
    <3>. SUFFICES ASSUME k + 1 <= N PROVE w[k + 1] \in Place
      OBVIOUS
    <3>1. w[k + 1] = WalkStep(diffs, w[k])
      BY <1>6
    <3>. QED  BY <2>2, <3>1, WalkStepType
  <2>. HIDE DEF P
  <2>3. \A k \in 0 .. N : w[k] \in Place
    <3>1. \A k \in Nat : k \in P
      BY <2>1, <2>2, NatSetInduction
    <3>. QED  BY <3>1 DEF P
  <2>4. w = [n \in 0 .. N |-> w[n]]
    BY <1>5
  <2>. QED  BY <2>3, <2>4
<1>8. Walks(w, diffs, root, N)
  <2>1. w[0] = Start(root) /\ \A n \in 1 .. N : w[n] = WalkStep(diffs, w[n - 1])
    BY <1>6
  <2>. QED  BY <1>7, <2>1 DEF Walks
<1>9. Walk(diffs, root, N) = w[N]
  BY ZenonT(30), <1>1, <1>5
<1>. QED  BY <1>8, <1>9

-----------------------------------------------------------------------------
(* One change of the history.                                              *)

\* Diffs that expire in the TimeCache, or are dropped, leave a sound history.
LEMMA FewerDiffs ==
  ASSUME NEW diffs, SoundHistory(diffs), NEW kept \in SUBSET diffs
  PROVE  SoundHistory(kept)
BY DEF SoundHistory

\* A node that knows nothing has no history.
LEMMA NoHistory == SoundHistory({})
BY DEF SoundHistory, Circle

\* A diff to a root that no diff starts from closes no circle.
LEMMA NewDiff ==
  ASSUME NEW diffs, SoundHistory(diffs), NEW d, ~HasKey(diffs, d.next), d.from # d.next,
         d.next.orders = [d.from.orders EXCEPT ![d.uuid] = d.item]
  PROVE  SoundHistory(diffs \cup {d})
<1>1. ASSUME NEW c \in SUBSET (diffs \cup {d}), Circle(c)
      PROVE  FALSE
  <2>1. CASE d \in c
    <3>1. PICK e \in c : e.from = d.next
      BY <1>1, <2>1 DEF Circle, HasKey
    <3>. QED  BY <3>1 DEF HasKey
  <2>2. CASE d \notin c
    <3>1. c \in SUBSET diffs
      BY <2>2
    <3>. QED  BY <1>1, <3>1 DEF SoundHistory
  <2>. QED  BY <2>1, <2>2
<1>. QED  BY <1>1 DEF SoundHistory

\* TrieDiffHistory::insert_new_diff keeps a history sound.
LEMMA InsertNewDiffSound ==
  ASSUME NEW diffs, SoundHistory(diffs), NEW d,
         d.next.orders = [d.from.orders EXCEPT ![d.uuid] = d.item]
  PROVE  SoundHistory(InsertNewDiff(diffs, d))
<1>1. CASE d.from = d.next
  BY <1>1 DEF InsertNewDiff
<1>2. CASE d.from # d.next /\ HasKey(diffs, d.next)
  <2>. DEFINE way == {Walk(diffs, d.next, n).root : n \in 0 .. Cardinality(diffs)}
              kept == {e \in diffs : e.from \notin way}
  <2>1. InsertNewDiff(diffs, d) = kept
    BY <1>2 DEF InsertNewDiff
  <2>2. kept \in SUBSET diffs
    OBVIOUS
  <2>. QED  BY <2>1, <2>2, FewerDiffs
<1>3. CASE d.from # d.next /\ ~HasKey(diffs, d.next)
  BY <1>3, NewDiff DEF InsertNewDiff
<1>. QED  BY <1>1, <1>2, <1>3

\* insert_or_update_order_update_trie keeps the history sound.
LEMMA InsertSound ==
  ASSUME NEW s, SoundHistory(s.diffs), NEW u \in Uuids, NEW item
  PROVE  SoundHistory(Insert(s, u, item).diffs)
<1>. DEFINE next == [s.orders EXCEPT ![u] = item]
            d == DiffOf(s, u, item, next)
<1>1. d.next.orders = [d.from.orders EXCEPT ![d.uuid] = d.item]
  BY DEF DiffOf, RootOf
<1>2. Insert(s, u, item).diffs = IF s.rooted THEN InsertNewDiff(s.diffs, d) ELSE s.diffs
  BY DEF Insert
<1>. HIDE DEF d
<1>. QED  BY <1>1, <1>2, InsertNewDiffSound

\* remove_order_trie_update keeps the history sound.
LEMMA RemoveSound ==
  ASSUME NEW s \in State, SoundHistory(s.diffs), NEW u \in Uuids
  PROVE  SoundHistory(Remove(s, u).diffs)
<1>. DEFINE next == [s.orders EXCEPT ![u] = None]
            d == DiffOf(s, u, None, next)
<1>1. d.next.orders = [d.from.orders EXCEPT ![d.uuid] = d.item]
  BY DEF DiffOf, RootOf
<1>2. \/ Remove(s, u).diffs = s.diffs
      \/ Remove(s, u).diffs = InsertNewDiff(s.diffs, d)
  BY DEF Remove, State
<1>. HIDE DEF d
<1>. QED  BY <1>1, <1>2, InsertNewDiffSound

\* One change of one order, in a message or in a delta, keeps the history sound.
LEMMA ChangeSound ==
  ASSUME NEW s \in State, SoundHistory(s.diffs), NEW u \in Uuids, NEW item
  PROVE  SoundHistory(Change(s, u, item).diffs)
BY InsertSound, RemoveSound DEF Change

\* insert_new_diff adds at most the diff it is given.
LEMMA InsertNewDiffType ==
  ASSUME NEW diffs \in SUBSET Diff, NEW d \in Diff
  PROVE  InsertNewDiff(diffs, d) \in SUBSET Diff
<1>. DEFINE way == {Walk(diffs, d.next, n).root : n \in 0 .. Cardinality(diffs)}
            kept == {e \in diffs : e.from \notin way}
<1>1. CASE d.from # d.next /\ HasKey(diffs, d.next)
  <2>1. InsertNewDiff(diffs, d) = kept
    BY <1>1 DEF InsertNewDiff
  <2>. QED  BY <2>1
<1>2. CASE ~(d.from # d.next /\ HasKey(diffs, d.next))
  <2>1. InsertNewDiff(diffs, d) = diffs \/ InsertNewDiff(diffs, d) = diffs \cup {d}
    BY <1>2 DEF InsertNewDiff
  <2>. QED  BY <2>1
<1>. QED  BY <1>1, <1>2

\* A change of one order gives a state of a public key again.
LEMMA ChangeType ==
  ASSUME NEW s \in State, NEW u \in Uuids, NEW item \in Items \cup {None, Same}
  PROVE  Change(s, u, item) \in State
<1>1. CASE item = Same
  BY <1>1 DEF Change, Same, None
<1>2. CASE item # Same
  <2>. DEFINE next == [s.orders EXCEPT ![u] = item]
              d == DiffOf(s, u, item, next)
  <2>1. next \in Orders /\ d \in Diff
    BY <1>2 DEF State, Orders, DiffOf, RootOf, Root, Diff
  <2>2. InsertNewDiff(s.diffs, d) \in SUBSET Diff
    BY <2>1, InsertNewDiffType DEF State
  <2>3. CASE item = None
    <3>1. Change(s, u, item) = Remove(s, u)
      BY <1>2, <2>3 DEF Change
    <3>2. \/ Remove(s, u) = s
          \/ Remove(s, u) = [s EXCEPT !.orders = next]
          \/ Remove(s, u) = [s EXCEPT !.orders = next, !.diffs = InsertNewDiff(s.diffs, d)]
      BY ZenonT(30), <2>3 DEF Remove, State
    <3>. HIDE DEF d, next
    <3>. QED  BY ZenonT(30), <2>1, <2>2, <3>1, <3>2 DEF State
  <2>4. CASE item # None
    <3>1. Change(s, u, item) = Insert(s, u, item)
      BY <1>2, <2>4 DEF Change
    <3>2. /\ Insert(s, u, item) =
                [rooted |-> TRUE, orders |-> next, tracked |-> s.tracked \/ s.rooted,
                 diffs |-> IF s.rooted THEN InsertNewDiff(s.diffs, d) ELSE s.diffs]
      BY DEF Insert
    <3>3. (s.tracked \/ s.rooted) \in BOOLEAN
      BY ZenonT(30)
    <3>. HIDE DEF d, next
    <3>. QED  BY <2>1, <2>2, <3>1, <3>2, <3>3 DEF State
  <2>. QED  BY <2>3, <2>4
<1>. QED  BY <1>1, <1>2

\* The delta collected so far, applied to the orders the loop started from, gives the orders of the
\* root it is at.
LEMMA WalkPatches ==
  ASSUME NEW diffs \in SUBSET Diff, SoundHistory(diffs), NEW root \in Root, NEW N \in Nat
  PROVE  /\ Walk(diffs, root, N) \in Place
         /\ Patched(root.orders, Walk(diffs, root, N).delta) = Walk(diffs, root, N).root.orders
<1>1. PICK w : Walks(w, diffs, root, N) /\ Walk(diffs, root, N) = w[N]
  BY WalkIs
<1>. DEFINE P == {k \in Nat : k <= N => Patched(root.orders, w[k].delta) = w[k].root.orders}
<1>2. 0 \in P
  <2>1. w[0].root = root /\ w[0].delta = [u \in Uuids |-> Same]
    BY <1>1 DEF Walks, Start
  <2>. QED  BY <2>1 DEF Patched, Root, Orders
<1>3. ASSUME NEW k \in Nat, k \in P PROVE k + 1 \in P
  <2>. SUFFICES ASSUME k + 1 <= N PROVE Patched(root.orders, w[k + 1].delta) = w[k + 1].root.orders
    OBVIOUS
  <2>1. w[k + 1] = WalkStep(diffs, w[k]) /\ w[k] \in Place
    BY <1>1 DEF Walks
  <2>2. Patched(root.orders, w[k].delta) = w[k].root.orders
    BY <1>3
  <2>3. PICK v \in Place : v = w[k]
    BY <2>1
  <2>4. CASE ~HasKey(diffs, v.root)
    BY <2>1, <2>2, <2>3, <2>4 DEF WalkStep
  <2>5. CASE HasKey(diffs, v.root)
    <3>1. PICK d \in diffs : d = DiffAt(diffs, v.root) /\ d.from = v.root
      BY <2>5, DiffAtIn
    <3>2. w[k + 1].root = d.next /\ w[k + 1].delta = [v.delta EXCEPT ![d.uuid] = d.item]
      BY <2>1, <2>3, <2>5, <3>1 DEF WalkStep
    <3>3. d.next.orders = [v.root.orders EXCEPT ![d.uuid] = d.item]
      BY <3>1 DEF SoundHistory
    <3>4. /\ d.uuid \in Uuids /\ d.item \in Items \cup {None} /\ v.root.orders \in [Uuids -> Items \cup {None}]
          /\ v.delta \in [Uuids -> Items \cup {None, Same}]
      BY DEF Diff, Place, Root, Orders, Deltas
    <3>5. d.item # Same
      BY <3>4, ItemsAssumption DEF None, Same
    <3>6. \A u \in Uuids : v.root.orders[u] = IF v.delta[u] = Same THEN root.orders[u] ELSE v.delta[u]
      BY <2>2, <2>3 DEF Patched
    <3>7. Patched(root.orders, [v.delta EXCEPT ![d.uuid] = d.item]) = [v.root.orders EXCEPT ![d.uuid] = d.item]
      BY <3>4, <3>5, <3>6 DEF Patched
    <3>. QED  BY <3>2, <3>3, <3>7
  <2>. QED  BY <2>4, <2>5
<1>. HIDE DEF P
<1>4. N \in P
  BY <1>2, <1>3, NatSetInduction
<1>. QED  BY <1>1, <1>4 DEF P, Walks

\* The loop ends: after as many turns as there are diffs it is at a root without one.
LEMMA WalkEnds ==
  ASSUME NEW diffs \in SUBSET Diff, IsFiniteSet(diffs), SoundHistory(diffs), NEW root \in Root
  PROVE  ~HasKey(diffs, Walk(diffs, root, Cardinality(diffs)).root)
<1>0. PICK N \in Nat : N = Cardinality(diffs)
  BY FS_CardinalityType
<1>1. PICK w : Walks(w, diffs, root, N) /\ Walk(diffs, root, N) = w[N]
  BY WalkIs
<1>2. SUFFICES ASSUME HasKey(diffs, w[N].root) PROVE FALSE
  BY <1>0, <1>1
<1>3. \A k \in 0 .. N : HasKey(diffs, w[k].root)
  <2>. DEFINE P == {k \in Nat : k <= N => HasKey(diffs, w[N - k].root)}
  <2>1. 0 \in P
    BY <1>2
  <2>2. ASSUME NEW k \in Nat, k \in P PROVE k + 1 \in P
    <3>. SUFFICES ASSUME k + 1 <= N PROVE HasKey(diffs, w[N - (k + 1)].root)
      OBVIOUS
    <3>1. PICK j \in 0 .. N : j = N - (k + 1)
      OBVIOUS
    <3>2. w[j + 1] = WalkStep(diffs, w[j]) /\ HasKey(diffs, w[j + 1].root)
      <4>1. j + 1 \in 1 .. N /\ (j + 1) - 1 = j /\ j + 1 = N - k
        BY <3>1
      <4>. QED  BY <1>1, <2>2, <4>1 DEF Walks
    <3>. QED  BY <3>1, <3>2 DEF WalkStep
  <2>. HIDE DEF P
  <2>3. \A k \in Nat : k \in P
    BY <2>1, <2>2, NatSetInduction
  <2>4. ASSUME NEW k \in 0 .. N PROVE HasKey(diffs, w[k].root)
    <3>1. N - k \in Nat /\ N - k <= N /\ N - (N - k) = k
      OBVIOUS
    <3>2. N - k \in P
      BY <2>3, <3>1
    <3>. QED  BY <3>1, <3>2 DEF P
  <2>. QED  BY <2>4
<1>. DEFINE f == [k \in 0 .. N |-> DiffAt(diffs, w[k].root)]
<1>4. f \in [0 .. N -> diffs] /\ \A k \in 0 .. N : f[k].from = w[k].root
  BY <1>3, DiffAtIn
<1>5. \A k \in 0 .. N : k + 1 <= N => f[k].next = w[k + 1].root
  <2>1. ASSUME NEW k \in 0 .. N, k + 1 <= N PROVE f[k].next = w[k + 1].root
    <3>1. k + 1 \in 1 .. N /\ (k + 1) - 1 = k
      BY <2>1
    <3>2. w[k + 1] = WalkStep(diffs, w[k])
      BY <1>1, <3>1 DEF Walks
    <3>. QED  BY <1>3, <3>2 DEF WalkStep
  <2>. QED  BY <2>1
<1>. HIDE DEF f
<1>6. PICK i, j \in 0 .. N : i < j /\ f[i] = f[j]
  <2>1. IsFiniteSet(0 .. N) /\ Cardinality(0 .. N) = N + 1
    BY FS_Interval
  <2>2. \E i, j \in 0 .. N : i # j /\ f[i] = f[j]
    BY <1>0, <1>4, <2>1, FS_PigeonHole
  <2>. QED  BY <2>2
<1>. DEFINE c == {f[k] : k \in i .. j - 1}
<1>7. c \in SUBSET diffs /\ f[i] \in c
  BY <1>4, <1>6
<1>8. ASSUME NEW k \in i .. j - 1 PROVE HasKey(c, f[k].next)
  <2>1. k \in 0 .. N /\ k + 1 <= N
    BY <1>6
  <2>2. f[k].next = w[k + 1].root
    BY <1>5, <2>1
  <2>3. CASE k + 1 = j
    BY <1>4, <1>6, <1>7, <2>2, <2>3 DEF HasKey
  <2>4. CASE k + 1 # j
    <3>1. k + 1 \in i .. j - 1 /\ k + 1 \in 0 .. N
      BY <1>6, <2>4
    <3>. QED  BY <1>4, <2>2, <3>1 DEF HasKey
  <2>. QED  BY <2>3, <2>4
<1>9. Circle(c)
  BY ZenonT(30), <1>7, <1>8 DEF Circle
<1>. QED  BY <1>7, <1>9 DEF SoundHistory

-----------------------------------------------------------------------------
(* The orders of an answer.                                                *)

SoundState == {s \in State : IsFiniteSet(s.diffs) /\ SoundHistory(s.diffs)}

\* insert_new_diff adds at most one diff.
LEMMA InsertNewDiffFinite ==
  ASSUME NEW diffs, IsFiniteSet(diffs), NEW d
  PROVE  IsFiniteSet(InsertNewDiff(diffs, d))
<1>. DEFINE way == {Walk(diffs, d.next, n).root : n \in 0 .. Cardinality(diffs)}
            kept == {e \in diffs : e.from \notin way}
<1>1. InsertNewDiff(diffs, d) \in {diffs, diffs \cup {d}, kept}
  BY DEF InsertNewDiff
<1>2. kept \in SUBSET diffs
  OBVIOUS
<1>. HIDE DEF kept
<1>. QED  BY <1>1, <1>2, FS_AddElement, FS_Subset

\* A change of one order keeps the state sound, and is a change of that order only.
LEMMA ChangeKeeps ==
  ASSUME NEW s \in SoundState, NEW u \in Uuids, NEW item \in Items \cup {None, Same}
  PROVE  /\ Change(s, u, item) \in SoundState
         /\ Change(s, u, item).orders = IF item = Same THEN s.orders ELSE [s.orders EXCEPT ![u] = item]
<1>. DEFINE next == [s.orders EXCEPT ![u] = item]
<1>1. s \in State /\ IsFiniteSet(s.diffs) /\ SoundHistory(s.diffs)
  BY DEF SoundState
<1>2. Change(s, u, item) \in State /\ SoundHistory(Change(s, u, item).diffs)
  BY <1>1, ChangeType, ChangeSound
<1>3. CASE item = Same
  <2>1. Change(s, u, item) = s
    BY <1>3 DEF Change, Same, None
  <2>. QED  BY <1>3, <2>1
<1>4. CASE item = None
  <2>1. Change(s, u, item) = Remove(s, u) /\ item # Same
    BY <1>4 DEF Change, None, Same
  <2>2. \/ Remove(s, u) = s /\ s.orders[u] = None
        \/ \E d : /\ Remove(s, u).orders = next
                  /\ Remove(s, u).diffs \in {s.diffs, InsertNewDiff(s.diffs, d)}
    BY <1>1, <1>4 DEF Remove, State
  <2>3. s.orders[u] = None => next = s.orders
    BY <1>1, <1>4 DEF State, Orders
  <2>4. IsFiniteSet(Remove(s, u).diffs) /\ Remove(s, u).orders = next
    BY <1>1, <2>2, <2>3, InsertNewDiffFinite
  <2>. QED  BY <1>2, <2>1, <2>4 DEF SoundState
<1>5. CASE item \notin {None, Same}
  <2>1. Change(s, u, item) = Insert(s, u, item)
    BY <1>5 DEF Change
  <2>2. \E d : /\ Insert(s, u, item).orders = next
               /\ Insert(s, u, item).diffs \in {s.diffs, InsertNewDiff(s.diffs, d)}
    BY DEF Insert
  <2>3. IsFiniteSet(Insert(s, u, item).diffs)
    BY <1>1, <2>2, InsertNewDiffFinite
  <2>. QED  BY <1>2, <1>5, <2>1, <2>2, <2>3 DEF SoundState
<1>. QED  BY <1>3, <1>4, <1>5

\* The number of orders, and the places of an order of the orders.
LEMMA OrderPlaces ==
  ASSUME NEW order \in InAnyOrder
  PROVE  /\ Cardinality(Uuids) \in Nat
         /\ order \in [1 .. Cardinality(Uuids) -> Uuids]
         /\ \A u \in Uuids : \E i \in 1 .. Cardinality(Uuids) : order[i] = u
<1>1. IsFiniteSet(Uuids)
  BY ItemsAssumption
<1>2. PICK N \in Nat : N = Cardinality(Uuids)
  BY <1>1, FS_CardinalityType
<1>3. order \in [1 .. N -> Uuids] /\ \A i, j \in 1 .. N : order[i] = order[j] => i = j
  BY <1>2 DEF InAnyOrder
<1>4. order \in Injection(1 .. N, Uuids)
  BY <1>3 DEF Injection, IsInjective
<1>5. Cardinality(1 .. N) = N
  BY FS_Interval
<1>6. order \in Surjection(1 .. N, Uuids)
  BY <1>1, <1>2, <1>4, <1>5, FS_Injection
<1>. QED  BY <1>2, <1>3, <1>6 DEF Surjection

\* process_trie_delta goes through the orders of a delta one by one.
LEMMA DeltaIs ==
  ASSUME NEW s \in SoundState, NEW delta \in Deltas, NEW order \in InAnyOrder
  PROVE  \E f \in [0 .. Cardinality(Uuids) -> SoundState] :
           /\ f[0] = s
           /\ \A n \in 1 .. Cardinality(Uuids) : f[n] = Change(f[n - 1], order[n], delta[order[n]])
           /\ ProcessTrieDelta(s, delta, order) = f[Cardinality(Uuids)]
<1>1. PICK N \in Nat : N = Cardinality(Uuids)
  BY OrderPlaces
<1>2. order \in [1 .. N -> Uuids]
  BY <1>1, OrderPlaces
<1>. DEFINE E(f) == f = [n \in 0 .. N |-> IF n = 0 THEN s ELSE Change(f[n - 1], order[n], delta[order[n]])]
            G == [n \in 1 .. N |-> [v \in SoundState |-> Change(v, order[n], delta[order[n]])]]
<1>3. ProcessTrieDelta(s, delta, order) = (CHOOSE f : E(f))[N]
  BY <1>1 DEF ProcessTrieDelta
<1>4. ASSUME NEW n \in 1 .. N, NEW v \in SoundState
      PROVE  Change(v, order[n], delta[order[n]]) \in SoundState
  <2>1. order[n] \in Uuids /\ delta[order[n]] \in Items \cup {None, Same}
    BY <1>2 DEF Deltas
  <2>. QED  BY ZenonT(30), <2>1, ChangeKeeps
<1>5. G \in [1 .. N -> [SoundState -> SoundState]]
  BY <1>4
<1>6. ASSUME NEW f \in [0 .. N -> SoundState] PROVE Computes(f, N, s, G) => E(f)
  <2>. SUFFICES ASSUME Computes(f, N, s, G) PROVE E(f)
    OBVIOUS
  <2>1. ASSUME NEW n \in 0 .. N, n # 0 PROVE G[n][f[n - 1]] = Change(f[n - 1], order[n], delta[order[n]])
    <3>1. n \in 1 .. N /\ f[n - 1] \in SoundState
      BY <2>1
    <3>. QED  BY <3>1
  <2>. HIDE DEF G
  <2>2. ASSUME NEW n \in 0 .. N
        PROVE  f[n] = IF n = 0 THEN s ELSE Change(f[n - 1], order[n], delta[order[n]])
    BY <2>1 DEF Computes
  <2>. QED  BY <2>2
<1>7. PICK g \in [0 .. N -> SoundState] : Computes(g, N, s, G)
  BY ZenonT(30), <1>5, Computation
<1>8. PICK f : E(f) /\ f = (CHOOSE h : E(h))
  BY <1>6, <1>7
<1>9. \A n \in 0 .. N : f[n] = IF n = 0 THEN s ELSE Change(f[n - 1], order[n], delta[order[n]])
  BY <1>8
<1>10. f \in [0 .. N -> SoundState]
  <2>. DEFINE P == {k \in Nat : k <= N => f[k] \in SoundState}
  <2>1. 0 \in P
    BY <1>9
  <2>2. ASSUME NEW k \in Nat, k \in P PROVE k + 1 \in P
    <3>. SUFFICES ASSUME k + 1 <= N PROVE f[k + 1] \in SoundState
      OBVIOUS
    <3>1. f[k + 1] = Change(f[k], order[k + 1], delta[order[k + 1]])
      BY <1>9
    <3>. QED  BY <1>4, <2>2, <3>1
  <2>. HIDE DEF P
  <2>3. \A k \in Nat : k \in P
    BY <2>1, <2>2, NatSetInduction
  <2>4. \A k \in 0 .. N : f[k] \in SoundState
    BY <2>3 DEF P
  <2>5. f = [n \in 0 .. N |-> f[n]]
    BY <1>8
  <2>. QED  BY <2>4, <2>5
<1>11. f[0] = s /\ \A n \in 1 .. N : f[n] = Change(f[n - 1], order[n], delta[order[n]])
  BY <1>9
<1>. QED  BY ZenonT(30), <1>1, <1>3, <1>8, <1>10, <1>11

\* process_trie_delta leaves a sound state, with the orders of the delta in the place of the old
\* ones, in whatever order the delta lists them.
LEMMA DeltaPatches ==
  ASSUME NEW s \in SoundState, NEW delta \in Deltas, NEW order \in InAnyOrder
  PROVE  /\ ProcessTrieDelta(s, delta, order) \in SoundState
         /\ ProcessTrieDelta(s, delta, order).orders = Patched(s.orders, delta)
<1>1. PICK N \in Nat : N = Cardinality(Uuids)
  BY OrderPlaces
<1>2. PICK f \in [0 .. N -> SoundState] :
        /\ f[0] = s
        /\ \A n \in 1 .. N : f[n] = Change(f[n - 1], order[n], delta[order[n]])
        /\ ProcessTrieDelta(s, delta, order) = f[N]
  BY <1>1, DeltaIs
<1>3. order \in [1 .. N -> Uuids] /\ \A u \in Uuids : \E i \in 1 .. N : order[i] = u
  BY <1>1, OrderPlaces
<1>. DEFINE Done(k, u) == \E i \in 1 .. k : order[i] = u
            P == {k \in Nat : k <= N => \A u \in Uuids :
                    f[k].orders[u] = IF Done(k, u) THEN Patched(s.orders, delta)[u] ELSE s.orders[u]}
<1>4. 0 \in P
  BY <1>2
<1>5. ASSUME NEW k \in Nat, k \in P PROVE k + 1 \in P
  <2>. SUFFICES ASSUME k + 1 <= N, NEW u \in Uuids
                PROVE  f[k + 1].orders[u] = IF Done(k + 1, u) THEN Patched(s.orders, delta)[u] ELSE s.orders[u]
    OBVIOUS
  <2>1. PICK v \in SoundState : v = f[k]
    BY <1>2
  <2>2. PICK x \in Uuids : x = order[k + 1]
    BY <1>3
  <2>3. f[k + 1] = Change(v, x, delta[x]) /\ delta[x] \in Items \cup {None, Same}
    <3>1. k + 1 \in 1 .. N /\ (k + 1) - 1 = k
      OBVIOUS
    <3>. QED  BY <1>2, <2>1, <2>2, <3>1 DEF Deltas
  <2>4. f[k + 1].orders = IF delta[x] = Same THEN v.orders ELSE [v.orders EXCEPT ![x] = delta[x]]
    <3>1. Change(v, x, delta[x]).orders = IF delta[x] = Same THEN v.orders ELSE [v.orders EXCEPT ![x] = delta[x]]
      BY ZenonT(60), <2>3, ChangeKeeps
    <3>. QED  BY <2>3, <3>1
  <2>5. v.orders \in [Uuids -> Items \cup {None}]
    BY DEF SoundState, State, Orders
  <2>6. v.orders[u] = IF Done(k, u) THEN Patched(s.orders, delta)[u] ELSE s.orders[u]
    BY <1>5, <2>1
  <2>7. Done(k + 1, u) <=> Done(k, u) \/ u = x
    <3>1. 1 .. k + 1 = 1 .. k \cup {k + 1}
      OBVIOUS
    <3>. QED  BY <2>2, <3>1
  <2>8. Patched(s.orders, delta)[u] = IF delta[u] = Same THEN s.orders[u] ELSE delta[u]
    BY DEF Patched
  <2>. HIDE DEF Done
  <2>. QED  BY <2>4, <2>5, <2>6, <2>7, <2>8
<1>. HIDE DEF P
<1>6. N \in P
  BY <1>4, <1>5, NatSetInduction
<1>7. \A u \in Uuids : f[N].orders[u] = Patched(s.orders, delta)[u]
  BY <1>3, <1>6 DEF P
<1>8. f[N] \in SoundState /\ f[N].orders \in [Uuids -> Items \cup {None}]
  BY <1>2 DEF SoundState, State, Orders
<1>9. f[N].orders = Patched(s.orders, delta)
  BY <1>7, <1>8 DEF Patched
<1>. QED  BY <1>2, <1>8, <1>9

\* A node that knows nothing is in a sound state.
LEMMA NoStateSound == NoState \in SoundState
<1>1. NoState \in State
  BY DEF NoState, NoOrders, State, Orders
<1>. QED  BY <1>1, NoHistory, FS_EmptySet DEF SoundState, NoState

\* process_pubkey_full_trie leaves a sound state with exactly the orders it is given.
LEMMA FullTrieTakes ==
  ASSUME NEW orders \in Orders, NEW order \in InAnyOrder
  PROVE  /\ ProcessPubkeyFullTrie(orders, order) \in SoundState
         /\ ProcessPubkeyFullTrie(orders, order).orders = orders
<1>. DEFINE delta == [u \in Uuids |-> IF orders[u] = None THEN Same ELSE orders[u]]
<1>1. delta \in Deltas
  BY DEF Deltas, Orders
<1>2. Patched(NoState.orders, delta) = orders
  <2>1. \A u \in Uuids : orders[u] # Same
    BY ItemsAssumption DEF Orders, None, Same
  <2>. QED  BY <2>1 DEF Patched, NoState, NoOrders, Orders
<1>. HIDE DEF delta
<1>. QED  BY <1>1, <1>2, NoStateSound, DeltaPatches DEF ProcessPubkeyFullTrie, delta

-----------------------------------------------------------------------------
(* All nodes.                                                              *)

\* Every history is sound, and has finitely many diffs.
SyncInv == TypeOK /\ state \in [Nodes -> SoundState]

\* What a node makes of its state, with or without a history.
LEMMA BecomesKeeps ==
  ASSUME state \in [Nodes -> SoundState], NEW n \in Nodes, NEW s \in SoundState, Becomes(n, s)
  PROVE  state' \in [Nodes -> SoundState] /\ state'[n].orders = s.orders
<1>1. PICK r : state' = [state EXCEPT ![n] = r] /\ (r = s \/ r = [s EXCEPT !.diffs = {}, !.tracked = FALSE])
  BY ZenonT(30) DEF Becomes
<1>2. CASE r = s
  BY <1>1, <1>2
<1>3. CASE r = [s EXCEPT !.diffs = {}, !.tracked = FALSE]
  <2>1. s \in State
    BY DEF SoundState
  <2>2. r \in State /\ r.diffs = {} /\ r.orders = s.orders
    BY ZenonT(30), <1>3, <2>1 DEF State
  <2>3. r \in SoundState
    BY ZenonT(30), <2>2, NoHistory, FS_EmptySet DEF SoundState
  <2>. QED  BY <1>1, <2>2, <2>3
<1>. QED  BY <1>1, <1>2, <1>3

\* A state of which some diffs expired.
LEMMA AgedSound ==
  ASSUME NEW r \in SoundState, NEW s \in Aging(r)
  PROVE  s \in SoundState /\ s.orders = r.orders
<1>1. PICK kept \in SUBSET r.diffs : s = [r EXCEPT !.diffs = kept]
  BY DEF Aging
<1>2. r \in State /\ IsFiniteSet(r.diffs) /\ SoundHistory(r.diffs)
  BY DEF SoundState
<1>3. s \in State /\ s.diffs = kept /\ s.orders = r.orders
  BY <1>1, <1>2 DEF State
<1>4. IsFiniteSet(kept) /\ SoundHistory(kept)
  BY <1>2, FewerDiffs, FS_Subset
<1>. QED  BY <1>3, <1>4 DEF SoundState

\* One change of one order at a node.
LEMMA ChangedKeeps ==
  ASSUME state \in [Nodes -> SoundState], NEW n \in Nodes, NEW s \in Aging(state[n]),
         NEW u \in Uuids, NEW item \in Items \cup {None, Same}, Becomes(n, Change(s, u, item))
  PROVE  state' \in [Nodes -> SoundState]
<1>1. s \in SoundState
  BY AgedSound
<1>. QED  BY ZenonT(30), <1>1, ChangeKeeps, BecomesKeeps

\* Applying the answer to a request for the difference keeps the state sound.  A full trie takes the
\* place of what the peer had, a delta of the orders it speaks of.
LEMMA ApplySyncTakes ==
  ASSUME SyncInv, NEW p \in Peers, ApplySync(p)
  PROVE  /\ state' \in [Nodes -> SoundState]
         /\ state'[p].orders = IF sync[p].answer.type = "full" THEN sync[p].answer.orders
                                 ELSE Patched(state[p].orders, sync[p].answer.delta)
<1>1. /\ p \in Nodes /\ sync[p] \in Sync /\ sync[p].op = "answered" /\ state[p] \in SoundState
      /\ state \in [Nodes -> SoundState]
  BY DEF SyncInv, TypeOK, Nodes, ApplySync
<1>2. sync[p].answer \in Answer
  BY <1>1 DEF Sync, Idle
<1>3. PICK a \in Answer : a = sync[p].answer
  BY SMTT(60), <1>2
<1>4. PICK order \in InAnyOrder, s \in Aging(state[p]) :
        Becomes(p, IF a.type = "delta" THEN ProcessTrieDelta(s, a.delta, order)
                     ELSE ProcessPubkeyFullTrie(a.orders, order))
  BY <1>3 DEF ApplySync
<1>5. s \in SoundState /\ s.orders = state[p].orders
  BY <1>1, AgedSound
<1>6. CASE a.type = "delta"
  <2>1. a.delta \in Deltas
    BY <1>6 DEF Answer, Deltas
  <2>2. Becomes(p, ProcessTrieDelta(s, a.delta, order))
    BY <1>4, <1>6
  <2>3. /\ ProcessTrieDelta(s, a.delta, order) \in SoundState
        /\ ProcessTrieDelta(s, a.delta, order).orders = Patched(s.orders, a.delta)
    BY <1>5, <2>1, DeltaPatches
  <2>4. state' \in [Nodes -> SoundState] /\ state'[p].orders = Patched(s.orders, a.delta)
    BY <1>1, <2>2, <2>3, BecomesKeeps
  <2>. QED  BY SMTT(60), <1>3, <1>5, <1>6, <2>4
<1>7. CASE a.type # "delta"
  <2>1. a.type = "full" /\ a.orders \in Orders
    BY <1>7 DEF Answer
  <2>2. Becomes(p, ProcessPubkeyFullTrie(a.orders, order))
    BY <1>4, <1>7
  <2>3. state' \in [Nodes -> SoundState] /\ state'[p].orders = a.orders
    BY <1>1, <2>1, <2>2, FullTrieTakes, BecomesKeeps
  <2>. QED  BY <1>3, <2>1, <2>3
<1>. QED  BY <1>6, <1>7

\* request_and_fill_orderbook puts the orders of the answer in the place of what the peer had, if
\* there are any.
LEMMA ApplyFillTakes ==
  ASSUME SyncInv, NEW p \in Peers, ApplyFill(p)
  PROVE  /\ state' \in [Nodes -> SoundState]
         /\ fill[p].orders # NoOrders => state'[p].orders = fill[p].orders
<1>1. /\ p \in Nodes /\ fill[p] \in Fill /\ fill[p].op = "answered" /\ state[p] \in SoundState
      /\ state \in [Nodes -> SoundState]
  BY DEF SyncInv, TypeOK, Nodes, ApplyFill
<1>2. fill[p].orders \in Orders
  BY <1>1 DEF Fill
<1>3. PICK order \in InAnyOrder :
        Becomes(p, IF fill[p].orders = NoOrders THEN state[p] ELSE ProcessPubkeyFullTrie(fill[p].orders, order))
  BY DEF ApplyFill
<1>4. CASE fill[p].orders = NoOrders
  <2>1. Becomes(p, state[p])
    BY <1>3, <1>4
  <2>. QED  BY <1>1, <1>4, <2>1, BecomesKeeps
<1>5. CASE fill[p].orders # NoOrders
  <2>1. Becomes(p, ProcessPubkeyFullTrie(fill[p].orders, order))
    BY <1>3, <1>5
  <2>. QED  BY <1>1, <1>2, <2>1, FullTrieTakes, BecomesKeeps
<1>. QED  BY <1>4, <1>5

\* Every step keeps the states sound.
LEMMA StatesNext ==
  ASSUME SyncInv, [Next]_vars
  PROVE  state' \in [Nodes -> SoundState]
<1>1. state \in [Nodes -> SoundState] /\ inbox \in [Peers -> SUBSET Message]
  BY DEF SyncInv, TypeOK
<1>2. ASSUME UNCHANGED state PROVE state' \in [Nodes -> SoundState]
  BY <1>1, <1>2
<1>3. ASSUME NEW n \in Nodes, state' = [state EXCEPT ![n] = NoState] PROVE state' \in [Nodes -> SoundState]
  BY <1>1, <1>3, NoStateSound
<1>4. ASSUME NEW u \in Uuids, NEW item \in Items \cup {None}, NEW m, OwnerChanges(u, item, m)
      PROVE  state' \in [Nodes -> SoundState]
  <2>1. Owner \in Nodes
    BY DEF Nodes
  <2>. QED  BY <1>1, <1>4, <2>1, ChangedKeeps DEF OwnerChanges
<1>5. CASE OwnerStep
  <2>1. FirstItem \in Items
    BY PeersAssumption
  <2>2. CASE \E u \in Uuids : OrderCreated(u, FirstItem) \/ OrderCancelled(u)
    BY <1>4, <2>1, <2>2 DEF OrderCreated, OrderCancelled
  <2>3. CASE \E u \in Uuids, item \in Items : OrderUpdated(u, item)
    BY <1>4, <2>3 DEF OrderUpdated
  <2>4. CASE Stop
    BY ZenonT(30), <1>3, <2>4 DEF Stop, Nodes
  <2>5. CASE KeepAlive
    BY <1>2, <2>5 DEF KeepAlive
  <2>. QED  BY <1>5, <2>2, <2>3, <2>4, <2>5 DEF OwnerStep
<1>6. ASSUME NEW p \in Peers, NEW m \in inbox[p], ProcessMsg(p, m)
      PROVE  state' \in [Nodes -> SoundState]
  <2>. DEFINE item == IF m.type = "cancelled" THEN None ELSE m.item
  <2>1. m \in Message /\ p \in Nodes
    BY <1>1 DEF Nodes
  <2>2. m.uuid \in Uuids /\ item \in Items \cup {None}
    BY <2>1 DEF Message
  <2>3. \/ UNCHANGED state
        \/ \E s \in Aging(state[p]) : Becomes(p, Change(s, m.uuid, item))
    BY <1>6 DEF ProcessMsg
  <2>. HIDE DEF item
  <2>4. ASSUME NEW s \in Aging(state[p]), Becomes(p, Change(s, m.uuid, item))
        PROVE  state' \in [Nodes -> SoundState]
    BY <1>1, <2>1, <2>2, <2>4, ChangedKeeps
  <2>. QED  BY <1>2, <2>3, <2>4
<1>7. ASSUME NEW p \in Peers, PeerStep(p)
      PROVE  state' \in [Nodes -> SoundState]
  <2>1. CASE LoseKeepAlive(p) \/ ProcessKeepAlive(p) \/ ProcessSync(p) \/ Subscribe(p) \/ AnswerFill(p)
    BY <1>2, <2>1 DEF LoseKeepAlive, ProcessKeepAlive, ProcessSync, Subscribe, AnswerFill
  <2>2. CASE PubkeyTimesOut(p)
    BY ZenonT(30), <1>3, <2>2 DEF PubkeyTimesOut, Nodes
  <2>3. CASE ApplySync(p)
    BY <2>3, ApplySyncTakes
  <2>4. CASE ApplyFill(p)
    BY <2>4, ApplyFillTakes
  <2>. QED  BY <1>6, <1>7, <2>1, <2>2, <2>3, <2>4 DEF PeerStep
<1>8. CASE UNCHANGED vars
  BY <1>2, <1>8 DEF vars
<1>. QED  BY <1>5, <1>7, <1>8 DEF Next

\* from_history answers with a delta or with all orders.
LEMMA FromHistoryType ==
  ASSUME NEW s \in SoundState, NEW root \in Root
  PROVE  FromHistory(s, root) \in Answer
<1>1. s \in State /\ s.diffs \in SUBSET Diff /\ s.orders \in Orders /\ Cardinality(s.diffs) \in Nat
  BY FS_CardinalityType DEF SoundState, State
<1>2. Walk(s.diffs, root, Cardinality(s.diffs)).delta \in Deltas
  BY <1>1, WalkPatches DEF SoundState, Place
<1>3. \/ FromHistory(s, root) = [type |-> "delta", delta |-> Walk(s.diffs, root, Cardinality(s.diffs)).delta]
      \/ FromHistory(s, root) = [type |-> "full", orders |-> s.orders]
  BY DEF FromHistory
<1>. QED  BY <1>1, <1>2, <1>3 DEF Answer, Deltas

\* A message that is passed on reaches only inboxes.
LEMMA PassOnType ==
  ASSUME inbox \in [Peers -> SUBSET Message], NEW n, NEW m \in Message
  PROVE  PassOn(n, m) \in [Peers -> SUBSET Message]
BY DEF PassOn

\* So does a keep-alive.
LEMMA ForwardedType ==
  ASSUME keep \in [Peers -> Root \cup {Idle}], NEW p, NEW root \in Root
  PROVE  Forwarded(p, root) \in [Peers -> Root \cup {Idle}]
BY DEF Forwarded

\* Losses are counted up to their bound.
LEMMA LossType ==
  ASSUME losses \in 0 .. MaxLosses, NEW some, Lost(some)
  PROVE  losses' \in 0 .. MaxLosses
BY PeersAssumption DEF Lost, Lose

\* Every step keeps the types of everything but the states.
LEMMA TypesNext ==
  ASSUME SyncInv, [Next]_vars, state' \in [Nodes -> State]
  PROVE  TypeOK'
<1>1. /\ inbox \in [Peers -> SUBSET Message] /\ keep \in [Peers -> Root \cup {Idle}] /\ sync \in [Peers -> Sync]
      /\ fill \in [Peers -> Fill] /\ missed \in [Peers -> 0 .. MaxMissed] /\ ops \in 0 .. MaxOps
      /\ losses \in 0 .. MaxLosses /\ stopped \in BOOLEAN
  BY DEF SyncInv, TypeOK
<1>2. /\ MaxMissed \in Nat /\ MaxOps \in Nat /\ MaxLosses \in Nat /\ FirstItem \in Items
      /\ \A p \in Peers : From[p] \in Nodes
  BY PeersAssumption DEF Nodes
<1>3. Idle \in Sync /\ \A p \in Peers : state[p] \in SoundState /\ state[From[p]] \in SoundState
  BY <1>2 DEF Sync, SyncInv, Nodes
<1>4. state[Owner] \in SoundState /\ \A s \in SoundState : s.orders \in Orders /\ RootOf(s) \in Root
  BY DEF SyncInv, Nodes, SoundState, State, RootOf, Root
<1>5. ASSUME NEW u, NEW item, NEW m \in Message, OwnerChanges(u, item, m)
      PROVE  TypeOK'
  <2>1. inbox' \in [Peers -> SUBSET Message]
    BY <1>1, <1>5, PassOnType DEF OwnerChanges
  <2>2. losses' \in 0 .. MaxLosses
    BY <1>1, <1>5, LossType DEF OwnerChanges
  <2>3. ops' \in 0 .. MaxOps
    BY SMTT(60), <1>1, <1>2, <1>5 DEF OwnerChanges
  <2>. QED  BY <1>1, <1>5, <2>1, <2>2, <2>3 DEF OwnerChanges, TypeOK
<1>6. ASSUME NEW u \in Uuids, OrderCreated(u, FirstItem) \/ OrderCancelled(u)
      PROVE  TypeOK'
  <2>1. /\ [type |-> "created", uuid |-> u, item |-> FirstItem] \in Message
        /\ [type |-> "cancelled", uuid |-> u] \in Message
    BY <1>2 DEF Message
  <2>. QED  BY SMTT(60), <1>5, <1>6, <2>1 DEF OrderCreated, OrderCancelled
<1>7. ASSUME NEW u \in Uuids, NEW item \in Items, OrderUpdated(u, item)
      PROVE  TypeOK'
  <2>1. [type |-> "updated", uuid |-> u, item |-> item] \in Message
    BY DEF Message
  <2>. QED  BY SMTT(60), <1>5, <1>7, <2>1 DEF OrderUpdated
<1>8. CASE Stop
  <2>1. missed' \in [Peers -> 0 .. MaxMissed] /\ ops' \in 0 .. MaxOps
    BY <1>2, <1>8 DEF Stop
  <2>. QED  BY <1>1, <1>8, <2>1 DEF Stop, TypeOK
<1>9. CASE KeepAlive
  <2>1. missed' \in [Peers -> 0 .. MaxMissed]
    BY <1>1, <1>2, <1>9 DEF KeepAlive
  <2>2. keep' \in [Peers -> Root \cup {Idle}]
    BY SMTT(60), <1>4, <1>9 DEF KeepAlive
  <2>. QED  BY <1>1, <1>9, <2>1, <2>2 DEF KeepAlive, TypeOK
<1>10. ASSUME NEW p \in Peers, NEW m \in inbox[p], ProcessMsg(p, m)
       PROVE  TypeOK'
  <2>1. m \in Message /\ PassOn(p, m) \in [Peers -> SUBSET Message]
    BY SMTT(60), <1>1, PassOnType
  <2>2. inbox' \in [Peers -> SUBSET Message]
    BY SMTT(60), <1>1, <1>10, <2>1 DEF ProcessMsg
  <2>3. losses' \in 0 .. MaxLosses
    BY <1>1, <1>10, LossType DEF ProcessMsg
  <2>. QED  BY <1>1, <1>10, <2>2, <2>3 DEF ProcessMsg, TypeOK
<1>11. ASSUME NEW p \in Peers, LoseKeepAlive(p) PROVE TypeOK'
  <2>1. losses' \in 0 .. MaxLosses
    BY <1>1, <1>2, <1>11 DEF LoseKeepAlive, Lose
  <2>. QED  BY <1>1, <1>11, <2>1 DEF LoseKeepAlive, TypeOK
<1>12. ASSUME NEW p \in Peers, ProcessKeepAlive(p) PROVE TypeOK'
  <2>1. keep[p] \in Root
    BY <1>1, <1>12 DEF ProcessKeepAlive
  <2>2. missed' \in [Peers -> 0 .. MaxMissed]
    BY <1>1, <1>2, <1>12 DEF ProcessKeepAlive
  <2>3. keep' \in [Peers -> Root \cup {Idle}]
    BY <1>1, <1>12, <2>1, ForwardedType DEF ProcessKeepAlive
  <2>4. sync' \in [Peers -> Sync]
    <3>1. [op |-> "asked", root |-> keep[p]] \in Sync
      BY <2>1 DEF Sync
    <3>. QED  BY <1>1, <1>12, <3>1 DEF ProcessKeepAlive
  <2>. QED  BY <1>1, <1>12, <2>2, <2>3, <2>4 DEF ProcessKeepAlive, TypeOK
<1>13. ASSUME NEW p \in Peers, ProcessSync(p) PROVE TypeOK'
  <2>1. sync[p].root \in Root
    BY SMTT(60), <1>1, <1>13 DEF ProcessSync, Sync, Idle
  <2>2. [op |-> "answered", root |-> sync[p].root, answer |-> FromHistory(state[From[p]], sync[p].root)] \in Sync
    BY <1>3, <2>1, FromHistoryType DEF Sync
  <2>3. /\ \/ sync' = [sync EXCEPT ![p] = Idle]
           \/ sync' = [sync EXCEPT ![p] = [op |-> "answered", root |-> sync[p].root,
                                           answer |-> FromHistory(state[From[p]], sync[p].root)]]
        /\ UNCHANGED <<inbox, keep, fill, missed, ops, stopped>>
        /\ UNCHANGED losses \/ Lose
    BY <1>1, <1>13 DEF ProcessSync
  <2>4. losses' \in 0 .. MaxLosses
    BY <1>1, <1>2, <2>3 DEF Lose
  <2>5. sync' \in [Peers -> Sync]
    BY SMTT(60), <1>1, <1>3, <2>2, <2>3
  <2>. QED  BY SMTT(60), <1>1, <2>3, <2>4, <2>5 DEF TypeOK
<1>14. ASSUME NEW p \in Peers, ApplySync(p) PROVE TypeOK'
  <2>1. sync[p].root \in Root
    BY <1>1, <1>14 DEF ApplySync, Sync, Idle
  <2>2. keep' \in [Peers -> Root \cup {Idle}] /\ losses' \in 0 .. MaxLosses
    BY SMTT(60), <1>1, <1>14, <2>1, ForwardedType, LossType DEF ApplySync
  <2>3. sync' \in [Peers -> Sync]
    BY SMTT(60), <1>1, <1>3, <1>14 DEF ApplySync
  <2>. QED  BY SMTT(60), <1>1, <1>14, <2>2, <2>3 DEF ApplySync, TypeOK
<1>15. ASSUME NEW p \in Peers, Subscribe(p) \/ AnswerFill(p) \/ ApplyFill(p) PROVE TypeOK'
  <2>1. [op |-> "asked"] \in Fill /\ [op |-> "filled"] \in Fill
    BY DEF Fill
  <2>2. [op |-> "answered", orders |-> state[From[p]].orders] \in Fill
    BY SMTT(60), <1>3, <1>4 DEF Fill
  <2>3. fill' \in [Peers -> Fill]
    BY <1>1, <1>15, <2>1, <2>2 DEF Subscribe, AnswerFill, ApplyFill
  <2>. QED  BY SMTT(60), <1>1, <1>15, <2>3 DEF Subscribe, AnswerFill, ApplyFill, TypeOK
<1>16. ASSUME NEW p \in Peers, PubkeyTimesOut(p) PROVE TypeOK'
  BY <1>1, <1>16 DEF PubkeyTimesOut, TypeOK
<1>17. CASE UNCHANGED vars
  BY <1>1, <1>17 DEF vars, TypeOK
<1>18. CASE OwnerStep
  BY SMTT(60), <1>6, <1>7, <1>8, <1>9, <1>18 DEF OwnerStep
<1>19. ASSUME NEW p \in Peers, PeerStep(p) PROVE TypeOK'
  BY <1>10, <1>11, <1>12, <1>13, <1>14, <1>15, <1>16, <1>19 DEF PeerStep
<1>. QED  BY <1>17, <1>18, <1>19 DEF Next

\* At the start the orders that were announced are known to the owner and the relays, without a
\* history.
LEMMA SyncInit == Init => SyncInv
<1>. SUFFICES ASSUME Init PROVE SyncInv
  OBVIOUS
<1>1. AnnouncedState \in SoundState
  <2>1. AnnouncedState \in State /\ AnnouncedState.diffs = {}
    BY ZenonT(30), PeersAssumption DEF AnnouncedState, NoState, NoOrders, State, Orders
  <2>. QED  BY SMTT(60), <2>1, NoHistory, FS_EmptySet DEF SoundState
<1>2. state \in [Nodes -> SoundState]
  BY <1>1, NoStateSound DEF Init
<1>3. state \in [Nodes -> State]
  BY <1>2 DEF SoundState
<1>4. /\ inbox \in [Peers -> SUBSET Message] /\ keep \in [Peers -> Root \cup {Idle}] /\ sync \in [Peers -> Sync]
      /\ fill \in [Peers -> Fill] /\ missed \in [Peers -> 0 .. MaxMissed] /\ ops \in 0 .. MaxOps
      /\ losses \in 0 .. MaxLosses /\ stopped \in BOOLEAN
  <2>1. \A p \in Peers : [op |-> IF p \in Relays THEN "filled" ELSE "unsubscribed"] \in Fill
    BY DEF Fill
  <2>2. fill \in [Peers -> Fill]
    BY <2>1 DEF Init
  <2>3. sync \in [Peers -> Sync] /\ inbox \in [Peers -> SUBSET Message] /\ keep \in [Peers -> Root \cup {Idle}]
    BY DEF Init, Sync
  <2>4. missed = [p \in Peers |-> 0] /\ ops = 0 /\ losses = 0 /\ stopped = FALSE
    BY DEF Init
  <2>5. 0 \in 0 .. MaxMissed /\ 0 \in 0 .. MaxOps /\ 0 \in 0 .. MaxLosses
    BY PeersAssumption
  <2>. QED  BY ZenonT(30), <2>2, <2>3, <2>4, <2>5
<1>. QED  BY <1>2, <1>3, <1>4 DEF SyncInv, TypeOK

\* The inductive invariant of the synchronisation holds of every run, for any nodes, orders,
\* contents, losses and expiries.
THEOREM SyncInvariance == Spec => []SyncInv
<1>1. SyncInv /\ [Next]_vars => SyncInv'
  <2>. SUFFICES ASSUME SyncInv, [Next]_vars PROVE SyncInv'
    OBVIOUS
  <2>1. state' \in [Nodes -> SoundState]
    BY StatesNext
  <2>2. state' \in [Nodes -> State]
    BY <2>1 DEF SoundState
  <2>. QED  BY <2>1, <2>2, TypesNext DEF SyncInv
<1>. QED  BY SyncInit, <1>1, PTL DEF Spec

\* Every variable of the synchronisation keeps its type: an answer of from_history is a delta of
\* known orders or a full set of them.
THEOREM OrderbookTypes == Spec => []TypeOK
<1>1. SyncInv => TypeOK
  BY DEF SyncInv
<1>. QED  BY <1>1, SyncInvariance, PTL

\* Whatever announcements, keep-alives, answers, losses and expiries do, in whatever order, and
\* however often the owner returns to orders it had before, insert_new_diff leaves no diff that leads
\* elsewhere than it says and no diffs that form a circle.
THEOREM HistoriesSound == Spec => []HistorySound
<1>1. SyncInv => HistorySound
  BY DEF SyncInv, HistorySound, SoundState
<1>. QED  BY <1>1, SyncInvariance, PTL

\* The delta that from_history makes of the history leads from the root it was asked about to the
\* orders of the node.
THEOREM DeltasLeadHome == Spec => []DeltaLeadsHome
<1>1. SyncInv => DeltaLeadsHome
  <2>. SUFFICES ASSUME SyncInv, NEW n \in Nodes, NEW d \in state[n].diffs,
                       FromHistory(state[n], d.from).type = "delta"
                PROVE  Patched(d.from.orders, FromHistory(state[n], d.from).delta) = state[n].orders
    BY DEF DeltaLeadsHome
  <2>1. PICK s \in SoundState : s = state[n]
    BY DEF SyncInv
  <2>2. s.diffs \in SUBSET Diff /\ SoundHistory(s.diffs) /\ Cardinality(s.diffs) \in Nat /\ d.from \in Root
    BY <2>1, FS_CardinalityType DEF SoundState, State, Diff
  <2>3. PICK end : end = Walk(s.diffs, d.from, Cardinality(s.diffs))
    OBVIOUS
  <2>4. end.root = RootOf(s) /\ FromHistory(s, d.from).delta = end.delta
    BY <2>1, <2>3 DEF FromHistory
  <2>5. Patched(d.from.orders, end.delta) = end.root.orders
    BY <2>2, <2>3, WalkPatches
  <2>. QED  BY <2>1, <2>4, <2>5 DEF RootOf
<1>. QED  BY <1>1, SyncInvariance, PTL

\* The loops along the history end: from any root, after as many turns as the history has diffs,
\* the next root has no diff.
LoopsEnd ==
  \A n \in Nodes, root \in Root :
    ~HasKey(state[n].diffs, Walk(state[n].diffs, root, Cardinality(state[n].diffs)).root)

\* The loops of insert_new_diff and from_history end at every node.
THEOREM HistoryLoopsEnd == Spec => []LoopsEnd
<1>1. SyncInv => LoopsEnd
  <2>1. ASSUME NEW s \in SoundState, NEW root \in Root
        PROVE  ~HasKey(s.diffs, Walk(s.diffs, root, Cardinality(s.diffs)).root)
    <3>1. s.diffs \in SUBSET Diff /\ IsFiniteSet(s.diffs) /\ SoundHistory(s.diffs)
      BY DEF SoundState, State
    <3>. QED  BY <3>1, WalkEnds
  <2>. QED  BY <2>1 DEF SyncInv, LoopsEnd
<1>. QED  BY <1>1, SyncInvariance, PTL

\* A peer that applies an answer has the orders of the answer afterwards: those of the full trie, or
\* its own with the changes of the delta, in whatever order they are inserted and whatever history
\* has expired meanwhile.
AnswersTaken ==
  \A p \in Peers :
    /\ ApplySync(p) => state'[p].orders = IF sync[p].answer.type = "full" THEN sync[p].answer.orders
                                            ELSE Patched(state[p].orders, sync[p].answer.delta)
    /\ ApplyFill(p) /\ fill[p].orders # NoOrders => state'[p].orders = fill[p].orders

\* process_trie_delta, process_pubkey_full_trie and request_and_fill_orderbook take the answer.
THEOREM AnswersAreTaken == Spec => [][AnswersTaken]_vars
<1>1. SyncInv /\ [Next]_vars => [AnswersTaken]_vars
  BY ApplySyncTakes, ApplyFillTakes DEF AnswersTaken
<1>. QED  BY <1>1, SyncInvariance, PTL DEF Spec

=============================================================================
