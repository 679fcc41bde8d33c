--------------------------- MODULE MCOrderMatching ---------------------------
(***************************************************************************)
(* Order matching for TLC: two maker orders at different prices, a buy of  *)
(* which the cheaper order can serve only one, and a sell.                 *)
(***************************************************************************)
EXTENDS OrderMatchingInduction, TLC

CONSTANTS o1, o2, t1, t2, n1, n2

MCAsk == [o \in Makers |-> IF o = o1 THEN [max |-> 3, price |-> <<1, 1>>]
                                     ELSE [max |-> 2, price |-> <<2, 1>>]]

\* Both takers can be served at once, and then nothing is left.
MCWideAsk == [MCAsk EXCEPT ![o1].max = 4]

MCRequest == [t \in Takers |->
  IF t = t1
    THEN [action |-> "Buy", base |-> 2, rel |-> 4, by |-> "Any", among |-> {}, gtc |-> TRUE]
    ELSE [action |-> "Sell", base |-> 2, rel |-> 1, by |-> "Any", among |-> {}, gtc |-> FALSE]]

MCPairs == Makers \X Takers

\* The maker orders are of one node and the taker orders of the other.
MCOwners == {[o \in Orders |-> IF o \in Makers THEN n1 ELSE n2]}

\* One order for two takers, two orders for one, and one that is updated.
MCAgendas == {{o1, t1, t2}, {o1, o2, t1}, {o1, t1, "update"}}

\* For the liveness properties: a match, an order that replaces another
\* and one that is updated.
MCPairAgendas == {{o1, t1}, {o1, o2}, {o1, "update"}}

MCNewAsks == {[max |-> m, price |-> <<2, 1>>] : m \in {1, 4}}
=============================================================================
