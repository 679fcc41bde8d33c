--------------------------- MODULE MCOrderbookSync ---------------------------
(***************************************************************************)
(* Orderbook synchronisation for TLC: the owner, a relay and a node behind *)
(* the relay.                                                              *)
(***************************************************************************)
EXTENDS OrderbookSync, TLC

CONSTANTS relay, node

MCFrom == (relay :> Owner) @@ (node :> relay)
=============================================================================
