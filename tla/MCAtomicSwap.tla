---------------------------- MODULE MCAtomicSwap ----------------------------
(***************************************************************************)
(* The swap, its inductive invariant and the recreated records, for TLC.   *)
(* Every constant is a number, a Boolean or a set of payments that a .cfg  *)
(* gives.                                                                  *)
(***************************************************************************)
EXTENDS RecreateSwap
=============================================================================
