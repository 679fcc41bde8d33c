---------------------------- MODULE SwapPromise ----------------------------
(***************************************************************************)
(* What one swap promises about the two payments, whatever the speed of    *)
(* the parties and however often they crash: each payment is locked once   *)
(* and leaves the lock once; the taker locks only after the maker did; the *)
(* maker payment is spent only after the taker payment was, because only   *)
(* that spend publishes the secret.                                        *)
(***************************************************************************)

VARIABLES maker, taker

States == {"unpaid", "locked", "spent", "returned"}

Init == maker = "unpaid" /\ taker = "unpaid"

LockMaker == maker = "unpaid" /\ maker' = "locked" /\ UNCHANGED taker
LockTaker == taker = "unpaid" /\ maker # "unpaid" /\ taker' = "locked" /\ UNCHANGED maker
SpendTaker == taker = "locked" /\ taker' = "spent" /\ UNCHANGED maker
SpendMaker == maker = "locked" /\ taker = "spent" /\ maker' = "spent" /\ UNCHANGED taker
ReturnTaker == taker = "locked" /\ taker' = "returned" /\ UNCHANGED maker
ReturnMaker == maker = "locked" /\ maker' = "returned" /\ UNCHANGED taker

Next == LockMaker \/ LockTaker \/ SpendTaker \/ SpendMaker \/ ReturnTaker \/ ReturnMaker

Spec == Init /\ [][Next]_<<maker, taker>>

=============================================================================
