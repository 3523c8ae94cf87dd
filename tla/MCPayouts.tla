------------------------------ MODULE MCPayouts ------------------------------
(***************************************************************************)
(* Instances of Payouts for TLC.  Retries: two calls ask for the same      *)
(* order, one of them a list.  Twins: a list with two items to the same    *)
(* address and a third to another one.                                     *)
(***************************************************************************)
EXTENDS Payouts

CONSTANTS c1, c2, p1, p2, p3, d1, d2, o1

RetryItems == [c \in Calls |-> IF c = c1 THEN <<p1, p2>> ELSE <<p3>>]
RetryDest  == [i \in Items |-> IF i = p2 THEN d2 ELSE d1]
RetryExt   == [i \in Items |-> IF i = p2 THEN NoExt ELSE o1]

TwinItems == [c \in Calls |-> <<p1, p2, p3>>]
TwinDest  == [i \in Items |-> IF i = p3 THEN d2 ELSE d1]
TwinExt   == [i \in Items |-> NoExt]
=============================================================================
