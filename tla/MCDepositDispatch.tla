-------------------------- MODULE MCDepositDispatch --------------------------
(***************************************************************************)
(* The instance of DepositDispatch for TLC.                                *)
(***************************************************************************)
EXTENDS DepositDispatch

CONSTANTS e1, e2, w1, w2
=============================================================================
