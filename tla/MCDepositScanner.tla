-------------------------- MODULE MCDepositScanner --------------------------
(***************************************************************************)
(* Instances of DepositScanner for TLC.                                    *)
(***************************************************************************)
EXTENDS DepositScanner, TLC

CONSTANTS a1, a2, s1, s2

Symmetric == Permutations(Scanners) \cup Permutations(Addresses)
=============================================================================
