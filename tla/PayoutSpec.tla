----------------------------- MODULE PayoutSpec -----------------------------
(***************************************************************************)
(* What a payout promises its merchant.  A payout is opened once per       *)
(* order id, it can be paid on the chain at most once and only after it    *)
(* was opened, it succeeds only if it was paid, and success and failure    *)
(* are final.  A failure does not promise that nothing was paid: the       *)
(* answer of the worker may have been lost.                                *)
(***************************************************************************)
CONSTANTS Items, Ext, NoExt

VARIABLES status, paid

SameOrder(i, j) == Ext[i] = Ext[j] /\ Ext[i] # NoExt

PInit == status = [i \in Items |-> "none"] /\ paid = {}

Open(i) ==
  /\ status[i] = "none"
  /\ \A j \in Items : SameOrder(i, j) => status[j] = "none"
  /\ status' = [status EXCEPT ![i] = "IN_PROGRESS"]
  /\ UNCHANGED paid

Pay(i) ==
  /\ status[i] # "none" /\ i \notin paid
  /\ paid' = paid \cup {i}
  /\ UNCHANGED status

Succeed(i) ==
  /\ status[i] = "IN_PROGRESS" /\ i \in paid
  /\ status' = [status EXCEPT ![i] = "SUCCESS"]
  /\ UNCHANGED paid

Fail(S) ==
  /\ \A i \in S : status[i] = "IN_PROGRESS"
  /\ status' = [i \in Items |-> IF i \in S THEN "FAIL" ELSE status[i]]
  /\ UNCHANGED paid

PNext ==
  \/ \E i \in Items : Open(i) \/ Pay(i) \/ Succeed(i)
  \/ \E S \in SUBSET Items : Fail(S)

PSpec == PInit /\ [][PNext]_<<status, paid>>
=============================================================================
