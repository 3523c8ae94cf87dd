----------------------------- MODULE MCMerchant -----------------------------
(***************************************************************************)
(* What the main service does for a merchant, for TLC.  The parts share no *)
(* variable, so exploring one while the others rest reaches every state of *)
(* each; "part" says which one a behaviour explores.                       *)
(***************************************************************************)
EXTENDS PaymentRequests, OrderIndex, OrderDetails, Autopayout, DepositPipeline, TLC

CONSTANTS r1, r2, w1, p1, p2, q1, e1, d1, i1, x1, n1, n2, btc

VARIABLE part

Policy(policy, cond, reserve, n) ==
  [payout |-> TRUE, policy |-> policy, cond |-> cond, prespolicy |-> reserve, presamount |-> n]
SomePolicies ==
  { Policy("scheduled", 1, "amount", 1), Policy("scheduled", 1, "percent", 50),
    Policy("limit", 2, "amount", 1),
    [Policy("manual", 0, "disable", 0) EXCEPT !.payout = FALSE] }

(* One event, about a transaction that pays one invoice. *)
MCTxOf == [e \in Events |-> x1]
MCTransfers == {[tx |-> x1, inv |-> i1, crypto |-> btc, coins |-> 1]}
MCQuotes == [i \in Invoices |-> {[crypto |-> btc, rate |-> 2, amount |-> 4]}]
MCRate   == [c \in Cryptos |-> 3]
MCWallet == [c \in Cryptos |-> [llimit |-> 90, ulimit |-> 110, confirmations |-> 1]]

MCInit ==
  /\ part \in {"requests", "index", "details", "autopayout", "deposits"}
  /\ RequestsInit /\ IndexInit /\ DetailsInit /\ AutopayoutInit /\ PipelineInit
  /\ part = "autopayout" \/ ~wallet.payout

MCNext ==
  /\ \/ /\ part = "requests" /\ RequestsNext
        /\ UNCHANGED <<orderVars, detailVars, autopayoutVars, pipelineVars>>
     \/ /\ part = "index" /\ OrdersNext
        /\ UNCHANGED <<requestVars, detailVars, autopayoutVars, pipelineVars>>
     \/ /\ part = "details" /\ DetailsNext
        /\ UNCHANGED <<requestVars, orderVars, autopayoutVars, pipelineVars>>
     \/ /\ part = "autopayout" /\ AutopayoutNext
        /\ UNCHANGED <<requestVars, orderVars, detailVars, pipelineVars>>
     \/ /\ part = "deposits" /\ PipelineNext
        /\ UNCHANGED <<requestVars, orderVars, detailVars, autopayoutVars>>
  /\ UNCHANGED part

MCSpec ==
  MCInit
  /\ [][MCNext]_<<requestVars, orderVars, detailVars, autopayoutVars, pipelineVars, part>>

Symmetric == Permutations(Clients)
=============================================================================
