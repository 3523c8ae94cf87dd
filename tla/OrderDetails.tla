---------------------------- MODULE OrderDetails ----------------------------
(***************************************************************************)
(* What /api/v1/orders/{external_id} and the lists of invoices show.  They *)
(* are put together from one query per table, without a transaction, while *)
(* payments are recorded and a payout is settled statement by statement.   *)
(* One invoice and one payout of the order.                                *)
(***************************************************************************)
EXTENDS Naturals, Sequences

CONSTANTS Payments, Readers

VARIABLES
  pending,      \* rows of unconfirmed_transaction
  recorded,     \* rows of transaction
  credited,     \* rows the invoice's balance contains
  payout,       \* status and payout_tx: IN_PROGRESS, SENT (with a tx) or SUCCESS
  view          \* per reader: the number of queries made and what they showed

detailVars == <<pending, recorded, credited, payout, view>>

DetailsBefore == <<"transactions", "unconfirmed", "payout_txs", "invoices", "payouts">>
QueryOrder    == <<"invoices", "transactions", "unconfirmed", "payouts", "payout_txs">>

DetailsInit ==
  /\ pending = {} /\ recorded = {} /\ credited = {} /\ payout = "IN_PROGRESS"
  /\ view = [r \in Readers |->
               [queries |-> 0, shown |-> [i \in 1..Len(QueryOrder) |-> {}]]]

(* The statements a payment is recorded with: AddUnconfirmed, then         *)
(* AddTransaction, UpdateInvoiceBalance and DeleteUnconfirmed.             *)
Pay(x) ==
  /\ \/ /\ x \notin recorded
        /\ \/ pending' = pending \cup {x} /\ UNCHANGED recorded
           \/ recorded' = recorded \cup {x} /\ UNCHANGED pending
        /\ UNCHANGED credited
     \/ x \in recorded \ credited /\ credited' = credited \cup {x} /\ UNCHANGED <<pending, recorded>>
     \/ x \in credited \cap pending /\ pending' = pending \ {x} /\ UNCHANGED <<recorded, credited>>
  /\ UNCHANGED <<payout, view>>

(* AddPayoutTx, and later CompletePayoutSuccess.                           *)
Settle ==
  /\ \/ payout = "IN_PROGRESS" /\ payout' = "SENT"
     \/ payout = "SENT" /\ payout' = "SUCCESS"
  /\ UNCHANGED <<pending, recorded, credited, view>>

(* One query each. *)
InvoicesByExternalIDs == credited
InvoiceTransactionsByInvoiceIDs == recorded
InvoiceUnconfirmedTransactionsByInvoiceIDs == pending
PayoutsByExternalIDs == {payout}
PayoutTxsByPayoutIDs == IF payout = "IN_PROGRESS" THEN {} ELSE {"txid"}

Rows(table) ==
  CASE table = "invoices"     -> InvoicesByExternalIDs
    [] table = "transactions" -> InvoiceTransactionsByInvoiceIDs
    [] table = "unconfirmed"  -> InvoiceUnconfirmedTransactionsByInvoiceIDs
    [] table = "payouts"      -> PayoutsByExternalIDs
    [] table = "payout_txs"   -> PayoutTxsByPayoutIDs

(* GetOrder and ListOrdersPage: invoices, their details, payouts, theirs.  *)
Query(r) ==
  /\ view[r].queries < Len(QueryOrder)
  /\ LET n == view[r].queries + 1 IN
       view' = [view EXCEPT ![r].queries = n, ![r].shown[n] = Rows(QueryOrder[n])]
  /\ UNCHANGED <<pending, recorded, credited, payout>>

DetailsNext ==
  \/ \E x \in Payments : Pay(x)
  \/ Settle
  \/ \E r \in Readers : Query(r)

DetailsSpec == DetailsInit /\ [][DetailsNext]_detailVars

Shown(r, table) ==
  LET n == CHOOSE k \in DOMAIN QueryOrder : QueryOrder[k] = table IN view[r].shown[n]

(* A finished answer explains itself: every payment in the balance it      *)
(* shows is among the transactions it shows, and a payout it shows as a    *)
(* success comes with a transaction.  (InvoiceDetails, PayoutsByExternalIDs*)
(* against the order of the writes in recordConfirmedTransaction)          *)
AnswersExplainThemselves ==
  \A r \in Readers : view[r].queries = Len(QueryOrder) =>
    /\ Shown(r, "invoices") \subseteq Shown(r, "transactions")
    /\ "SUCCESS" \in Shown(r, "payouts") => Shown(r, "payout_txs") # {}
=============================================================================
