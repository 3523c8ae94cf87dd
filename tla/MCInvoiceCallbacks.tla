------------------------- MODULE MCInvoiceCallbacks -------------------------
(***************************************************************************)
(* Instances of InvoiceCallbacks for TLC.                                  *)
(***************************************************************************)
EXTENDS InvoiceCallbacks, TLC

CONSTANTS i1, i2, x1, x2, r1, r2, btc

T(id, x, i, n) == [id |-> id, tx |-> x, inv |-> i, crypto |-> btc, coins |-> n]

OneTransfer == {T(1, x1, i1, 1)}
OneInvoice  == {T(1, x1, i1, 1), T(2, x2, i1, 1)}
TwoInvoices == {T(1, x1, i1, 1), T(2, x2, i2, 1)}

MCRate   == [c \in Cryptos |-> 3]
MCWallet == [c \in Cryptos |-> [llimit |-> 90, ulimit |-> 110, confirmations |-> 2]]
OneQuote == [i \in Invoices |-> {[crypto |-> btc, rate |-> 3, amount |-> 6]}]
Requoted == [i \in Invoices |-> {[crypto |-> btc, rate |-> 3, amount |-> n] : n \in {3, 6}}]

Symmetric == Permutations(Requests)
=============================================================================
