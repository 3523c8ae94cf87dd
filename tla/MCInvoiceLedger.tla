-------------------------- MODULE MCInvoiceLedger --------------------------
(***************************************************************************)
(* Instances of InvoiceLedger for TLC: two transactions on two coins, one  *)
(* of them with two outputs to the same invoice.                           *)
(***************************************************************************)
EXTENDS InvoiceLedger, TLC

CONSTANTS i1, i2, x1, x2, r1, r2, btc, eth

T(id, x, i, c, n) == [id |-> id, tx |-> x, inv |-> i, crypto |-> c, coins |-> n]
Q(c, rate, amount) == [crypto |-> c, rate |-> rate, amount |-> amount]

MCTransfers == {T(1, x1, i1, btc, 1), T(2, x2, i1, eth, 1)}
TwoOutputs  == {T(1, x1, i1, btc, 1), T(2, x1, i1, btc, 2),
                T(3, x1, i2, btc, 1), T(4, x2, i2, eth, 1)}

MCRate   == [c \in Cryptos |-> IF c = btc THEN 3 ELSE 2]
MCWallet == [c \in Cryptos |->
               [llimit |-> 90, ulimit |-> IF c = btc THEN 110 ELSE 100,
                confirmations |-> IF c = btc THEN 2 ELSE 1]]
MCQuotes == [i \in Invoices |-> {Q(btc, 4, 4), Q(eth, 2, 5)}]
OneQuote == [i \in Invoices |-> {Q(btc, 3, IF i = i1 THEN 4 ELSE 5)}]

Symmetric == Permutations(Requests)
============================================================================
