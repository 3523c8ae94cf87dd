--------------------------- MODULE InvoiceLedger ---------------------------
(***************************************************************************)
(* How the main service books incoming transfers on invoices.              *)
(*                                                                         *)
(* A wallet notification (apiWalletNotify) or an externally verified       *)
(* transfer (apiVerifiedTransaction) is an HTTP request; requests run      *)
(* concurrently and each of them performs recordConfirmedTransaction       *)
(* statement by statement: it reads the invoice, looks for the transaction *)
(* row, inserts it, and then overwrites the invoice balance with the       *)
(* balance it READ plus the new amount.  No database transaction spans     *)
(* these statements and the invoice row is never locked, so any two        *)
(* requests interleave between them, and a request may fail (database      *)
(* error, cancelled request context, crash) after any of them.             *)
(*                                                                         *)
(* Amounts are natural numbers.  A wallet's limits are percentages.        *)
(***************************************************************************)
EXTENDS Integers, FiniteSets, FiniteSetsExt

CONSTANTS
  Invoices,             \* invoice rows; every one has an issued address
  TxIDs,                \* ids of chain transactions
  Cryptos,              \* coins
  Transfers,            \* outputs of chain transactions to invoice addresses
  Requests,             \* HTTP requests that can be in flight together
  QuotesOf,             \* the quotes a merchant may ask for, per invoice
  MarketRate,           \* fiat price of a coin when it is not the quoted one
  Wallet,               \* per coin: lower and upper limit, confirmations
  Endpoints,            \* the kinds of request that are made
  AnnounceUnconfirmed,  \* cfg.UnconfirmedTXNotification
  FailuresHappen,       \* database errors, cancelled requests and crashes
  MaxDepth              \* bound of the model: deepest confirmation count

Key(t) == [crypto |-> t.crypto, tx |-> t.tx, inv |-> t.inv]
Keys   == {Key(t) : t \in Transfers}
Quote  == [crypto : Cryptos, rate : Nat, amount : Nat]

ASSUME TransfersAssumption ==
  /\ Transfers # {}
  /\ \A t \in Transfers : /\ t.tx \in TxIDs /\ t.inv \in Invoices
                          /\ t.crypto \in Cryptos /\ t.coins \in Nat \ {0}
ASSUME QuotesAssumption ==
  \A i \in Invoices : QuotesOf[i] # {} /\ \A q \in QuotesOf[i] : q \in Quote
ASSUME WalletAssumption ==
  /\ \A c \in Cryptos : /\ Wallet[c].llimit \in Nat
                        /\ Wallet[c].ulimit \in Nat
                        /\ Wallet[c].confirmations \in Nat
                        /\ MarketRate[c] \in Nat
  /\ MaxDepth \in Nat
  /\ Endpoints \subseteq {"notify", "verified", "silent"}
  /\ AnnounceUnconfirmed \in BOOLEAN
  /\ FailuresHappen \in BOOLEAN

Statuses == {"UNPAID", "PARTIAL", "PAID", "OVERPAID"}
Kinds    == {"notify", "verified", "silent"}
Stages   == {"idle", "next", "announce", "check", "insert", "credit",
             "clear", "recorded"}
Findings == {"none", "waiting", "final"}
Row      == [fiat : Nat, needMore : BOOLEAN, told : BOOLEAN]
NoRow    == [fiat |-> 0, needMore |-> TRUE, told |-> FALSE]
Account  == [fiat : Nat, coin : Nat, status : Statuses]
Snapshot == [quote : Quote, fiat : Nat, coin : Nat, status : Statuses,
             counted : SUBSET Keys]

VARIABLES
  quote,        \* invoice.crypto, exchange_rate and amount_fiat
  account,      \* invoice.balance_fiat, balance_crypto and status
  table,        \* keys present in the transaction table (unique key)
  rows,         \* the columns of the rows present
  unconfirmed,  \* keys present in unconfirmed_transaction
  depth,        \* confirmations of a transaction on its chain
  pc, kind,     \* stage and endpoint of a request
  todo, cur,    \* transfers it has yet to handle, and the one at hand
  seen,         \* confirmations it was told at its start
  snap,         \* the invoice as it read it, later with its own update
  found,        \* the row it found in place: none, waiting for blocks, final
  counted,      \* history: the rows a balance is made of
  clean         \* history: no row of the invoice was torn off its balance

tables  == <<quote, account, table, rows, unconfirmed>>
reqVars == <<pc, kind, todo, cur, seen, snap, found>>
history == <<counted, clean>>
vars    == <<tables, depth, reqVars, history>>

----------------------------------------------------------------------------
(* The arithmetic of recordConfirmedTransaction.                           *)

FiatOf(t, q) ==
  IF q.crypto = t.crypto THEN t.coins * q.rate
                         ELSE t.coins * MarketRate[t.crypto]

CoinsOf(t, q) == IF q.crypto = t.crypto THEN t.coins ELSE 0

InvoiceStatus(balance, q) ==
  IF q.amount = 0 THEN "PAID"
  ELSE IF 100 * balance < q.amount * Wallet[q.crypto].llimit THEN "PARTIAL"
  ELSE IF 100 * balance < q.amount * Wallet[q.crypto].ulimit THEN "PAID"
  ELSE "OVERPAID"

RowForQuotedRate(t, q, confirmations) ==
  [fiat     |-> t.coins * q.rate,
   needMore |-> confirmations < Wallet[q.crypto].confirmations,
   told     |-> FALSE]

RowFor(t, q, confirmations) ==
  [fiat     |-> FiatOf(t, q),
   needMore |-> confirmations < Wallet[q.crypto].confirmations,
   told     |-> FALSE]

RowsOf(i) == {k \in table : k.inv = i}
At(stage) == {r \in Requests : pc[r] = stage}

----------------------------------------------------------------------------
AnyTransfer == CHOOSE t \in Transfers : TRUE
AnyQuote    == CHOOSE q \in QuotesOf[AnyTransfer.inv] : TRUE
NewAccount  == [fiat |-> 0, coin |-> 0, status |-> "UNPAID"]
NoSnapshot  == [quote |-> AnyQuote, fiat |-> 0, coin |-> 0,
                status |-> "UNPAID", counted |-> {}]
SnapshotOf(i) == [quote |-> quote[i], fiat |-> account[i].fiat,
                  coin |-> account[i].coin, status |-> account[i].status,
                  counted |-> counted[i]]

Init ==
  /\ quote \in [Invoices -> UNION {QuotesOf[i] : i \in Invoices}]
  /\ \A i \in Invoices : quote[i] \in QuotesOf[i]
  /\ account = [i \in Invoices |-> NewAccount]
  /\ table = {}
  /\ rows = [k \in Keys |-> NoRow]
  /\ unconfirmed = {}
  /\ depth = [x \in TxIDs |-> 0]
  /\ pc = [r \in Requests |-> "idle"]
  /\ kind = [r \in Requests |-> "notify"]
  /\ todo = [r \in Requests |-> {}]
  /\ cur = [r \in Requests |-> AnyTransfer]
  /\ seen = [r \in Requests |-> 0]
  /\ snap = [r \in Requests |-> NoSnapshot]
  /\ found = [r \in Requests |-> "none"]
  /\ counted = [i \in Invoices |-> {}]
  /\ clean = [i \in Invoices |-> TRUE]

Goto(r, stage) == pc' = [pc EXCEPT ![r] = stage]

(* A block on top of the one that holds x: its confirmations grow.         *)
Mine(x) ==
  /\ depth[x] < MaxDepth
  /\ depth' = [depth EXCEPT ![x] = @ + 1]
  /\ UNCHANGED <<tables, reqVars, history>>

(* The merchant asks again for a known order: UpdateInvoicePayment         *)
(* overwrites the quote and leaves balance and status alone.               *)
Requote(i, q) ==
  /\ q # quote[i]
  /\ quote' = [quote EXCEPT ![i] = q]
  /\ UNCHANGED <<account, table, rows, unconfirmed, depth, reqVars, history>>

(* apiWalletNotify: the backend is asked for the transfers of x once, and  *)
(* they are handled one after the other with what it answered.             *)
WalletNotify(r, x) ==
  /\ pc[r] = "idle"
  /\ Goto(r, "next")
  /\ kind' = [kind EXCEPT ![r] = "notify"]
  /\ todo' = [todo EXCEPT ![r] = {t \in Transfers : t.tx = x}]
  /\ seen' = [seen EXCEPT ![r] = depth[x]]
  /\ UNCHANGED <<tables, depth, cur, snap, found, history>>

(* apiVerifiedTransaction: one transfer, with the caller's confirmations;  *)
(* none given means those of the wallet of the transferred coin, and 0 if  *)
(* the wallet cannot be read: the error is ignored.                        *)
VerifiedTransaction(r, t, confirmations, k) ==
  /\ pc[r] = "idle"
  /\ Goto(r, "next")
  /\ kind' = [kind EXCEPT ![r] = k]
  /\ todo' = [todo EXCEPT ![r] = {t}]
  /\ \/ seen' = [seen EXCEPT ![r] =
                   IF confirmations = 0 THEN Wallet[t.crypto].confirmations
                                        ELSE confirmations]
     \/ /\ FailuresHappen /\ confirmations = 0
        /\ seen' = [seen EXCEPT ![r] = 0]
  /\ UNCHANGED <<tables, depth, cur, snap, found, history>>

Unseen(r) == kind[r] = "notify" /\ seen[r] = 0

(* A transfer seen without confirmations only enters the unconfirmed       *)
(* table; an already present row is not an error.                          *)
SeeUnconfirmed(r, t) ==
  /\ pc[r] = "next" /\ t \in todo[r] /\ Unseen(r)
  /\ cur' = [cur EXCEPT ![r] = t]
  /\ snap' = [snap EXCEPT ![r] = SnapshotOf(t.inv)]
  /\ found' = [found EXCEPT ![r] =
                 IF Key(t) \in unconfirmed THEN "waiting" ELSE "none"]
  /\ unconfirmed' = IF AnnounceUnconfirmed THEN unconfirmed \cup {Key(t)}
                                           ELSE unconfirmed
  /\ Goto(r, "announce")
  /\ UNCHANGED <<quote, account, table, rows, depth, kind, todo, seen,
                 history>>

(* 70: InvoiceByCryptoAddress.                                             *)
ReadInvoice(r, t) ==
  /\ pc[r] = "next" /\ t \in todo[r] /\ ~Unseen(r)
  /\ cur' = [cur EXCEPT ![r] = t]
  /\ snap' = [snap EXCEPT ![r] = SnapshotOf(t.inv)]
  /\ Goto(r, "check")
  /\ UNCHANGED <<tables, depth, kind, todo, seen, found, history>>

FindingOf(k) ==
  IF k \notin table THEN "none"
  ELSE IF rows[k].needMore THEN "waiting" ELSE "final"

CheckExistingUnconfirmed(r) ==
  /\ pc[r] = "check"
  /\ found' = [found EXCEPT ![r] = FindingOf(Key(cur[r]))]
  /\ Goto(r, IF Key(cur[r]) \in table \cup unconfirmed THEN "recorded" ELSE "insert")
  /\ UNCHANGED <<tables, depth, kind, todo, cur, seen, snap, history>>

(* 77: ExistingTransaction; a row that is there ends the work.             *)
CheckExisting(r) ==
  /\ pc[r] = "check"
  /\ found' = [found EXCEPT ![r] = FindingOf(Key(cur[r]))]
  /\ Goto(r, IF Key(cur[r]) \in table THEN "recorded" ELSE "insert")
  /\ UNCHANGED <<tables, depth, kind, todo, cur, seen, snap, history>>

InsertRowWhen(r, fresh, row, stage) ==
  /\ pc[r] = "insert"
  /\ found' = [found EXCEPT ![r] = FindingOf(Key(cur[r]))]
  /\ table' = table \cup {Key(cur[r])}
  /\ rows' = IF fresh THEN [rows EXCEPT ![Key(cur[r])] = row] ELSE rows
  /\ Goto(r, IF fresh THEN stage ELSE "recorded")
  /\ UNCHANGED <<quote, account, unconfirmed, depth, kind, todo, cur, seen,
                 snap, history>>

InsertRowNoUniqueKey(r) ==
  InsertRowWhen(r, TRUE, RowFor(cur[r], snap[r].quote, seen[r]), "credit")

InsertRowDefersCredit(r) ==
  LET row == RowFor(cur[r], snap[r].quote, seen[r])
  IN  InsertRowWhen(r, Key(cur[r]) \notin table, row,
                    IF row.needMore THEN "clear" ELSE "credit")

(* 110: AddTransaction; the unique key turns the loser of a race into a    *)
(* duplicate.                                                              *)
InsertRow(r) ==
  /\ pc[r] = "insert"
  /\ found' = [found EXCEPT ![r] = FindingOf(Key(cur[r]))]
  /\ IF Key(cur[r]) \in table
       THEN /\ Goto(r, "recorded")
            /\ UNCHANGED <<table, rows>>
       ELSE /\ table' = table \cup {Key(cur[r])}
            /\ rows' = [rows EXCEPT ![Key(cur[r])] =
                          RowFor(cur[r], snap[r].quote, seen[r])]
            /\ Goto(r, "credit")
  /\ UNCHANGED <<quote, account, unconfirmed, depth, kind, todo, cur, seen,
                 snap, history>>

CreditedWith(r, old, q, status, keys) ==
  [quote   |-> snap[r].quote,
   fiat    |-> old + FiatOf(cur[r], q),
   coin    |-> snap[r].coin + CoinsOf(cur[r], q),
   status  |-> status,
   counted |-> keys \cup {Key(cur[r])}]

CreditedNothing(r) ==
  CreditedWith(r, -2 * FiatOf(cur[r], snap[r].quote), snap[r].quote, "PARTIAL",
               snap[r].counted)

CreditedStaleStatus(r) ==
  CreditedWith(r, snap[r].fiat, snap[r].quote,
               InvoiceStatus(snap[r].fiat, snap[r].quote), snap[r].counted)

CreditedAtCurrentQuote(r) ==
  CreditedWith(r, snap[r].fiat, quote[cur[r].inv], snap[r].status, snap[r].counted)

(* What the request now believes the invoice to be (117-129).              *)
Credited(r) ==
  LET fiat == snap[r].fiat + FiatOf(cur[r], snap[r].quote)
  IN  [quote   |-> snap[r].quote,
       fiat    |-> fiat,
       coin    |-> snap[r].coin + CoinsOf(cur[r], snap[r].quote),
       status  |-> InvoiceStatus(fiat, snap[r].quote),
       counted |-> snap[r].counted \cup {Key(cur[r])}]

(* 123: UpdateInvoiceBalance writes absolute values.  Rows that were       *)
(* counted since the invoice was read drop out of the balance: the history *)
(* remembers that the invoice is no longer clean.                          *)
Credit(r) ==
  LET i == cur[r].inv
      c == Credited(r)
  IN  /\ pc[r] = "credit"
      /\ account' = [account EXCEPT ![i] =
                       [fiat |-> c.fiat, coin |-> c.coin, status |-> c.status]]
      /\ snap' = [snap EXCEPT ![r] = c]
      /\ counted' = [counted EXCEPT ![i] = c.counted]
      /\ clean' = [clean EXCEPT ![i] = @ /\ counted[i] = snap[r].counted]
      /\ Goto(r, "clear")
      /\ UNCHANGED <<quote, table, rows, unconfirmed, depth, kind, todo, cur,
                     seen, found>>

(* 126: DeleteUnconfirmed, of the transaction's rows of every invoice; its *)
(* error is ignored.                                                       *)
ClearUnconfirmed(r) ==
  /\ pc[r] = "clear"
  /\ \/ unconfirmed' = {k \in unconfirmed :
                          k.crypto # cur[r].crypto \/ k.tx # cur[r].tx}
     \/ FailuresHappen /\ unconfirmed' = unconfirmed
  /\ Goto(r, "recorded")
  /\ UNCHANGED <<quote, account, table, rows, depth, kind, todo, cur, seen,
                 snap, found, history>>

(* The request is through with the transfer at hand.                       *)
Finish(r) ==
  /\ Goto(r, "next")
  /\ todo' = [todo EXCEPT ![r] = @ \ {cur[r]}]
  /\ snap' = [snap EXCEPT ![r] = NoSnapshot]
  /\ found' = [found EXCEPT ![r] = "none"]
  /\ UNCHANGED <<kind, cur, seen>>

Return(r) ==
  /\ pc[r] \in {"announce", "recorded"}
  /\ Finish(r)
  /\ UNCHANGED <<tables, depth, history>>

(* The answer is written; the locals of the request are gone.              *)
Reply(r) ==
  /\ pc[r] = "next" /\ todo[r] = {}
  /\ Goto(r, "idle")
  /\ kind' = [kind EXCEPT ![r] = "notify"]
  /\ cur' = [cur EXCEPT ![r] = AnyTransfer]
  /\ seen' = [seen EXCEPT ![r] = 0]
  /\ UNCHANGED <<tables, depth, todo, snap, found, history>>

(* The invoice cannot be read: the transfer is skipped.                    *)
Skip(r, t) ==
  /\ FailuresHappen
  /\ pc[r] = "next" /\ t \in todo[r]
  /\ todo' = [todo EXCEPT ![r] = @ \ {t}]
  /\ UNCHANGED <<tables, depth, pc, kind, cur, seen, snap, found, history>>

(* A statement fails and recordConfirmedTransaction returns the error: the *)
(* transfer is skipped.  A row inserted but not credited stays behind.     *)
Fail(r) ==
  /\ FailuresHappen
  /\ pc[r] \in {"check", "insert", "credit", "clear"}
  /\ Finish(r)
  /\ clean' = IF pc[r] = "credit" THEN [clean EXCEPT ![cur[r].inv] = FALSE]
                                  ELSE clean
  /\ UNCHANGED <<tables, depth, counted>>

(* The service stops and starts again: every request is gone.              *)
Crash ==
  /\ FailuresHappen
  /\ pc' = [r \in Requests |-> "idle"]
  /\ kind' = [r \in Requests |-> "notify"]
  /\ todo' = [r \in Requests |-> {}]
  /\ cur' = [r \in Requests |-> AnyTransfer]
  /\ seen' = [r \in Requests |-> 0]
  /\ snap' = [r \in Requests |-> NoSnapshot]
  /\ found' = [r \in Requests |-> "none"]
  /\ clean' = [i \in Invoices |->
                 clean[i] /\ \A r \in At("credit") : cur[r].inv # i]
  /\ UNCHANGED <<tables, depth, counted>>

Start(r) ==
  \/ "notify" \in Endpoints /\ \E x \in TxIDs : WalletNotify(r, x)
  \/ \E t \in Transfers, k \in Endpoints \ {"notify"}, n \in 0 .. MaxDepth :
       VerifiedTransaction(r, t, n, k)

Book(r) ==
  \/ \E t \in todo[r] : ReadInvoice(r, t)
  \/ CheckExisting(r)
  \/ InsertRow(r)
  \/ Credit(r)
  \/ ClearUnconfirmed(r)

Break(r) == Fail(r) \/ \E t \in todo[r] : Skip(r, t)

Proceed(r) ==
  \/ \E t \in todo[r] : SeeUnconfirmed(r, t)
  \/ Book(r)
  \/ Return(r)
  \/ Reply(r)

Next ==
  \/ \E x \in TxIDs : Mine(x)
  \/ \E i \in Invoices : \E q \in QuotesOf[i] : Requote(i, q)
  \/ \E r \in Requests : Start(r) \/ Proceed(r) \/ Break(r)
  \/ Crash

Spec     == Init /\ [][Next]_vars
FairSpec == Spec /\ \A r \in Requests : WF_vars(Proceed(r))

----------------------------------------------------------------------------
(* Every column and every local of a request has its type.                 *)
TypeOK ==
  /\ quote \in [Invoices -> Quote]
  /\ account \in [Invoices -> Account]
  /\ table \subseteq Keys
  /\ rows \in [Keys -> Row]
  /\ unconfirmed \subseteq Keys
  /\ depth \in [TxIDs -> Nat]
  /\ pc \in [Requests -> Stages]
  /\ kind \in [Requests -> Kinds]
  /\ todo \in [Requests -> SUBSET Transfers]
  /\ cur \in [Requests -> Transfers]
  /\ seen \in [Requests -> Nat]
  /\ snap \in [Requests -> Snapshot]
  /\ found \in [Requests -> Findings]
  /\ counted \in [Invoices -> SUBSET Keys]
  /\ clean \in [Invoices -> BOOLEAN]

(* A transfer is never added twice: whoever is about to credit one finds   *)
(* it neither in the balance stored nor in the balance it read, and nobody *)
(* else is about to credit it, however often it is notified.               *)
NeverCreditedTwice ==
  \A r \in At("credit") :
    /\ Key(cur[r]) \notin counted[cur[r].inv]
    /\ Key(cur[r]) \notin snap[r].counted
    /\ \A s \in At("credit") : Key(cur[s]) = Key(cur[r]) => s = r

(* A balance is made of recorded rows of its own invoice only.             *)
BalanceIsBacked == \A i \in Invoices : counted[i] \subseteq RowsOf(i)

(* Unless a request stopped between inserting a row and crediting it, or   *)
(* overwrote a balance that had moved since it read it, the balance is     *)
(* made of every row of the invoice but those being credited right now.    *)
BalanceIsComplete ==
  \A i \in Invoices :
    clean[i] => RowsOf(i) \subseteq counted[i] \cup {Key(cur[r]) : r \in At("credit")}

(* A stored status other than UNPAID is the one the limits give for the    *)
(* stored balance under a quote the invoice has had; UNPAID means that     *)
(* nothing was credited yet.                                               *)
StatusFollowsBalance ==
  \A i \in Invoices :
    IF counted[i] = {} THEN account[i] = NewAccount
    ELSE \E q \in QuotesOf[i] :
           account[i].status = InvoiceStatus(account[i].fiat, q)

(* What rows K say together.                                               *)
Sum(K) == MapThenSumSet(LAMBDA k : rows[k].fiat, K)

(* The balance of an invoice is, to the last unit, the sum of the recorded *)
(* amounts of the rows it is made of.                                      *)
BalanceIsSum == \A i \in Invoices : account[i].fiat = Sum(counted[i])

(* With requests one after the other and nothing failing, every recorded   *)
(* row is in the balance as soon as no request runs.                       *)
SerialBalanceIsExact ==
  (\A r \in Requests : pc[r] = "idle") =>
    \A i \in Invoices : account[i].fiat = Sum(RowsOf(i))

(* Recorded rows are kept for ever and their amounts never change.         *)
RowsArePermanent ==
  [][\A k \in table : k \in table' /\ rows'[k].fiat = rows[k].fiat]_vars

(* The outputs that share a row with t: the key has no output number.      *)
OutputsInRowOf(t) == {u \in Transfers : Key(u) = Key(t)}

(* While nothing fails, every confirmed transfer a request was told of is  *)
(* credited: its row is part of the balance, with the worth of this very   *)
(* transfer at a quote of the invoice.  The one exception is a transaction *)
(* that pays the invoice with several outputs: they share a row, which     *)
(* holds the worth of one of them, and the others are taken for it.        *)
NotifiedIsCredited ==
  \A r \in Requests, t \in Transfers :
    (t \in todo[r] /\ ~Unseen(r)) ~>
      /\ Key(t) \in counted[t.inv]
      /\ \E u \in OutputsInRowOf(t), q \in QuotesOf[t.inv] :
           rows[Key(t)].fiat = FiatOf(u, q)
=============================================================================
