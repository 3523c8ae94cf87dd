------------------------- MODULE InvoiceLedger_proof ------------------------
(***************************************************************************)
(* What InvoiceLedger guarantees for any set of invoices, transfers and    *)
(* concurrent requests, with failures and crashes: a transfer is never     *)
(* added twice to a balance, a balance is made of recorded rows only, and  *)
(* of all of them unless a row was torn off; and it is the sum of what     *)
(* they say, to the last unit.                                             *)
(***************************************************************************)
EXTENDS InvoiceLedger, SumTheorems

Booking == {"check", "insert", "credit"}

(* The balance a request read was backed by rows, and rows are permanent.  *)
SnapshotsAreBacked ==
  \A r \in Requests :
    pc[r] \in Booking => snap[r].counted \subseteq RowsOf(cur[r].inv)

(* A row about to be credited is in no balance, stored or read, and only   *)
(* the request that inserted it can credit it.                             *)
PendingIsFresh ==
  \A r \in Requests : pc[r] = "credit" =>
    /\ Key(cur[r]) \in table
    /\ \A i \in Invoices : Key(cur[r]) \notin counted[i]
    /\ \A s \in Requests :
         /\ pc[s] \in Booking => Key(cur[r]) \notin snap[s].counted
         /\ pc[s] = "credit" /\ Key(cur[s]) = Key(cur[r]) => s = r

-----------------------------------------------------------------------------
(* The operators return values of their types.                             *)

(* The row of a transfer is one of the table.                              *)
LEMMA KeyType ==
  ASSUME NEW t \in Transfers
  PROVE  /\ Key(t) \in Keys /\ Key(t).inv = t.inv /\ t.inv \in Invoices
         /\ t.tx \in TxIDs /\ t.crypto \in Cryptos
  BY TransfersAssumption DEF Key, Keys

(* Amounts are natural numbers.                                            *)
LEMMA FiatType ==
  ASSUME NEW t \in Transfers, NEW q \in Quote
  PROVE  FiatOf(t, q) \in Nat /\ CoinsOf(t, q) \in Nat
<1>1. t.coins \in Nat /\ q.rate \in Nat /\ MarketRate[t.crypto] \in Nat
  BY TransfersAssumption, WalletAssumption DEF Quote
<1>2. \A m, n \in Nat : m * n \in Nat
  OBVIOUS
<1> QED BY <1>1, <1>2 DEF FiatOf, CoinsOf

(* The row of a transfer is a row.                                         *)
LEMMA RowType ==
  ASSUME NEW t \in Transfers, NEW q \in Quote, NEW n \in Nat
  PROVE  RowFor(t, q, n) \in Row
  BY FiatType DEF RowFor, Row

(* invoiceStatus returns one of the invoice statuses.                      *)
LEMMA StatusType ==
  ASSUME NEW n \in Nat, NEW q \in Quote
  PROVE  InvoiceStatus(n, q) \in Statuses
  BY DEF InvoiceStatus, Statuses

(* The initial values have their types.                                    *)
LEMMA DefaultTypes ==
  /\ AnyTransfer \in Transfers
  /\ NoSnapshot \in Snapshot
  /\ NoSnapshot.counted = {}
  /\ NewAccount \in Account
  /\ NoRow \in Row
<1>1. AnyTransfer \in Transfers
  BY TransfersAssumption DEF AnyTransfer
<1>2. AnyQuote \in Quote
  BY <1>1, TransfersAssumption, QuotesAssumption DEF AnyQuote
<1> QED
  BY <1>1, <1>2 DEF NoSnapshot, Snapshot, NewAccount, Account, NoRow, Row, Statuses

(* What a request reads of an invoice has its type.                        *)
LEMMA SnapshotType ==
  ASSUME TypeOK, NEW i \in Invoices
  PROVE  SnapshotOf(i) \in Snapshot /\ SnapshotOf(i).counted = counted[i]
  BY DEF TypeOK, SnapshotOf, Snapshot, Account

(* What a request writes to an invoice has its type.                       *)
LEMMA CreditedType ==
  ASSUME TypeOK, NEW r \in Requests
  PROVE  /\ Credited(r) \in Snapshot
         /\ Credited(r).counted = snap[r].counted \cup {Key(cur[r])}
<1> DEFINE q == snap[r].quote
           f == snap[r].fiat + FiatOf(cur[r], q)
           c == snap[r].coin + CoinsOf(cur[r], q)
<1>1. /\ cur[r] \in Transfers /\ snap[r] \in Snapshot /\ q \in Quote
      /\ snap[r].fiat \in Nat /\ snap[r].coin \in Nat
      /\ snap[r].counted \subseteq Keys
  BY DEF TypeOK, Snapshot
<1>2. f \in Nat /\ c \in Nat /\ Key(cur[r]) \in Keys
  BY <1>1, FiatType, KeyType
<1>3. InvoiceStatus(f, q) \in Statuses
  BY <1>1, <1>2, StatusType
<1>4. Credited(r) = [quote |-> q, fiat |-> f, coin |-> c,
                     status |-> InvoiceStatus(f, q),
                     counted |-> snap[r].counted \cup {Key(cur[r])}]
  BY DEF Credited
<1> QED BY <1>1, <1>2, <1>3, <1>4 DEF Snapshot

-----------------------------------------------------------------------------
(* Type correctness.                                                       *)

(* The empty tables have their types.                                      *)
LEMMA InitType == Init => TypeOK
<1> SUFFICES ASSUME Init PROVE TypeOK
  OBVIOUS
<1>1. quote \in [Invoices -> Quote]
  BY QuotesAssumption DEF Init
<1>2. account \in [Invoices -> Account] /\ rows \in [Keys -> Row]
  BY DefaultTypes DEF Init
<1>3. cur \in [Requests -> Transfers] /\ snap \in [Requests -> Snapshot]
  BY DefaultTypes DEF Init
<1> QED BY <1>1, <1>2, <1>3 DEF Init, TypeOK, Stages, Kinds, Findings

(* No step of a request, the merchant or the chain breaks a type.          *)
LEMMA StepType == TypeOK /\ [Next]_vars => TypeOK'
<1> SUFFICES ASSUME TypeOK, [Next]_vars PROVE TypeOK'
  OBVIOUS
<1> USE DEF tables, reqVars, history, Goto
<1>1. ASSUME NEW x \in TxIDs, Mine(x) PROVE TypeOK'
  BY <1>1 DEF Mine, TypeOK
<1>2. ASSUME NEW i \in Invoices, NEW q \in QuotesOf[i], Requote(i, q)
      PROVE  TypeOK'
  <2>1. q \in Quote
    BY QuotesAssumption
  <2> QED BY <1>2, <2>1 DEF Requote, TypeOK
<1>3. ASSUME NEW r \in Requests, NEW x \in TxIDs, WalletNotify(r, x)
      PROVE  TypeOK'
  BY <1>3 DEF WalletNotify, TypeOK, Stages, Kinds
<1>4. ASSUME NEW r \in Requests, NEW t \in Transfers, NEW n \in 0 .. MaxDepth,
             NEW k \in Endpoints \ {"notify"}, VerifiedTransaction(r, t, n, k)
      PROVE  TypeOK'
  <2>1. t.crypto \in Cryptos /\ Wallet[t.crypto].confirmations \in Nat
    BY TransfersAssumption, WalletAssumption
  <2>2. n \in Nat /\ k \in Kinds
    BY WalletAssumption DEF Kinds
  <2> QED BY <1>4, <2>1, <2>2 DEF VerifiedTransaction, TypeOK, Stages
<1>5. ASSUME NEW r \in Requests, NEW t \in todo[r], SeeUnconfirmed(r, t)
      PROVE  TypeOK'
  <2>1. t \in Transfers /\ Key(t) \in Keys /\ t.inv \in Invoices
    BY KeyType DEF TypeOK
  <2>2. SnapshotOf(t.inv) \in Snapshot
    BY <2>1, SnapshotType
  <2> QED BY <1>5, <2>1, <2>2 DEF SeeUnconfirmed, TypeOK, Stages, Findings
<1>6. ASSUME NEW r \in Requests, NEW t \in todo[r], ReadInvoice(r, t)
      PROVE  TypeOK'
  <2>1. t \in Transfers /\ t.inv \in Invoices
    BY KeyType DEF TypeOK
  <2>2. SnapshotOf(t.inv) \in Snapshot
    BY <2>1, SnapshotType
  <2> QED BY <1>6, <2>1, <2>2 DEF ReadInvoice, TypeOK, Stages
<1>7. ASSUME NEW r \in Requests, CheckExisting(r) PROVE TypeOK'
  BY <1>7 DEF CheckExisting, FindingOf, TypeOK, Stages, Findings
<1>8. ASSUME NEW r \in Requests, InsertRow(r) PROVE TypeOK'
  <2>1. cur[r] \in Transfers /\ snap[r].quote \in Quote /\ seen[r] \in Nat
    BY DEF TypeOK, Snapshot
  <2>2. Key(cur[r]) \in Keys /\ RowFor(cur[r], snap[r].quote, seen[r]) \in Row
    BY <2>1, KeyType, RowType
  <2> QED
    BY <1>8, <2>2 DEF InsertRow, FindingOf, TypeOK, Stages, Findings
<1>9. ASSUME NEW r \in Requests, Credit(r) PROVE TypeOK'
  <2> DEFINE c == Credited(r)
  <2>1. c \in Snapshot
    BY CreditedType
  <2>2. cur[r].inv \in Invoices
    BY KeyType DEF TypeOK
  <2>3. [fiat |-> c.fiat, coin |-> c.coin, status |-> c.status] \in Account
    BY <2>1 DEF Snapshot, Account
  <2>4. c.counted \subseteq Keys
    BY <2>1 DEF Snapshot
  <2> HIDE DEF c
  <2>5. UNCHANGED <<quote, table, rows, unconfirmed, depth, kind, todo, cur,
                    seen, found>>
    BY <1>9 DEF Credit
  <2>6. account' \in [Invoices -> Account] /\ counted' \in [Invoices -> SUBSET Keys]
    BY <1>9, <2>2, <2>3, <2>4 DEF Credit, TypeOK, c
  <2>7. /\ snap' \in [Requests -> Snapshot] /\ pc' \in [Requests -> Stages]
        /\ clean' \in [Invoices -> BOOLEAN]
    BY <1>9, <2>1, <2>2 DEF Credit, TypeOK, Stages, c
  <2> QED BY <2>5, <2>6, <2>7 DEF TypeOK
<1>10. ASSUME NEW r \in Requests, ClearUnconfirmed(r) PROVE TypeOK'
  BY <1>10 DEF ClearUnconfirmed, TypeOK, Stages
<1>11. ASSUME NEW r \in Requests, Return(r) PROVE TypeOK'
  BY <1>11, DefaultTypes DEF Return, Finish, TypeOK, Stages, Findings
<1>12. ASSUME NEW r \in Requests, Reply(r) PROVE TypeOK'
  BY <1>12, DefaultTypes DEF Reply, TypeOK, Stages, Kinds
<1>13. ASSUME NEW r \in Requests, NEW t \in todo[r], Skip(r, t) PROVE TypeOK'
  BY <1>13 DEF Skip, TypeOK
<1>14. ASSUME NEW r \in Requests, Fail(r) PROVE TypeOK'
  <2>1. clean' \in [Invoices -> BOOLEAN]
    BY <1>14 DEF Fail, TypeOK
  <2> QED BY <1>14, <2>1, DefaultTypes
          DEF Fail, Finish, TypeOK, Stages, Findings
<1>15. ASSUME Crash PROVE TypeOK'
  BY <1>15, DefaultTypes DEF Crash, TypeOK, Stages, Kinds, Findings
<1>16. ASSUME UNCHANGED vars PROVE TypeOK'
  BY <1>16 DEF vars, TypeOK
<1> QED
  BY <1>1, <1>2, <1>3, <1>4, <1>5, <1>6, <1>7, <1>8, <1>9, <1>10, <1>11,
     <1>12, <1>13, <1>14, <1>15, <1>16
  DEF Next, Start, Proceed, Book, Break

(* Every reachable state is well typed.                                    *)
THEOREM TypeCorrect == Spec => []TypeOK
  BY InitType, StepType, PTL DEF Spec

-----------------------------------------------------------------------------
(* The inductive invariant.                                                *)

Safety ==
  BalanceIsBacked /\ SnapshotsAreBacked /\ PendingIsFresh /\ BalanceIsComplete

(* The inductive invariant holds of the empty tables.                      *)
LEMMA InitSafety == Init => Safety
  BY DEF Init, Safety, BalanceIsBacked, SnapshotsAreBacked, PendingIsFresh,
         BalanceIsComplete, RowsOf, Booking

(* A step that writes no row and no balance, starts no booking and stops   *)
(* none that is about to credit.                                           *)
LEMMA QuietStep ==
  ASSUME Safety, UNCHANGED <<table, counted, clean>>,
         \A s \in Requests :
           /\ pc'[s] \in Booking =>
                pc'[s] = pc[s] /\ cur'[s] = cur[s] /\ snap'[s] = snap[s]
           /\ pc[s] = "credit" => pc'[s] = "credit"
  PROVE  Safety'
<1> USE DEF Safety, RowsOf, Booking
<1>1. BalanceIsBacked'
  BY DEF BalanceIsBacked
<1>2. SnapshotsAreBacked'
  BY DEF SnapshotsAreBacked
<1>3. PendingIsFresh'
  BY DEF PendingIsFresh
<1>4. BalanceIsComplete'
  BY DEF BalanceIsComplete, At
<1> QED BY <1>1, <1>2, <1>3, <1>4

(* Reading an invoice takes a backed balance without pending rows.         *)
LEMMA ReadInvoiceSafe ==
  ASSUME TypeOK, Safety, NEW r \in Requests, NEW t \in todo[r], ReadInvoice(r, t)
  PROVE  Safety'
<1> USE DEF Safety, RowsOf, Booking, ReadInvoice, Goto, tables, history
<1>1. /\ t.inv \in Invoices /\ t \in Transfers
      /\ SnapshotOf(t.inv).counted = counted[t.inv]
  BY KeyType, SnapshotType DEF TypeOK
<1>2. /\ pc' = [pc EXCEPT ![r] = "check"] /\ pc[r] = "next"
      /\ snap'[r].counted = counted[t.inv] /\ cur'[r] = t
      /\ UNCHANGED <<table, counted, clean>>
      /\ \A s \in Requests \ {r} : /\ cur'[s] = cur[s] /\ snap'[s] = snap[s]
                                   /\ pc'[s] = pc[s]
      /\ pc'[r] = "check"
  BY <1>1 DEF TypeOK
<1>3. BalanceIsBacked' /\ SnapshotsAreBacked'
  BY <1>1, <1>2 DEF BalanceIsBacked, SnapshotsAreBacked
<1>4. PendingIsFresh'
  BY <1>1, <1>2 DEF PendingIsFresh
<1>5. BalanceIsComplete'
  BY <1>2 DEF BalanceIsComplete, At
<1> QED BY <1>3, <1>4, <1>5

(* Looking for the row leaves the invariant alone.                         *)
LEMMA CheckExistingSafe ==
  ASSUME TypeOK, Safety, NEW r \in Requests, CheckExisting(r)
  PROVE  Safety'
<1> USE DEF Safety, RowsOf, Booking
<1>1. /\ pc[r] = "check" /\ pc'[r] \in {"recorded", "insert"}
      /\ UNCHANGED <<table, counted, clean, cur, snap>>
      /\ \A s \in Requests \ {r} : pc'[s] = pc[s]
  BY DEF CheckExisting, Goto, tables, history, TypeOK
<1>2. BalanceIsBacked' /\ SnapshotsAreBacked'
  BY <1>1 DEF BalanceIsBacked, SnapshotsAreBacked
<1>3. PendingIsFresh'
  BY <1>1 DEF PendingIsFresh
<1>4. BalanceIsComplete'
  BY <1>1 DEF BalanceIsComplete, At
<1> QED BY <1>2, <1>3, <1>4

(* The row a request inserts is new, so no balance contains it.            *)
LEMMA InsertRowSafe ==
  ASSUME TypeOK, Safety, NEW r \in Requests, InsertRow(r)
  PROVE  Safety'
<1> USE DEF Booking
<1> DEFINE k == Key(cur[r])
<1>1. /\ pc[r] = "insert" /\ UNCHANGED <<counted, clean, cur, snap>>
      /\ \A s \in Requests \ {r} : pc'[s] = pc[s]
  BY DEF InsertRow, Goto, history, TypeOK
<1>2. k.inv = cur[r].inv /\ k.inv \in Invoices
  BY KeyType DEF TypeOK
<1>3. CASE k \in table
  <2>1. table' = table /\ pc'[r] = "recorded"
    BY <1>3 DEF InsertRow, Goto, TypeOK
  <2> QED BY <1>1, <2>1, QuietStep
<1>4. CASE k \notin table
  <2>1. table' = table \cup {k} /\ pc'[r] = "credit"
    BY <1>4 DEF InsertRow, Goto, TypeOK
  <2> HIDE DEF k
  <2>2. BalanceIsBacked' /\ SnapshotsAreBacked'
    BY <1>1, <2>1 DEF BalanceIsBacked, SnapshotsAreBacked, Safety, RowsOf
  <2>3. \A i \in Invoices : k \notin counted[i]
    BY <1>4 DEF Safety, BalanceIsBacked, RowsOf
  <2>4. \A s \in Requests : pc[s] \in Booking => k \notin snap[s].counted
    BY <1>4 DEF Safety, SnapshotsAreBacked, RowsOf
  <2>5. \A s \in Requests : pc[s] = "credit" => Key(cur[s]) # k
    BY <1>4 DEF Safety, PendingIsFresh
  <2>6. PendingIsFresh'
    BY <1>1, <2>1, <2>3, <2>4, <2>5 DEF PendingIsFresh, Safety, k
  <2>7. BalanceIsComplete'
    BY <1>1, <2>1 DEF BalanceIsComplete, Safety, RowsOf, At, k
  <2> QED BY <2>2, <2>6, <2>7 DEF Safety
<1> QED BY <1>3, <1>4

(* A credit moves the one pending row of the request to the balance.       *)
LEMMA CreditSafe ==
  ASSUME TypeOK, Safety, NEW r \in Requests, Credit(r)
  PROVE  Safety'
<1> USE DEF Booking
<1> DEFINE k == Key(cur[r])
           i == cur[r].inv
           new == snap[r].counted \cup {k}
<1>1. /\ pc[r] = "credit" /\ pc'[r] = "clear"
      /\ UNCHANGED <<table, cur>>
      /\ \A s \in Requests \ {r} : pc'[s] = pc[s] /\ snap'[s] = snap[s]
  BY DEF Credit, Goto, TypeOK
<1>2. k.inv = i /\ i \in Invoices
  BY KeyType DEF TypeOK
<1>3. counted' = [counted EXCEPT ![i] = new]
  BY CreditedType DEF Credit
<1>4. clean' = [clean EXCEPT ![i] = @ /\ counted[i] = snap[r].counted]
  BY DEF Credit
<1>5. k \in table /\ snap[r].counted \subseteq RowsOf(i)
  BY <1>1 DEF Safety, PendingIsFresh, SnapshotsAreBacked
<1>6. RowsOf(i)' = RowsOf(i)
  BY <1>1 DEF RowsOf
<1> HIDE DEF k, i
<1>7. BalanceIsBacked'
  <2>1. \A j \in Invoices : counted'[j] \subseteq (IF j = i THEN new ELSE counted[j])
    BY <1>2, <1>3 DEF TypeOK
  <2> QED BY <1>1, <1>2, <1>5, <2>1 DEF BalanceIsBacked, Safety, RowsOf
<1>8. SnapshotsAreBacked'
  BY <1>1 DEF SnapshotsAreBacked, Safety, RowsOf
<1>9. PendingIsFresh'
  <2> SUFFICES ASSUME NEW s \in Requests, pc'[s] = "credit"
               PROVE  /\ Key(cur[s]) \in table
                      /\ \A j \in Invoices : Key(cur[s]) \notin counted'[j]
                      /\ \A u \in Requests :
                           /\ pc'[u] \in Booking => Key(cur[s]) \notin snap'[u].counted
                           /\ pc'[u] = "credit" /\ Key(cur[u]) = Key(cur[s]) => u = s
    BY <1>1 DEF PendingIsFresh
  <2>1. s # r /\ pc[s] = "credit"
    BY <1>1
  <2>2. Key(cur[s]) # k /\ Key(cur[s]) \notin snap[r].counted
    BY <1>1, <2>1 DEF Safety, PendingIsFresh, k
  <2>3. \A j \in Invoices : Key(cur[s]) \notin counted'[j]
    BY <1>2, <1>3, <2>1, <2>2 DEF Safety, PendingIsFresh, TypeOK
  <2> QED BY <1>1, <2>1, <2>3 DEF Safety, PendingIsFresh
<1>10. BalanceIsComplete'
  <2> SUFFICES ASSUME NEW j \in Invoices, clean'[j], NEW m \in RowsOf(j)
               PROVE  m \in counted'[j] \cup {Key(cur[s]) : s \in At("credit")'}
    BY <1>1 DEF BalanceIsComplete, RowsOf
  <2>1. clean[j] /\ (j = i => counted[i] = snap[r].counted)
    BY <1>2, <1>4 DEF TypeOK
  <2>2. m \in counted[j] \cup {Key(cur[s]) : s \in At("credit")}
    BY <2>1 DEF Safety, BalanceIsComplete
  <2>3. CASE m = k
    <3>1. j = i
      BY <1>2, <2>3 DEF RowsOf
    <3> QED BY <1>2, <1>3, <2>3, <3>1 DEF TypeOK
  <2>4. CASE m # k /\ m \in counted[j]
    BY <1>2, <1>3, <2>1, <2>4 DEF TypeOK
  <2>5. CASE m # k /\ m \in {Key(cur[s]) : s \in At("credit")}
    BY <1>1, <2>5 DEF At, k
  <2> QED BY <2>2, <2>3, <2>4, <2>5
<1> QED BY <1>7, <1>8, <1>9, <1>10 DEF Safety

(* A request that gives up marks the balance it tears off.                 *)
LEMMA FailSafe ==
  ASSUME TypeOK, Safety, NEW r \in Requests, Fail(r)
  PROVE  Safety'
<1> USE DEF Booking
<1>1. /\ pc'[r] = "next" /\ UNCHANGED <<table, counted, cur>>
      /\ \A s \in Requests \ {r} : pc'[s] = pc[s] /\ snap'[s] = snap[s]
  BY DEF Fail, Finish, Goto, tables, TypeOK
<1>2. cur[r].inv \in Invoices /\ Key(cur[r]).inv = cur[r].inv
  BY KeyType DEF TypeOK
<1>3. CASE pc[r] # "credit"
  <2>1. UNCHANGED clean
    BY <1>3 DEF Fail
  <2> QED BY <1>1, <1>3, <2>1, QuietStep
<1>4. CASE pc[r] = "credit"
  <2>1. clean' = [clean EXCEPT ![cur[r].inv] = FALSE]
    BY <1>4 DEF Fail
  <2>2. BalanceIsBacked' /\ SnapshotsAreBacked' /\ PendingIsFresh'
    BY <1>1 DEF Safety, BalanceIsBacked, SnapshotsAreBacked, PendingIsFresh, RowsOf
  <2>3. BalanceIsComplete'
    <3> SUFFICES ASSUME NEW j \in Invoices, clean'[j], NEW m \in RowsOf(j)
                 PROVE  m \in counted[j] \cup {Key(cur[s]) : s \in At("credit")'}
      BY <1>1 DEF BalanceIsComplete, RowsOf
    <3>1. clean[j] /\ j # cur[r].inv
      BY <1>2, <2>1 DEF TypeOK
    <3>2. m # Key(cur[r])
      BY <1>2, <3>1 DEF RowsOf
    <3>3. m \in counted[j] \cup {Key(cur[s]) : s \in At("credit")}
      BY <3>1 DEF Safety, BalanceIsComplete
    <3> QED BY <1>1, <3>2, <3>3 DEF At
  <2> QED BY <2>2, <2>3 DEF Safety
<1> QED BY <1>3, <1>4

(* A crash marks every balance it tears off.                               *)
LEMMA CrashSafe ==
  ASSUME TypeOK, Safety, Crash
  PROVE  Safety'
<1>1. /\ UNCHANGED <<table, counted>>
      /\ \A s \in Requests : pc'[s] = "idle"
  BY DEF Crash, tables, TypeOK
<1>2. BalanceIsBacked' /\ SnapshotsAreBacked' /\ PendingIsFresh'
  BY <1>1 DEF Safety, BalanceIsBacked, SnapshotsAreBacked, PendingIsFresh, RowsOf, Booking
<1>3. BalanceIsComplete'
  <2> SUFFICES ASSUME NEW j \in Invoices, clean'[j], NEW m \in RowsOf(j)
               PROVE  m \in counted[j]
    BY <1>1 DEF BalanceIsComplete, RowsOf
  <2>1. clean[j] /\ \A s \in At("credit") : cur[s].inv # j
    BY DEF Crash
  <2>2. m \in counted[j] \cup {Key(cur[s]) : s \in At("credit")}
    BY <2>1 DEF Safety, BalanceIsComplete
  <2>3. \A s \in At("credit") : Key(cur[s]) # m
    BY <2>1, KeyType DEF At, RowsOf, TypeOK
  <2> QED BY <2>2, <2>3
<1> QED BY <1>2, <1>3 DEF Safety

(* The inductive invariant is preserved by every step.                     *)
LEMMA StepSafety == TypeOK /\ Safety /\ [Next]_vars => Safety'
<1> SUFFICES ASSUME TypeOK, Safety, [Next]_vars PROVE Safety'
  OBVIOUS
<1> USE DEF tables, reqVars, history, Goto, Booking
<1>1. ASSUME NEW x \in TxIDs, Mine(x) PROVE Safety'
  BY <1>1, QuietStep DEF Mine
<1>2. ASSUME NEW i \in Invoices, NEW q \in QuotesOf[i], Requote(i, q)
      PROVE  Safety'
  BY <1>2, QuietStep DEF Requote
<1>3. ASSUME NEW r \in Requests, NEW x \in TxIDs, WalletNotify(r, x)
      PROVE  Safety'
  BY <1>3, QuietStep DEF WalletNotify, TypeOK
<1>4. ASSUME NEW r \in Requests, NEW t \in Transfers, NEW n \in 0 .. MaxDepth,
             NEW k \in Endpoints \ {"notify"}, VerifiedTransaction(r, t, n, k)
      PROVE  Safety'
  BY <1>4, QuietStep DEF VerifiedTransaction, TypeOK
<1>5. ASSUME NEW r \in Requests, NEW t \in todo[r], SeeUnconfirmed(r, t)
      PROVE  Safety'
  BY <1>5, QuietStep DEF SeeUnconfirmed, TypeOK
<1>6. ASSUME NEW r \in Requests, NEW t \in todo[r], ReadInvoice(r, t)
      PROVE  Safety'
  BY <1>6, ReadInvoiceSafe
<1>7. ASSUME NEW r \in Requests, CheckExisting(r) PROVE Safety'
  BY <1>7, CheckExistingSafe
<1>8. ASSUME NEW r \in Requests, InsertRow(r) PROVE Safety'
  BY <1>8, InsertRowSafe
<1>9. ASSUME NEW r \in Requests, Credit(r) PROVE Safety'
  BY <1>9, CreditSafe
<1>10. ASSUME NEW r \in Requests, ClearUnconfirmed(r) PROVE Safety'
  BY <1>10, QuietStep DEF ClearUnconfirmed, TypeOK
<1>11. ASSUME NEW r \in Requests, Return(r) PROVE Safety'
  BY <1>11, QuietStep DEF Return, Finish, TypeOK
<1>12. ASSUME NEW r \in Requests, Reply(r) PROVE Safety'
  BY <1>12, QuietStep DEF Reply, TypeOK
<1>13. ASSUME NEW r \in Requests, NEW t \in todo[r], Skip(r, t) PROVE Safety'
  BY <1>13, QuietStep DEF Skip
<1>14. ASSUME NEW r \in Requests, Fail(r) PROVE Safety'
  BY <1>14, FailSafe
<1>15. ASSUME Crash PROVE Safety'
  BY <1>15, CrashSafe
<1>16. ASSUME UNCHANGED vars PROVE Safety'
  BY <1>16, QuietStep DEF vars
<1> QED
  BY <1>1, <1>2, <1>3, <1>4, <1>5, <1>6, <1>7, <1>8, <1>9, <1>10, <1>11,
     <1>12, <1>13, <1>14, <1>15, <1>16
  DEF Next, Start, Proceed, Book, Break

(* Types and safety hold in every reachable state, for any requests.       *)
THEOREM Inductive == Spec => [](TypeOK /\ Safety)
<1>1. Init => TypeOK /\ Safety
  BY InitType, InitSafety
<1>2. (TypeOK /\ Safety) /\ [Next]_vars => (TypeOK /\ Safety)'
  BY StepType, StepSafety
<1> QED BY <1>1, <1>2, PTL DEF Spec

-----------------------------------------------------------------------------
(* However often and however concurrently a transfer is notified, it is    *)
(* added to a balance at most once.                                        *)
THEOREM CreditedOnce == Spec => []NeverCreditedTwice
<1>1. TypeOK /\ Safety => NeverCreditedTwice
  BY KeyType DEF Safety, PendingIsFresh, NeverCreditedTwice, At, TypeOK, Booking
<1> QED BY <1>1, Inductive, PTL

(* A balance is only ever made of recorded rows of its own invoice.        *)
THEOREM BalanceBacked == Spec => []BalanceIsBacked
<1>1. TypeOK /\ Safety => BalanceIsBacked
  BY DEF Safety
<1> QED BY <1>1, Inductive, PTL

(* No row is missing from a balance unless a request stopped before        *)
(* crediting it or a balance that had moved was overwritten.               *)
THEOREM BalanceComplete == Spec => []BalanceIsComplete
<1>1. TypeOK /\ Safety => BalanceIsComplete
  BY DEF Safety
<1> QED BY <1>1, Inductive, PTL

(* Rows are only written by insertions.                                    *)
LEMMA RowsAreInserted ==
  ASSUME [Next]_vars
  PROVE  UNCHANGED <<table, rows>> \/ \E r \in Requests : InsertRow(r)
<1>1. ASSUME NEW r \in Requests, Start(r) PROVE UNCHANGED <<table, rows>>
  BY <1>1 DEF Start, WalletNotify, VerifiedTransaction, tables
<1>2. ASSUME NEW r \in Requests, Proceed(r), ~InsertRow(r) PROVE UNCHANGED <<table, rows>>
  BY <1>2 DEF Proceed, Book, SeeUnconfirmed, ReadInvoice, CheckExisting, Credit,
              ClearUnconfirmed, Return, Reply, tables
<1>3. ASSUME NEW r \in Requests, Break(r) PROVE UNCHANGED <<table, rows>>
  BY <1>3 DEF Break, Fail, Skip, tables
<1>4. CASE Crash \/ UNCHANGED vars \/ (\E x \in TxIDs : Mine(x))
           \/ \E i \in Invoices : \E q \in QuotesOf[i] : Requote(i, q)
  BY <1>4 DEF Crash, Mine, Requote, vars, tables
<1> QED BY <1>1, <1>2, <1>3, <1>4 DEF Next

(* Rows are never deleted and the amount of a row is never rewritten.      *)
THEOREM PermanentRows == Spec => RowsArePermanent
<1> DEFINE Kept == \A k \in table : k \in table' /\ rows'[k].fiat = rows[k].fiat
<1>1. TypeOK /\ [Next]_vars => Kept
  <2> SUFFICES ASSUME TypeOK, [Next]_vars PROVE Kept
    OBVIOUS
  <2>1. ASSUME NEW r \in Requests, InsertRow(r) PROVE Kept
    BY <2>1 DEF InsertRow, TypeOK
  <2>2. CASE UNCHANGED <<table, rows>>
    BY <2>2
  <2>3. (\E r \in Requests : InsertRow(r)) \/ UNCHANGED <<table, rows>>
    BY RowsAreInserted
  <2> QED BY <2>1, <2>2, <2>3
<1> QED BY <1>1, TypeCorrect, PTL DEF Spec, RowsArePermanent

-----------------------------------------------------------------------------
(* The quote a request works with is one the invoice has had.              *)
QuotesAreOwn ==
  /\ \A i \in Invoices : quote[i] \in QuotesOf[i]
  /\ \A r \in Requests : pc[r] \in Booking => snap[r].quote \in QuotesOf[cur[r].inv]

(* Every step keeps quotes, balances and statuses together.                *)
LEMMA StepStatus ==
  ASSUME TypeOK, QuotesAreOwn, StatusFollowsBalance, [Next]_vars
  PROVE  QuotesAreOwn' /\ StatusFollowsBalance'
<1> USE DEF tables, reqVars, history, Goto, Booking
<1> DEFINE Others(r) == \A s \in Requests \ {r} :
             pc'[s] = pc[s] /\ snap'[s] = snap[s] /\ cur'[s] = cur[s]
<1>1. ASSUME NEW r \in Requests, Others(r), pc'[r] \notin Booking,
             UNCHANGED <<quote, account, counted>>
      PROVE  QuotesAreOwn' /\ StatusFollowsBalance'
  BY <1>1 DEF QuotesAreOwn, StatusFollowsBalance
<1>2. ASSUME NEW i \in Invoices, NEW q \in QuotesOf[i], Requote(i, q)
      PROVE  QuotesAreOwn' /\ StatusFollowsBalance'
  BY <1>2 DEF Requote, TypeOK, QuotesAreOwn, StatusFollowsBalance
<1>3. ASSUME NEW r \in Requests, NEW t \in todo[r], ReadInvoice(r, t)
      PROVE  QuotesAreOwn' /\ StatusFollowsBalance'
  <2>1. t.inv \in Invoices
    BY KeyType DEF TypeOK
  <2>2. Others(r) /\ UNCHANGED <<quote, account, counted>>
    BY <1>3 DEF ReadInvoice, TypeOK
  <2>3. snap'[r].quote = quote[t.inv] /\ cur'[r] = t
    BY <1>3 DEF ReadInvoice, SnapshotOf, TypeOK
  <2> QED BY <2>1, <2>2, <2>3 DEF QuotesAreOwn, StatusFollowsBalance
<1>4. ASSUME NEW r \in Requests, CheckExisting(r) \/ InsertRow(r)
      PROVE  QuotesAreOwn' /\ StatusFollowsBalance'
  <2>1. pc[r] \in Booking /\ UNCHANGED <<quote, account, counted, snap, cur>>
        /\ Others(r)
    BY <1>4 DEF CheckExisting, InsertRow, TypeOK
  <2> QED BY <2>1 DEF QuotesAreOwn, StatusFollowsBalance
<1>5. ASSUME NEW r \in Requests, Credit(r)
      PROVE  QuotesAreOwn' /\ StatusFollowsBalance'
  <2> DEFINE i == cur[r].inv
             c == Credited(r)
             q == snap[r].quote
  <2>1. i \in Invoices /\ q \in QuotesOf[i]
    BY <1>5, KeyType DEF Credit, TypeOK, QuotesAreOwn
  <2>2. Others(r) /\ pc'[r] \notin Booking /\ UNCHANGED quote
    BY <1>5 DEF Credit, TypeOK
  <2>3. c.status = InvoiceStatus(c.fiat, q) /\ c.counted # {}
    BY DEF Credited
  <2>4. /\ account' = [account EXCEPT ![i] =
                         [fiat |-> c.fiat, coin |-> c.coin, status |-> c.status]]
        /\ counted' = [counted EXCEPT ![i] = c.counted]
    BY <1>5 DEF Credit
  <2>5. QuotesAreOwn'
    BY <2>2 DEF QuotesAreOwn
  <2>6. StatusFollowsBalance'
    <3> HIDE DEF c, i, q
    <3>1. account'[i].status = InvoiceStatus(account'[i].fiat, q) /\ counted'[i] # {}
      BY <2>1, <2>3, <2>4 DEF TypeOK
    <3>2. \A j \in Invoices \ {i} : account'[j] = account[j] /\ counted'[j] = counted[j]
      BY <2>4 DEF TypeOK
    <3> QED BY <2>1, <3>1, <3>2 DEF StatusFollowsBalance
  <2> QED BY <2>5, <2>6
<1>6. CASE Crash
  BY <1>6 DEF Crash, TypeOK, QuotesAreOwn, StatusFollowsBalance
<1>7. CASE UNCHANGED <<quote, account, counted, pc, snap, cur>>
  BY <1>7 DEF QuotesAreOwn, StatusFollowsBalance
<1>8. \A r \in Requests :
        \/ \E x \in TxIDs : WalletNotify(r, x)
        \/ \E t \in Transfers, k \in Endpoints \ {"notify"}, n \in 0 .. MaxDepth :
             VerifiedTransaction(r, t, n, k)
        \/ \E t \in todo[r] : SeeUnconfirmed(r, t)
        \/ ClearUnconfirmed(r) \/ Return(r) \/ Reply(r) \/ Fail(r)
      => Others(r) /\ pc'[r] \notin Booking /\ UNCHANGED <<quote, account, counted>>
  BY DEF WalletNotify, VerifiedTransaction, SeeUnconfirmed, ClearUnconfirmed,
         Return, Reply, Fail, Finish, TypeOK
<1>9. \A r \in Requests : \A t \in todo[r] :
        Skip(r, t) => UNCHANGED <<quote, account, counted, pc, snap, cur>>
  BY DEF Skip
<1>10. \A x \in TxIDs :
        Mine(x) => UNCHANGED <<quote, account, counted, pc, snap, cur>>
  BY DEF Mine
<1> HIDE DEF Booking
<1> QED BY <1>1, <1>2, <1>3, <1>4, <1>5, <1>6, <1>7, <1>8, <1>9, <1>10
        DEF Next, Start, Proceed, Book, Break, vars

(* Whatever interleaves with requotes, a stored status is the one its      *)
(* balance has under a quote of the invoice, and UNPAID means untouched.   *)
THEOREM StatusFollows == Spec => []StatusFollowsBalance
<1>1. Init => QuotesAreOwn /\ StatusFollowsBalance
  BY DEF Init, QuotesAreOwn, StatusFollowsBalance, Booking
<1>2. TypeOK /\ QuotesAreOwn /\ StatusFollowsBalance /\ [Next]_vars
        => QuotesAreOwn' /\ StatusFollowsBalance'
  BY StepStatus
<1> QED BY <1>1, <1>2, TypeCorrect, PTL DEF Spec

-----------------------------------------------------------------------------
(* The sum of what the rows K have in a table.                             *)
SumIn(column, K) == Total([k \in K |-> column[k].fiat], K)

(* The sum of the model is the one that the lemmas speak of.               *)
LEMMA SumIsIn ==
  ASSUME NEW K
  PROVE  Sum(K) = SumIn(rows, K)
BY DEF Sum, SumIn, Total, MapThenSumSet, MapThenFoldSet

(* Rows that stay as they are keep their sum.                              *)
LEMMA SumStays ==
  ASSUME NEW K, IsFiniteSet(K), NEW f, NEW g, \A k \in K : f[k].fiat = g[k].fiat
  PROVE  SumIn(f, K) = SumIn(g, K)
<1> DEFINE F == [k \in K |-> f[k].fiat]
           G == [k \in K |-> g[k].fiat]
<1>1. F = G
  OBVIOUS
<1> QED BY <1>1 DEF SumIn

(* One more row adds its amount.                                           *)
LEMMA SumGrows ==
  ASSUME NEW K, IsFiniteSet(K), NEW x, x \notin K, NEW f, \A k \in K \cup {x} : f[k].fiat \in Nat
  PROVE  SumIn(f, K \cup {x}) = SumIn(f, K) + f[x].fiat
<1> DEFINE F == [k \in K |-> f[k].fiat]
           G == [k \in K \cup {x} |-> f[k].fiat]
<1>1. /\ \A k \in K \cup {x} : G[k] \in Nat
      /\ \A k \in K : F[k] = G[k]
      /\ G[x] = f[x].fiat
  OBVIOUS
<1>2. Total(G, K \cup {x}) = Total(G, K) + G[x]
  <2> HIDE DEF F, G
  <2> QED BY <1>1, TotalAdd
<1>3. Total(F, K) = Total(G, K)
  <2> HIDE DEF F, G
  <2> QED BY <1>1, TotalSame
<1> QED BY <1>1, <1>2, <1>3 DEF SumIn

(* Nothing adds up to nothing.                                             *)
LEMMA SumOfNone ==
  ASSUME NEW f
  PROVE  SumIn(f, {}) = 0
BY TotalStep, FS_EmptySet DEF SumIn

-----------------------------------------------------------------------------
(* A finite number of rows is in a balance, stored or read.                *)
BalancesAreFinite ==
  /\ \A i \in Invoices : IsFiniteSet(counted[i])
  /\ \A r \in Requests : pc[r] \in Booking => IsFiniteSet(snap[r].counted)

(* Stored balances and those that requests have read are sums, and the row *)
(* a request is about to credit has the amount that it is going to add.    *)
BalancesAreSums ==
  /\ \A i \in Invoices : account[i].fiat = SumIn(rows, counted[i])
  /\ \A r \in Requests : pc[r] \in Booking => snap[r].fiat = SumIn(rows, snap[r].counted)
  /\ \A r \in Requests : pc[r] = "credit" =>
       rows[Key(cur[r])].fiat = FiatOf(cur[r], snap[r].quote)

Sums == BalancesAreFinite /\ BalancesAreSums

(* A step that touches no balance and no row, and starts no booking.       *)
LEMMA SumsRest ==
  ASSUME Sums, UNCHANGED <<account, rows, counted>>,
         \A s \in Requests : pc'[s] \in Booking =>
                /\ cur'[s] = cur[s] /\ snap'[s] = snap[s]
                /\ pc[s] \in Booking /\ (pc'[s] = "credit" => pc[s] = "credit")
  PROVE  Sums'
BY DEF Sums, BalancesAreFinite, BalancesAreSums, Booking

(* What a request reads of an invoice is a sum.                            *)
LEMMA ReadKeepsSums ==
  ASSUME TypeOK, Safety, Sums, NEW r \in Requests, NEW t \in todo[r], ReadInvoice(r, t)
  PROVE  Sums'
<1>1. t.inv \in Invoices
  BY KeyType DEF TypeOK
<1>2. /\ UNCHANGED <<account, rows, counted>> /\ pc'[r] = "check"
      /\ snap'[r].fiat = account[t.inv].fiat /\ snap'[r].counted = counted[t.inv]
      /\ \A s \in Requests \ {r} : pc'[s] = pc[s] /\ cur'[s] = cur[s] /\ snap'[s] = snap[s]
  BY DEF ReadInvoice, SnapshotOf, Goto, TypeOK, tables, history
<1> QED BY <1>1, <1>2 DEF Sums, BalancesAreFinite, BalancesAreSums

(* A new row is in no balance, so it changes none of the sums.             *)
LEMMA InsertKeepsSums ==
  ASSUME TypeOK, Safety, Sums, NEW r \in Requests, InsertRow(r)
  PROVE  Sums'
<1> DEFINE k == Key(cur[r])
<1>1. /\ pc[r] = "insert" /\ UNCHANGED <<account, counted, cur, snap>>
      /\ \A s \in Requests \ {r} : pc'[s] = pc[s]
      /\ k \in Keys
  BY KeyType DEF InsertRow, Goto, history, TypeOK
<1>2. CASE k \in table
  <2>1. UNCHANGED rows /\ pc'[r] = "recorded"
    BY <1>2 DEF InsertRow, Goto, TypeOK
  <2> QED BY <1>1, <2>1, SumsRest DEF Booking
<1>3. CASE k \notin table
  <2>1. /\ rows' = [rows EXCEPT ![k] = RowFor(cur[r], snap[r].quote, seen[r])]
        /\ pc'[r] = "credit"
    BY <1>3 DEF InsertRow, Goto, TypeOK
  <2>2. /\ rows'[k].fiat = FiatOf(cur[r], snap[r].quote)
        /\ \A j \in Keys \ {k} : rows'[j] = rows[j]
    BY <1>1, <2>1 DEF RowFor, TypeOK
  <2> HIDE DEF k
  <2>3. BalancesAreFinite'
    BY <1>1, <2>1 DEF Sums, BalancesAreFinite, Booking
  <2>4. ASSUME NEW K \in SUBSET table, IsFiniteSet(K)
        PROVE  SumIn(rows', K) = SumIn(rows, K)
    <3>1. \A j \in K : rows'[j].fiat = rows[j].fiat
      BY <1>3, <2>2, <2>4 DEF TypeOK
    <3> QED BY <2>4, <3>1, SumStays
  <2>5. \A i \in Invoices : counted[i] \subseteq table /\ IsFiniteSet(counted[i])
    BY DEF Safety, BalanceIsBacked, RowsOf, Sums, BalancesAreFinite
  <2>6. \A s \in Requests : pc[s] \in Booking => snap[s].counted \subseteq table /\ IsFiniteSet(snap[s].counted)
    BY DEF Safety, SnapshotsAreBacked, RowsOf, Sums, BalancesAreFinite
  <2>7. \A i \in Invoices : account'[i].fiat = SumIn(rows', counted'[i])
    BY <1>1, <2>4, <2>5 DEF Sums, BalancesAreSums
  <2>8. \A s \in Requests : pc'[s] \in Booking => snap'[s].fiat = SumIn(rows', snap'[s].counted)
    BY <1>1, <2>1, <2>4, <2>6 DEF Sums, BalancesAreSums, Booking
  <2>9. ASSUME NEW s \in Requests, pc'[s] = "credit"
        PROVE  rows'[Key(cur[s])].fiat = FiatOf(cur[s], snap[s].quote)
    <3>1. CASE s = r
      BY <2>2, <3>1 DEF k
    <3>2. CASE s # r
      <4>1. pc[s] = "credit" /\ Key(cur[s]) \in table
        BY <1>1, <2>9, <3>2 DEF Safety, PendingIsFresh
      <4>2. Key(cur[s]) \in Keys \ {k}
        BY <1>3, <4>1 DEF TypeOK
      <4> QED BY <2>2, <4>1, <4>2 DEF Sums, BalancesAreSums
    <3> QED BY <3>1, <3>2
  <2>10. UNCHANGED cur /\ UNCHANGED snap
    BY <1>1
  <2> QED BY <2>3, <2>7, <2>8, <2>9, <2>10 DEF Sums, BalancesAreSums, Key, FiatOf
<1> QED BY <1>2, <1>3

(* A credit adds the amount of the one row that it brings in.              *)
LEMMA CreditKeepsSums ==
  ASSUME TypeOK, Safety, Sums, NEW r \in Requests, Credit(r)
  PROVE  Sums'
<1> DEFINE k == Key(cur[r])
           i == cur[r].inv
           K == snap[r].counted
<1>1. /\ pc[r] = "credit" /\ pc'[r] = "clear" /\ UNCHANGED <<rows, cur>>
      /\ \A s \in Requests \ {r} : pc'[s] = pc[s] /\ snap'[s] = snap[s]
  BY DEF Credit, Goto, TypeOK
<1>2. i \in Invoices /\ \A j \in K \cup {k} : rows[j].fiat \in Nat
  <2>1. k \in Keys /\ K \subseteq Keys /\ i \in Invoices
    BY KeyType DEF TypeOK, Snapshot
  <2> QED BY <2>1 DEF TypeOK, Row
<1>3. /\ k \notin K /\ IsFiniteSet(K) /\ snap[r].fiat = SumIn(rows, K)
      /\ rows[k].fiat = FiatOf(cur[r], snap[r].quote)
  BY <1>1 DEF Safety, PendingIsFresh, Sums, BalancesAreFinite, BalancesAreSums, Booking
<1>4. /\ account'[i].fiat = snap[r].fiat + FiatOf(cur[r], snap[r].quote)
      /\ counted'[i] = K \cup {k}
      /\ \A j \in Invoices \ {i} : account'[j] = account[j] /\ counted'[j] = counted[j]
  BY <1>2 DEF Credit, Credited, TypeOK
<1> HIDE DEF k, i, K
<1>5. SumIn(rows, K \cup {k}) = SumIn(rows, K) + rows[k].fiat
  BY <1>2, <1>3, SumGrows
<1>6. IsFiniteSet(K \cup {k})
  BY <1>3, FS_AddElement
<1>7. \A j \in Invoices : account'[j].fiat = SumIn(rows, counted'[j]) /\ IsFiniteSet(counted'[j])
  BY <1>2, <1>3, <1>4, <1>5, <1>6 DEF Sums, BalancesAreSums, BalancesAreFinite
<1> QED BY <1>1, <1>7 DEF Sums, BalancesAreFinite, BalancesAreSums, Booking

(* Every step keeps balances and rows together.                            *)
LEMMA StepSums == TypeOK /\ Safety /\ Sums /\ [Next]_vars => Sums'
<1> SUFFICES ASSUME TypeOK, Safety, Sums, [Next]_vars PROVE Sums'
  OBVIOUS
<1> USE DEF tables, reqVars, history, Goto, Booking
<1>1. ASSUME NEW r \in Requests,
             \/ \E x \in TxIDs : WalletNotify(r, x)
             \/ \E t \in Transfers, k \in Endpoints \ {"notify"}, n \in 0 .. MaxDepth :
                  VerifiedTransaction(r, t, n, k)
      PROVE  Sums'
  BY <1>1, SumsRest DEF WalletNotify, VerifiedTransaction, TypeOK
<1>2. ASSUME NEW r \in Requests, (\E t \in todo[r] : SeeUnconfirmed(r, t)) \/ CheckExisting(r)
                                 \/ ClearUnconfirmed(r)
      PROVE  Sums'
  BY <1>2, SumsRest DEF SeeUnconfirmed, CheckExisting, ClearUnconfirmed, TypeOK
<1>3. ASSUME NEW r \in Requests, Return(r) \/ Reply(r) \/ Fail(r)
      PROVE  Sums'
  BY <1>3, SumsRest DEF Return, Reply, Fail, Finish, TypeOK
<1>4. ASSUME NEW r \in Requests, NEW t \in todo[r], Skip(r, t) PROVE Sums'
  BY <1>4, SumsRest DEF Skip
<1>5. CASE Crash \/ (\E x \in TxIDs : Mine(x)) \/ UNCHANGED vars
           \/ \E i \in Invoices : \E q \in QuotesOf[i] : Requote(i, q)
  BY <1>5, SumsRest DEF Crash, Mine, Requote, vars
<1> QED
  BY <1>1, <1>2, <1>3, <1>4, <1>5, ReadKeepsSums, InsertKeepsSums, CreditKeepsSums
  DEF Next, Start, Proceed, Book, Break

(* Nothing is paid at the start.                                           *)
LEMMA InitSums == Init => Sums
<1> SUFFICES ASSUME Init PROVE Sums
  OBVIOUS
<1>1. \A i \in Invoices : counted[i] = {} /\ account[i].fiat = 0
  BY DEF Init, NewAccount
<1> QED BY <1>1, SumOfNone, FS_EmptySet DEF Sums, BalancesAreFinite, BalancesAreSums, Init, Booking

(* Balances and what requests have read of them are sums of rows, in every *)
(* reachable state.                                                        *)
THEOREM SumsAreInductive == Spec => [](TypeOK /\ Safety /\ Sums)
<1>1. Init => Sums
  BY InitSums
<1>2. TypeOK /\ Safety /\ Sums /\ [Next]_vars => Sums'
  BY StepSums
<1> QED BY <1>1, <1>2, Inductive, PTL DEF Spec

(* Whatever interleaves, fails or is repeated, a balance is to the last    *)
(* unit the sum of the recorded amounts of the rows it is made of.         *)
(* (recordConfirmedTransaction, UpdateInvoiceBalance)                      *)
THEOREM BalancesAdd == Spec => []BalanceIsSum
<1>1. Sums => BalanceIsSum
  BY SumIsIn DEF Sums, BalancesAreSums, BalanceIsSum
<1> QED BY <1>1, SumsAreInductive, PTL

(* One request at a time, and nothing fails: what it read is still stored  *)
(* when it writes, and nothing is torn off.                                *)
NothingIsTorn ==
  /\ \A i \in Invoices : clean[i]
  /\ \A r \in Requests : pc[r] \in Booking => snap[r].counted = counted[cur[r].inv]

(* No step of a single request tears a row off.                            *)
LEMMA StepSerial ==
  ASSUME ~FailuresHappen, \A r, s \in Requests : r = s
  PROVE  TypeOK /\ NothingIsTorn /\ [Next]_vars => NothingIsTorn'
<1> SUFFICES ASSUME TypeOK, NothingIsTorn, [Next]_vars PROVE NothingIsTorn'
  OBVIOUS
<1> USE DEF tables, reqVars, history, Goto, Booking
<1>1. ASSUME UNCHANGED <<counted, clean>>,
             \A r \in Requests : pc'[r] \in Booking =>
               pc[r] \in Booking /\ cur'[r] = cur[r] /\ snap'[r] = snap[r]
      PROVE  NothingIsTorn'
  BY <1>1 DEF NothingIsTorn
<1>2. ASSUME NEW r \in Requests,
             \/ \E x \in TxIDs : WalletNotify(r, x)
             \/ \E t \in Transfers, k \in Endpoints \ {"notify"}, n \in 0 .. MaxDepth :
                  VerifiedTransaction(r, t, n, k)
      PROVE  NothingIsTorn'
  BY <1>1, <1>2 DEF WalletNotify, VerifiedTransaction, TypeOK
<1>3. ASSUME NEW r \in Requests, (\E t \in todo[r] : SeeUnconfirmed(r, t)) \/ CheckExisting(r)
                                 \/ InsertRow(r) \/ ClearUnconfirmed(r)
      PROVE  NothingIsTorn'
  BY <1>1, <1>3 DEF SeeUnconfirmed, CheckExisting, InsertRow, ClearUnconfirmed, TypeOK
<1>4. ASSUME NEW r \in Requests, Return(r) \/ Reply(r) PROVE NothingIsTorn'
  BY <1>1, <1>4 DEF Return, Reply, Finish, TypeOK
<1>5. CASE (\E x \in TxIDs : Mine(x)) \/ UNCHANGED vars
           \/ \E i \in Invoices : \E q \in QuotesOf[i] : Requote(i, q)
  BY <1>1, <1>5 DEF Mine, Requote, vars
<1>6. ASSUME NEW r \in Requests, NEW t \in todo[r], ReadInvoice(r, t) PROVE NothingIsTorn'
  <2>1. /\ UNCHANGED <<counted, clean>> /\ snap'[r].counted = counted[t.inv] /\ cur'[r] = t
    BY <1>6, KeyType DEF ReadInvoice, SnapshotOf, TypeOK
  <2> QED BY <2>1 DEF NothingIsTorn
<1>7. ASSUME NEW r \in Requests, Credit(r) PROVE NothingIsTorn'
  <2>1. cur[r].inv \in Invoices
    BY KeyType DEF TypeOK
  <2>2. /\ counted[cur[r].inv] = snap[r].counted /\ pc'[r] = "clear"
        /\ clean' = [clean EXCEPT ![cur[r].inv] = @ /\ counted[cur[r].inv] = snap[r].counted]
    BY <1>7 DEF Credit, NothingIsTorn, TypeOK
  <2> QED BY <2>1, <2>2 DEF NothingIsTorn, TypeOK
<1>8. \A r \in Requests : ~Fail(r) /\ ~Crash /\ \A t \in todo[r] : ~Skip(r, t)
  BY DEF Fail, Crash, Skip
<1>9. ~Crash
  BY DEF Crash
<1> QED BY <1>2, <1>3, <1>4, <1>5, <1>6, <1>7, <1>8, <1>9 DEF Next, Start, Proceed, Book, Break

(* Requests that come one after the other and do not fail leave every row  *)
(* in the balance: an idle service shows to the last unit what was paid.   *)
(* (recordConfirmedTransaction)                                            *)
THEOREM SerialBalancesAreExact ==
  ASSUME ~FailuresHappen, \A r, s \in Requests : r = s
  PROVE  Spec => []SerialBalanceIsExact
<1>1. Init => NothingIsTorn
  BY DEF Init, NothingIsTorn, Booking
<1>2. TypeOK /\ NothingIsTorn /\ [Next]_vars => NothingIsTorn'
  BY StepSerial
<1>3. TypeOK /\ Safety /\ Sums /\ NothingIsTorn => SerialBalanceIsExact
  <2> SUFFICES ASSUME TypeOK, Safety, Sums, NothingIsTorn, \A r \in Requests : pc[r] = "idle",
                      NEW i \in Invoices
               PROVE  account[i].fiat = Sum(RowsOf(i))
    BY DEF SerialBalanceIsExact
  <2>1. RowsOf(i) = counted[i]
    <3>1. At("credit") = {} /\ clean[i]
      BY DEF NothingIsTorn, At
    <3>2. counted[i] \subseteq RowsOf(i)
      BY DEF Safety, BalanceIsBacked
    <3>3. RowsOf(i) \subseteq counted[i] \cup {Key(cur[r]) : r \in At("credit")}
      BY <3>1 DEF Safety, BalanceIsComplete
    <3> QED BY <3>1, <3>2, <3>3
  <2>2. account[i].fiat = SumIn(rows, counted[i])
    BY DEF Sums, BalancesAreSums
  <2> QED BY <2>1, <2>2, SumIsIn
<1> QED BY <1>1, <1>2, <1>3, SumsAreInductive, PTL DEF Spec
=============================================================================
