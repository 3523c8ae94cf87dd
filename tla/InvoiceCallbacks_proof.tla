----------------------- MODULE InvoiceCallbacks_proof -----------------------
(***************************************************************************)
(* What the callbacks guarantee for any number of requests, invoices and   *)
(* payments and any batch, with failures and restarts: a row is marked as  *)
(* told only if it was accepted, nothing is posted before its              *)
(* confirmations, and what is posted was once stored.                      *)
(***************************************************************************)
EXTENDS InvoiceCallbacks, InvoiceLedger_proof, SequenceTheorems, FiniteSetTheorems

Loaded == [key : Keys, snap : Snapshot]

USE DEF sending

(* Rows arrive once they are in the table; senders and batches are typed.  *)
DeliveryTypes ==
  /\ arrived \in Seq(table)
  /\ loading \in Seq(Keys) /\ batch \in Seq(Loaded)
  /\ stage \in [Senders -> {"none", "post", "mark", "done"}]
  /\ stored \in [Invoices -> SUBSET Account]

(* Whoever is with a callback has a row for it.                            *)
SendersAreBusy ==
  /\ \A r \in Requests : stage[r] # "none" => pc[r] = "recorded"
  /\ stage[scheduler] # "none" => batch # <<>> /\ loading = <<>>

(* A request that has recorded its row knows whether it still needs blocks.*)
Recorded == {"credit", "clear", "recorded"}
RecordedIsInPlace ==
  \A r \in Requests : pc[r] \in Recorded =>
    /\ Key(cur[r]) \in table
    /\ ~NeedMore(r) => ~rows[Key(cur[r])].needMore

(* The rows that the scheduler has queried are due.                        *)
QueriedIsDue ==
  \A n \in 1..Len(loading) : loading[n] \in table /\ ~rows[loading[n]].needMore

(* What the scheduler has loaded is due, and its payload was once stored.  *)
Payload(s) == [fiat |-> s.fiat, coin |-> s.coin, status |-> s.status]
LoadedIsDue ==
  \A n \in 1..Len(batch) :
    /\ batch[n].key \in table /\ ~rows[batch[n].key].needMore
    /\ Payload(batch[n].snap) \in stored[batch[n].key.inv]

(* What a request will post as well.                                       *)
PostsAreDue ==
  \A r \in Requests : stage[r] = "post" => ~rows[Key(cur[r])].needMore

SnapsAreStored ==
  /\ \A i \in Invoices : account[i] \in stored[i]
  /\ \A r \in Requests : pc[r] \in Recorded \cup Booking =>
       Payload(snap[r]) \in stored[cur[r].inv]

(* A row is about to be marked because it was accepted.                    *)
MarksAreSettled == \A a \in Senders : stage[a] = "mark" => Subject(a) \in settled

Delivery ==
  /\ SendersAreBusy /\ RecordedIsInPlace /\ QueriedIsDue /\ LoadedIsDue
  /\ PostsAreDue /\ SnapsAreStored /\ MarksAreSettled /\ ToldMeansAccepted

-----------------------------------------------------------------------------
(* A step of the ledger other than the end of a request's work on a row.   *)
LedgerStep ==
  \/ \E x \in TxIDs : Mine(x)
  \/ \E i \in Invoices : \E q \in QuotesOf[i] : Requote(i, q)
  \/ \E r \in Requests : \/ Start(r) \/ Book(r) \/ Reply(r) \/ Break(r)
                         \/ \E t \in todo[r] : SeeUnconfirmed(r, t)

(* A step that only lets time pass or asks about confirmations.            *)
Quiet == UNCHANGED <<vars, arrived, sending, past>>

(* A step of the callbacks that leaves the ledger alone but for a row.     *)
OwnStep ==
  \/ \E r \in Requests : Decide(r)
  \/ \E a \in Senders : Accepted(a) \/ Refused(a) \/ MarkTold(a)
  \/ \E k \in Keys : ConfirmationsDone(k)
  \/ LoadCallbacks \/ LoadInvoice \/ LoadingFails \/ TakeCallback \/ NextCallback
  \/ Quiet

(* A step is one of the ledger, the end of a call, a restart or one of the *)
(* senders.                                                                *)
LEMMA Steps ==
  ASSUME [CallbacksNext]_allVars
  PROVE  \/ LedgerStep /\ Ledger(TRUE)
         \/ \E r \in Requests : DoneWith(r)
         \/ Restart \/ OwnStep \/ UNCHANGED allVars
<1>1. ASSUME ReleaseFails \/ \E k \in Keys : Age(k) \/ AskConfirmations(k) PROVE Quiet
  BY <1>1 DEF ReleaseFails, Age, AskConfirmations, Quiet
<1> QED BY <1>1 DEF CallbacksNext, Undisturbed, Handle, Send, Scheduler, Confirm, Ledger,
                LedgerStep, OwnStep, Senders

(* Steps of the ledger are steps of its specification.                     *)
LEMMA LedgerSteps == LedgerStep => Next
BY DEF LedgerStep, Next, Proceed

(* The row a ledger step inserts is the only new one.                      *)
LEMMA OneNewRow ==
  ASSUME LedgerStep
  PROVE  /\ table \subseteq table'
         /\ table' \ table = {} \/ \E k : table' \ table = {k}
<1>1. ASSUME NEW r \in Requests, InsertRow(r)
      PROVE  /\ table \subseteq table'
             /\ table' \ table = {} \/ \E k : table' \ table = {k}
  BY <1>1 DEF InsertRow
<1>2. UNCHANGED table \/ \E r \in Requests : InsertRow(r)
  BY LedgerSteps, RowsAreInserted
<1> QED BY <1>1, <1>2

(* A set of at most one element, as a sequence.                            *)
LEMMA SeqOfNew ==
  ASSUME NEW S, S = {} \/ \E k : S = {k}
  PROVE  SetToSeq(S) \in Seq(S)
<1>1. ASSUME S = {} PROVE \E f \in [1..Cardinality(S) -> S] : IsInjective(f)
  <2>1. Cardinality(S) = 0
    BY <1>1, FS_EmptySet
  <2>2. [n \in 1..0 |-> 0] \in [1..0 -> S] /\ IsInjective([n \in 1..0 |-> 0])
    BY DEF IsInjective
  <2> QED BY <2>1, <2>2
<1>2. ASSUME NEW k, S = {k} PROVE \E f \in [1..Cardinality(S) -> S] : IsInjective(f)
  <2>1. Cardinality(S) = 1
    BY <1>2, FS_Singleton
  <2>2. [n \in 1..1 |-> k] \in [1..1 -> S] /\ IsInjective([n \in 1..1 |-> k])
    BY <1>2 DEF IsInjective
  <2> QED BY <2>1, <2>2
<1>3. SetToSeq(S) \in [1..Cardinality(S) -> S]
  BY <1>1, <1>2 DEF SetToSeq
<1>4. Cardinality(S) \in Nat
  <2>1. ASSUME NEW k, S = {k} PROVE Cardinality(S) = 1
    BY <2>1, FS_Singleton
  <2> QED BY <2>1, FS_EmptySet
<1> QED BY <1>3, <1>4

(* Rows keep arriving in the table, and the ledger keeps what it had.      *)
LEMMA Arrival ==
  ASSUME DeliveryTypes, LedgerStep, Ledger(TRUE)
  PROVE  arrived' \in Seq(table')
<1>1. arrived \in Seq(table')
  BY OneNewRow, SeqMonotonic DEF DeliveryTypes
<1>2. SetToSeq(table' \ table) \in Seq(table')
  <2>1. SetToSeq(table' \ table) \in Seq(table' \ table)
    BY OneNewRow, SeqOfNew
  <2> QED BY <2>1, SeqMonotonic
<1> QED BY <1>1, <1>2, ConcatProperties DEF Ledger

(* The rows that are queried are due.                                      *)
LEMMA LoadIsDue ==
  ASSUME TypeOK, DeliveryTypes, LoadCallbacks
  PROVE  /\ loading' \in Seq(Keys)
         /\ \A n \in 1..Len(loading') : loading'[n] \in table /\ IsDue(loading'[n])
<1> DEFINE N == Cardinality(PendingCallback)
<1>1. PICK ids \in [1..N -> PendingCallback] :
        loading' = [n \in DOMAIN ids |-> arrived[ids[n]]]
  BY DEF LoadCallbacks
<1>2. N \in Nat
  <2>1. PendingCallback \subseteq 1..Len(arrived) /\ Len(arrived) \in Nat
    BY LenProperties DEF PendingCallback, Oldest, DeliveryTypes
  <2>2. IsFiniteSet(1..Len(arrived))
    BY <2>1, FS_Interval
  <2>3. IsFiniteSet(PendingCallback)
    BY <2>1, <2>2, FS_Subset
  <2> QED BY <2>3, FS_CardinalityType
<1> HIDE DEF N
<1>3. ASSUME NEW m \in PendingCallback
      PROVE  arrived[m] \in table /\ IsDue(arrived[m]) /\ arrived[m] \in Keys
  <2>1. m \in DOMAIN arrived /\ IsDue(arrived[m])
    BY DEF PendingCallback, Oldest
  <2> QED BY <2>1, LenProperties, ElementOfSeq DEF DeliveryTypes, TypeOK
<1>4. loading' \in [1..N -> Keys]
  BY <1>1, <1>3
<1>5. Len(loading') = N
  BY <1>2, <1>4, LenProperties
<1> QED BY <1>1, <1>2, <1>3, <1>4, <1>5

(* The invoice of a row is loaded as it is.                                *)
LEMMA InvoiceIsLoaded ==
  ASSUME TypeOK, DeliveryTypes, LoadInvoice
  PROVE  /\ loading \in Seq(Keys) /\ loading # <<>>
         /\ loading' = Tail(loading) /\ Head(loading) = loading[1]
         /\ 1 \in 1..Len(loading) /\ Head(loading) \in Keys
         /\ \E l \in Loaded : /\ batch' = Append(batch, l)
                              /\ l.key = Head(loading) /\ l.snap = SnapshotOf(l.key.inv)
<1>1. loading \in Seq(Keys) /\ loading # <<>> /\ loading' = Tail(loading)
  BY DEF LoadInvoice, DeliveryTypes
<1>2. 1 \in 1..Len(loading) /\ Head(loading) = loading[1] /\ Head(loading) \in Keys
  BY <1>1, HeadTailProperties, LenProperties, EmptySeq
<1>3. SnapshotOf(Head(loading).inv) \in Snapshot
  BY <1>2, KeyType, SnapshotType DEF Keys
<1> DEFINE l == [key |-> Head(loading), snap |-> SnapshotOf(Head(loading).inv)]
<1>4. l \in Loaded /\ l.key = Head(loading) /\ l.snap = SnapshotOf(l.key.inv)
  BY <1>2, <1>3 DEF Loaded
<1>5. batch' = Append(batch, l)
  BY DEF LoadInvoice
<1> QED BY <1>1, <1>2, <1>4, <1>5

(* Every step keeps the types.                                             *)
LEMMA KeepsTypes ==
  ASSUME TypeOK, DeliveryTypes, SendersAreBusy, [CallbacksNext]_allVars
  PROVE  TypeOK' /\ DeliveryTypes'
<1> USE CallbacksAssumption
<1>1. CASE LedgerStep /\ Ledger(TRUE)
  <2>1. TypeOK'
    BY <1>1, LedgerSteps, StepType
  <2>2. arrived' \in Seq(table') /\ UNCHANGED <<loading, batch, stage>>
    BY <1>1, Arrival DEF Ledger
  <2>3. stored' \in [Invoices -> SUBSET Account]
    BY <1>1, <2>1 DEF Ledger, TypeOK, DeliveryTypes
  <2> QED BY <2>1, <2>2, <2>3 DEF DeliveryTypes
<1>2. ASSUME NEW r \in Requests, DoneWith(r) PROVE TypeOK' /\ DeliveryTypes'
  <2>1. TypeOK'
    BY <1>2, StepType DEF DoneWith, Next, Proceed
  <2>2. UNCHANGED table
    BY <1>2 DEF DoneWith, Return, tables
  <2> QED BY <1>2, <2>1, <2>2 DEF DoneWith, Stage, past, DeliveryTypes, Senders
<1>3. CASE Restart
  <2>1. TypeOK' /\ UNCHANGED table
    BY <1>3, StepType DEF Restart, Next, Crash, tables
  <2>2. batch' \in Seq(Loaded) /\ loading' \in Seq(Keys)
    BY <1>3, EmptySeq DEF Restart
  <2> QED BY <1>3, <2>1, <2>2 DEF Restart, past, DeliveryTypes
<1>4. CASE UNCHANGED allVars
  BY <1>4, StepType DEF allVars, delivery, past, DeliveryTypes, vars, tables
<1>5. ASSUME UNCHANGED vars PROVE TypeOK' /\ UNCHANGED table
  BY <1>5, StepType DEF vars, tables
<1>6. ASSUME NEW k, rows' = rows \/ rows' = [rows EXCEPT ![k].needMore = FALSE]
                    \/ rows' = [rows EXCEPT ![k].told = TRUE],
             UNCHANGED <<quote, account, table, unconfirmed, depth, reqVars, history>>
      PROVE  TypeOK'
  <2>1. ASSUME NEW row \in Row
        PROVE  [row EXCEPT !.needMore = FALSE] \in Row /\ [row EXCEPT !.told = TRUE] \in Row
    BY DEF Row
  <2>2. rows' \in [Keys -> Row]
    <3>1. CASE rows' = rows
      BY <3>1 DEF TypeOK
    <3>2. CASE rows' = [rows EXCEPT ![k].needMore = FALSE]
      <4>1. rows' = [rows EXCEPT ![k] = [rows[k] EXCEPT !.needMore = FALSE]]
        BY <3>2
      <4>2. k \in Keys => [rows[k] EXCEPT !.needMore = FALSE] \in Row
        BY <2>1 DEF TypeOK
      <4> QED BY <4>1, <4>2 DEF TypeOK
    <3>3. CASE rows' = [rows EXCEPT ![k].told = TRUE]
      <4>1. rows' = [rows EXCEPT ![k] = [rows[k] EXCEPT !.told = TRUE]]
        BY <3>3
      <4>2. k \in Keys => [rows[k] EXCEPT !.told = TRUE] \in Row
        BY <2>1 DEF TypeOK
      <4> QED BY <4>1, <4>2 DEF TypeOK
    <3> QED BY <1>6, <3>1, <3>2, <3>3
  <2> QED BY <1>6, <2>2 DEF TypeOK, reqVars, history
<1>7. ASSUME NEW a \in Senders, NEW s \in {"none", "post", "mark", "done"}, Stage(a, s)
      PROVE  stage' \in [Senders -> {"none", "post", "mark", "done"}]
  BY <1>7 DEF Stage, DeliveryTypes
<1>8. ASSUME NEW r \in Requests, Decide(r) PROVE TypeOK' /\ DeliveryTypes'
  <2>1. \E s \in {"none", "post", "mark", "done"} : Stage(r, s)
    BY <1>8 DEF Decide
  <2> QED BY <1>5, <1>7, <1>8, <2>1 DEF Decide, DeliveryTypes, Senders
<1>9. ASSUME NEW a \in Senders, Accepted(a) \/ Refused(a) \/ MarkTold(a)
      PROVE  TypeOK' /\ DeliveryTypes'
  <2>1. TypeOK' /\ UNCHANGED table
    BY <1>5, <1>6, <1>9 DEF Accepted, Refused, MarkTold
  <2>2. /\ \E s \in {"mark", "done"} : Stage(a, s)
        /\ UNCHANGED <<arrived, loading, batch, stored>>
    BY <1>9 DEF Accepted, Refused, MarkTold, past
  <2> QED BY <1>7, <2>1, <2>2 DEF DeliveryTypes
<1>10. ASSUME NEW k \in Keys, ConfirmationsDone(k) PROVE TypeOK' /\ DeliveryTypes'
  <2>1. TypeOK' /\ UNCHANGED table
    BY <1>6, <1>10 DEF ConfirmationsDone
  <2> QED BY <1>10, <2>1 DEF ConfirmationsDone, past, DeliveryTypes
<1>11. CASE LoadCallbacks
  <2>1. TypeOK' /\ UNCHANGED <<table, arrived, batch, stage, stored>>
    BY <1>5, <1>11 DEF LoadCallbacks, past
  <2>2. loading' \in Seq(Keys)
    BY <1>11, LoadIsDue
  <2> QED BY <2>1, <2>2 DEF DeliveryTypes
<1>14. CASE LoadInvoice
  <2>1. TypeOK' /\ UNCHANGED <<table, arrived, stage, stored>>
    BY <1>5, <1>14 DEF LoadInvoice, past
  <2>2. loading' \in Seq(Keys)
    BY <1>14, InvoiceIsLoaded, HeadTailProperties
  <2>3. batch' \in Seq(Loaded)
    <3>1. PICK l \in Loaded : batch' = Append(batch, l)
      BY <1>14, InvoiceIsLoaded
    <3>2. batch \in Seq(Loaded)
      BY DEF DeliveryTypes
    <3> QED BY <3>1, <3>2, AppendProperties
  <2> QED BY <2>1, <2>2, <2>3 DEF DeliveryTypes
<1>15. CASE LoadingFails
  <2>1. TypeOK' /\ UNCHANGED <<table, arrived, stage, stored>>
    BY <1>5, <1>15 DEF LoadingFails, past
  <2>2. loading' \in Seq(Keys) /\ batch' \in Seq(Loaded)
    BY <1>15, EmptySeq DEF LoadingFails
  <2> QED BY <2>1, <2>2 DEF DeliveryTypes
<1>16. CASE Quiet
  BY <1>5, <1>16 DEF Quiet, past, DeliveryTypes
<1>12. CASE TakeCallback
  <2>1. \E s \in {"done", "post"} : Stage(scheduler, s)
    BY <1>12 DEF TakeCallback
  <2> QED BY <1>5, <1>7, <1>12, <2>1 DEF TakeCallback, past, DeliveryTypes, Senders
<1>13. CASE NextCallback
  <2>1. batch # <<>>
    BY <1>13 DEF NextCallback, SendersAreBusy
  <2>2. batch' \in Seq(Loaded)
    BY <1>13, <2>1, HeadTailProperties DEF NextCallback, DeliveryTypes
  <2> QED BY <1>5, <1>7, <1>13, <2>2 DEF NextCallback, past, DeliveryTypes, Senders
<1> QED BY <1>1, <1>2, <1>3, <1>4, <1>8, <1>9, <1>10, <1>11, <1>12, <1>13, <1>14,
          <1>15, <1>16, Steps DEF OwnStep

-----------------------------------------------------------------------------
(* A row that is there stays, and once it has its blocks it keeps them.    *)
LEMMA RowsImprove ==
  ASSUME TypeOK, [CallbacksNext]_allVars, NEW k \in table
  PROVE  k \in table' /\ (~rows[k].needMore => ~rows'[k].needMore)
<1>1. CASE LedgerStep
  <2>1. ASSUME NEW r \in Requests, InsertRow(r)
        PROVE  k \in table' /\ rows'[k] = rows[k]
    BY <2>1 DEF InsertRow, TypeOK
  <2>2. UNCHANGED <<table, rows>> \/ \E r \in Requests : InsertRow(r)
    BY <1>1, LedgerSteps, RowsAreInserted
  <2> QED BY <2>1, <2>2
<1>2. CASE ~LedgerStep
  <2>1. /\ UNCHANGED table
        /\ \/ UNCHANGED rows
           \/ \E j : rows' = [rows EXCEPT ![j].needMore = FALSE]
           \/ \E j : rows' = [rows EXCEPT ![j].told = TRUE]
    BY <1>2, Steps DEF DoneWith, Return, Restart, Crash, OwnStep, Decide, Accepted, Refused,
         MarkTold, Quiet,
         ConfirmationsDone, LoadCallbacks, LoadInvoice, LoadingFails,
         TakeCallback, NextCallback,
         vars, tables, allVars
  <2>2. ASSUME NEW j, rows' = [rows EXCEPT ![j].needMore = FALSE]
        PROVE  ~rows[k].needMore => ~rows'[k].needMore
    <3>1. rows' = [rows EXCEPT ![j] = [rows[j] EXCEPT !.needMore = FALSE]]
      BY <2>2
    <3>2. k \in Keys /\ rows[k] \in Row
      BY DEF TypeOK
    <3> QED BY <3>1, <3>2 DEF TypeOK, Row
  <2>3. ASSUME NEW j, rows' = [rows EXCEPT ![j].told = TRUE]
        PROVE  rows'[k].needMore = rows[k].needMore
    <3>1. rows' = [rows EXCEPT ![j] = [rows[j] EXCEPT !.told = TRUE]]
      BY <2>3
    <3>2. k \in Keys /\ rows[k] \in Row
      BY DEF TypeOK
    <3> QED BY <3>1, <3>2 DEF TypeOK, Row
  <2> QED BY <2>1, <2>2, <2>3
<1> QED BY <1>1, <1>2

(* Nothing that was accepted or stored is forgotten.                       *)
LEMMA PastGrows ==
  ASSUME DeliveryTypes, [CallbacksNext]_allVars
  PROVE  /\ settled \subseteq settled'
         /\ \A i \in Invoices : stored[i] \subseteq stored'[i]
<1>1. settled \subseteq settled'
  BY Steps DEF Ledger, DoneWith, Restart, OwnStep, Decide, Accepted, Refused,
       MarkTold, Quiet,
         ConfirmationsDone, LoadCallbacks, LoadInvoice, LoadingFails,
         TakeCallback, NextCallback,
       allVars, past
<1>2. UNCHANGED stored \/ stored' = [i \in Invoices |-> stored[i] \cup {account'[i]}]
  BY Steps DEF Ledger, DoneWith, Restart, OwnStep, Decide, Accepted, Refused,
       MarkTold, Quiet,
         ConfirmationsDone, LoadCallbacks, LoadInvoice, LoadingFails,
         TakeCallback, NextCallback,
       allVars, past
<1> QED BY <1>1, <1>2

(* A request at a recorded row is not touched by the ledger's steps.       *)
LEMMA LedgerWaits ==
  ASSUME TypeOK, LedgerStep, NEW r \in Requests, pc[r] = "recorded"
  PROVE  pc'[r] = "recorded" /\ cur'[r] = cur[r] /\ snap'[r] = snap[r]
<1>1. CASE UNCHANGED <<pc, cur, snap>>
  BY <1>1
<1>2. ASSUME NEW s \in Requests, Start(s) \/ Book(s) \/ Reply(s) \/ Break(s)
                                 \/ \E t \in todo[s] : SeeUnconfirmed(s, t)
      PROVE  /\ s # r
             /\ \/ UNCHANGED pc \/ \E p : pc' = [pc EXCEPT ![s] = p]
             /\ \/ UNCHANGED cur \/ \E t : cur' = [cur EXCEPT ![s] = t]
             /\ \/ UNCHANGED snap \/ \E n : snap' = [snap EXCEPT ![s] = n]
  BY <1>2 DEF Start, WalletNotify, VerifiedTransaction, Book, ReadInvoice, CheckExisting,
       InsertRow, Credit, ClearUnconfirmed, Reply, Break, Fail, Skip, SeeUnconfirmed, Goto, Finish,
       reqVars
<1>3. ASSUME NEW x, Mine(x) PROVE UNCHANGED <<pc, cur, snap>>
  BY <1>3 DEF Mine, reqVars
<1>4. ASSUME NEW i, NEW q, Requote(i, q) PROVE UNCHANGED <<pc, cur, snap>>
  BY <1>4 DEF Requote, reqVars
<1> QED BY <1>1, <1>2, <1>3, <1>4 DEF LedgerStep, TypeOK

(* Whoever is with a callback keeps it until it is done with it.           *)
LEMMA SendersStay ==
  ASSUME TypeOK, DeliveryTypes, SendersAreBusy, [CallbacksNext]_allVars
  PROVE  /\ \A r \in Requests : stage'[r] # "none" =>
              /\ pc[r] = "recorded" /\ pc'[r] = "recorded"
              /\ cur'[r] = cur[r] /\ snap'[r] = snap[r]
         /\ stage'[scheduler] # "none" =>
              /\ batch # <<>> /\ batch' = batch
              /\ loading = <<>> /\ loading' = loading
<1> USE CallbacksAssumption
<1>1. CASE LedgerStep /\ Ledger(TRUE)
  BY <1>1, LedgerWaits DEF Ledger, SendersAreBusy
<1>2. ASSUME NEW s \in Requests, DoneWith(s)
      PROVE  /\ \A r \in Requests \ {s} :
                   pc'[r] = pc[r] /\ cur'[r] = cur[r] /\ snap'[r] = snap[r] /\ stage'[r] = stage[r]
             /\ stage'[s] = "none" /\ stage'[scheduler] = stage[scheduler]
             /\ UNCHANGED <<batch, loading>>
  BY <1>2 DEF DoneWith, Return, Finish, Goto, Stage, TypeOK, DeliveryTypes, Senders
<1>3. CASE Restart
  BY <1>3 DEF Restart, Senders
<1>4. CASE OwnStep
  <2>1. UNCHANGED <<pc, cur, snap>>
    BY <1>4 DEF OwnStep, Decide, Accepted, Refused, MarkTold, Quiet,
         ConfirmationsDone, LoadCallbacks, LoadInvoice, LoadingFails,
         TakeCallback, NextCallback, vars, reqVars
  <2>2. \/ UNCHANGED <<stage, batch, loading>>
        \/ LoadCallbacks \/ LoadInvoice \/ LoadingFails
        \/ NextCallback
        \/ TakeCallback
        \/ \E a \in Senders, s \in {"none", "post", "mark", "done"} :
             /\ stage[a] # "none" \/ (a \in Requests /\ pc[a] = "recorded")
             /\ Stage(a, s) /\ UNCHANGED <<batch, loading>>
    <3>1. ASSUME NEW r \in Requests, Decide(r)
          PROVE  /\ r \in Senders /\ pc[r] = "recorded" /\ UNCHANGED <<batch, loading>>
                 /\ \E s \in {"none", "post", "mark", "done"} : Stage(r, s)
      BY <3>1 DEF Decide, Senders
    <3>2. ASSUME NEW a \in Senders, Accepted(a) \/ Refused(a) \/ MarkTold(a)
          PROVE  /\ stage[a] # "none" /\ UNCHANGED <<batch, loading>>
                 /\ \E s \in {"none", "post", "mark", "done"} : Stage(a, s)
      BY <3>2 DEF Accepted, Refused, MarkTold
    <3>3. ASSUME Quiet \/ \E k \in Keys : ConfirmationsDone(k)
          PROVE  UNCHANGED <<stage, batch, loading>>
      BY <3>3 DEF Quiet, ConfirmationsDone
    <3>4. \/ \E r \in Requests : Decide(r)
          \/ \E a \in Senders : Accepted(a) \/ Refused(a) \/ MarkTold(a)
          \/ Quiet \/ \E k \in Keys : ConfirmationsDone(k)
          \/ LoadCallbacks \/ LoadInvoice \/ LoadingFails \/ TakeCallback \/ NextCallback
      BY <1>4 DEF OwnStep
    <3>5. CASE \E r \in Requests : Decide(r)
      BY <3>1, <3>5
    <3>6. CASE \E a \in Senders : Accepted(a) \/ Refused(a) \/ MarkTold(a)
      <4>1. PICK a \in Senders : Accepted(a) \/ Refused(a) \/ MarkTold(a)
        BY <3>6
      <4>2. PICK s \in {"none", "post", "mark", "done"} : Stage(a, s)
        BY <3>2, <4>1
      <4>3. stage[a] # "none" /\ UNCHANGED <<batch, loading>>
        BY <3>2, <4>1
      <4>4. \E b \in Senders, t \in {"none", "post", "mark", "done"} :
              /\ stage[b] # "none" \/ (b \in Requests /\ pc[b] = "recorded")
              /\ Stage(b, t) /\ UNCHANGED <<batch, loading>>
        BY <4>1, <4>2, <4>3, Zenon
      <4> QED BY <4>4, Zenon
    <3> QED BY <3>3, <3>4, <3>5, <3>6
  <2>3. CASE LoadCallbacks \/ LoadInvoice \/ LoadingFails
    BY <2>1, <2>3 DEF LoadCallbacks, LoadInvoice, LoadingFails, SendersAreBusy
  <2>4. CASE NextCallback
    BY <2>1, <2>4 DEF NextCallback, SendersAreBusy, Stage, DeliveryTypes, Senders
  <2>5. CASE TakeCallback
    BY <2>1, <2>5 DEF TakeCallback, SendersAreBusy, Stage, DeliveryTypes, Senders
  <2>6. ASSUME NEW a \in Senders, NEW s,
               stage[a] # "none" \/ (a \in Requests /\ pc[a] = "recorded"),
               Stage(a, s), UNCHANGED <<batch, loading>>
        PROVE  /\ \A r \in Requests : stage'[r] # "none" => pc[r] = "recorded"
               /\ stage'[scheduler] # "none" => batch # <<>> /\ loading = <<>>
    BY <2>6 DEF SendersAreBusy, Stage, DeliveryTypes, Senders
  <2> QED BY <2>1, <2>2, <2>3, <2>4, <2>5, <2>6 DEF SendersAreBusy, Senders
<1>5. CASE UNCHANGED allVars
  BY <1>5 DEF allVars, vars, delivery, reqVars, SendersAreBusy
<1>6. ASSUME NEW s \in Requests, DoneWith(s)
      PROVE  /\ \A r \in Requests : stage'[r] # "none" =>
                 /\ pc[r] = "recorded" /\ pc'[r] = "recorded"
                 /\ cur'[r] = cur[r] /\ snap'[r] = snap[r]
             /\ stage'[scheduler] # "none" =>
                 /\ batch # <<>> /\ batch' = batch
                 /\ loading = <<>> /\ loading' = loading
  BY <1>2, <1>6 DEF SendersAreBusy
<1> QED BY <1>1, <1>3, <1>4, <1>5, <1>6, Steps

-----------------------------------------------------------------------------
(* A request that has recorded a row knows whether it waits for blocks.    *)
LEMMA KeepsRecorded ==
  ASSUME TypeOK, DeliveryTypes, SendersAreBusy, RecordedIsInPlace, [CallbacksNext]_allVars
  PROVE  RecordedIsInPlace'
<1> SUFFICES ASSUME NEW r \in Requests, pc'[r] \in Recorded
             PROVE  /\ Key(cur'[r]) \in table'
                    /\ ~NeedMore(r)' => ~rows'[Key(cur'[r])].needMore
  BY DEF RecordedIsInPlace, Key
<1>1. ASSUME pc[r] \in Recorded, cur'[r] = cur[r], found'[r] = found[r], seen'[r] = seen[r],
             snap'[r].quote = snap[r].quote
      PROVE  /\ Key(cur'[r]) \in table'
             /\ ~NeedMore(r)' => ~rows'[Key(cur'[r])].needMore
  BY <1>1, RowsImprove DEF RecordedIsInPlace, NeedMore
<1>2. CASE LedgerStep
  <2>1. ASSUME CheckExisting(r)
        PROVE  /\ Key(cur'[r]) \in table'
               /\ ~NeedMore(r)' => ~rows'[Key(cur'[r])].needMore
    BY <2>1 DEF CheckExisting, FindingOf, NeedMore, Goto, Recorded, TypeOK, tables
  <2>2. ASSUME InsertRow(r)
        PROVE  /\ Key(cur'[r]) \in table'
               /\ ~NeedMore(r)' => ~rows'[Key(cur'[r])].needMore
    <3>1. cur'[r] = cur[r] /\ snap'[r] = snap[r] /\ seen'[r] = seen[r]
          /\ found'[r] = FindingOf(Key(cur[r])) /\ Key(cur[r]) \in Keys
      BY <2>2, KeyType DEF InsertRow, TypeOK
    <3>2. CASE Key(cur[r]) \in table
      BY <2>2, <3>1, <3>2 DEF InsertRow, FindingOf, NeedMore
    <3>3. CASE Key(cur[r]) \notin table
      <4>1. /\ found'[r] = "none" /\ Key(cur[r]) \in table'
            /\ rows'[Key(cur[r])] = RowFor(cur[r], snap[r].quote, seen[r])
        BY <2>2, <3>1, <3>3 DEF InsertRow, FindingOf, TypeOK, Row
      <4>2. rows'[Key(cur[r])].needMore
              = (seen[r] < Wallet[snap[r].quote.crypto].confirmations)
        BY <4>1 DEF RowFor
      <4>3. NeedMore(r)' = (seen[r] < Wallet[snap[r].quote.crypto].confirmations)
        BY <3>1, <4>1 DEF NeedMore
      <4> QED BY <3>1, <4>1, <4>2, <4>3
    <3> QED BY <3>2, <3>3
  <2>3. ASSUME Credit(r) \/ ClearUnconfirmed(r)
        PROVE  /\ pc[r] \in Recorded /\ cur'[r] = cur[r] /\ found'[r] = found[r] /\ seen'[r] = seen[r]
               /\ snap'[r].quote = snap[r].quote
    <3>1. Credited(r).quote = snap[r].quote
      BY DEF Credited
    <3> QED BY <2>3, <3>1 DEF Credit, ClearUnconfirmed, Recorded, TypeOK
  <2>4. ASSUME NEW s \in Requests \ {r},
               Start(s) \/ Book(s) \/ Reply(s) \/ Break(s) \/ \E t \in todo[s] : SeeUnconfirmed(s, t)
        PROVE  pc'[r] = pc[r] /\ cur'[r] = cur[r] /\ found'[r] = found[r] /\ seen'[r] = seen[r]
               /\ snap'[r] = snap[r]
    BY <2>4 DEF Start, WalletNotify, VerifiedTransaction, Book, ReadInvoice, CheckExisting,
         InsertRow, Credit, ClearUnconfirmed, Reply, Break, Fail, Skip, SeeUnconfirmed, Goto,
         Finish, reqVars, TypeOK
  <2>5. ASSUME \/ Start(r) \/ Reply(r) \/ Break(r) \/ \E t \in todo[r] : SeeUnconfirmed(r, t)
               \/ \E t \in todo[r] : ReadInvoice(r, t)
        PROVE  FALSE
    BY <2>5 DEF Start, WalletNotify, VerifiedTransaction, ReadInvoice, Reply, Break, Fail, Skip,
         SeeUnconfirmed, Goto, Finish, TypeOK, Recorded
  <2>6. ASSUME \/ \E x \in TxIDs : Mine(x)
               \/ \E i \in Invoices : \E q \in QuotesOf[i] : Requote(i, q)
        PROVE  pc'[r] = pc[r] /\ cur'[r] = cur[r] /\ found'[r] = found[r] /\ seen'[r] = seen[r]
               /\ snap'[r] = snap[r]
    BY <2>6 DEF Mine, Requote, reqVars
  <2> QED BY <1>1, <1>2, <2>1, <2>2, <2>3, <2>4, <2>5, <2>6 DEF LedgerStep, Book
<1>3. ASSUME NEW s \in Requests, DoneWith(s)
      PROVE  /\ s # r /\ pc'[r] = pc[r] /\ cur'[r] = cur[r] /\ found'[r] = found[r]
             /\ seen'[r] = seen[r] /\ snap'[r] = snap[r]
  BY <1>3 DEF DoneWith, Return, Finish, Goto, TypeOK, Recorded
<1>4. ~Restart
  BY DEF Restart, Crash, Recorded
<1>5. CASE OwnStep \/ UNCHANGED allVars
  <2>1. UNCHANGED <<pc, cur, found, seen, snap>>
    BY <1>5 DEF OwnStep, Decide, Accepted, Refused, MarkTold, Quiet,
         ConfirmationsDone, LoadCallbacks, LoadInvoice, LoadingFails,
         TakeCallback, NextCallback, vars, reqVars, allVars
  <2> QED BY <1>1, <2>1
<1> QED BY <1>1, <1>2, <1>3, <1>4, <1>5, Steps

(* What the scheduler has queried stays due.                               *)
LEMMA KeepsQueried ==
  ASSUME TypeOK, DeliveryTypes, QueriedIsDue, [CallbacksNext]_allVars
  PROVE  QueriedIsDue'
<1> SUFFICES ASSUME NEW n \in 1..Len(loading')
             PROVE  loading'[n] \in table' /\ ~rows'[loading'[n]].needMore
  BY DEF QueriedIsDue
<1>1. ASSUME NEW k \in table, ~rows[k].needMore
      PROVE  k \in table' /\ ~rows'[k].needMore
  BY <1>1, RowsImprove
<1>2. CASE loading' = loading
  BY <1>1, <1>2 DEF QueriedIsDue
<1>3. CASE loading' = <<>>
  BY <1>3
<1>4. CASE LoadInvoice
  <2>1. Len(loading) \in Nat /\ Len(loading') = Len(loading) - 1
    BY <1>4, InvoiceIsLoaded, HeadTailProperties, LenProperties
  <2>2. n + 1 \in 1..Len(loading)
    BY <2>1
  <2>3. \A m \in 1..Len(Tail(loading)) : Tail(loading)[m] = loading[m + 1]
    BY <1>4, InvoiceIsLoaded, HeadTailProperties
  <2>4. loading'[n] = loading[n + 1]
    BY <1>4, InvoiceIsLoaded, <2>3
  <2> QED BY <1>1, <2>2, <2>4 DEF QueriedIsDue
<1>5. CASE LoadCallbacks
  <2>1. loading'[n] \in table /\ ~rows[loading'[n]].needMore
    BY <1>5, LoadIsDue DEF IsDue
  <2> QED BY <1>1, <2>1
<1>6. loading' = loading \/ loading' = <<>> \/ LoadInvoice \/ LoadCallbacks
  BY Steps DEF Ledger, DoneWith, Restart, OwnStep, Decide, Accepted, Refused, MarkTold, Quiet,
       ConfirmationsDone, LoadingFails, TakeCallback, NextCallback, allVars, delivery
<1> QED BY <1>2, <1>3, <1>4, <1>5, <1>6

(* What the scheduler has loaded stays due.                                *)
LEMMA KeepsLoaded ==
  ASSUME TypeOK, DeliveryTypes, SendersAreBusy, QueriedIsDue, LoadedIsDue, SnapsAreStored,
         [CallbacksNext]_allVars
  PROVE  LoadedIsDue'
<1> DEFINE Due(l) == /\ l.key \in table /\ ~rows[l.key].needMore
                     /\ Payload(l.snap) \in stored[l.key.inv]
<1>1. ASSUME NEW l \in Loaded, Due(l) PROVE Due(l)'
  <2>1. l.key \in Keys /\ l.key.inv \in Invoices
    BY KeyType DEF Loaded, Keys
  <2> QED BY <1>1, <2>1, RowsImprove, PastGrows
<1>2. \A n \in 1..Len(batch) : batch[n] \in Loaded /\ Due(batch[n])
  BY ElementOfSeq DEF LoadedIsDue, DeliveryTypes
<1>3. SUFFICES ASSUME NEW n \in 1..Len(batch'), NEW l, l = batch'[n]
               PROVE  Due(l)'
  <2>1. \A n \in 1..Len(batch') : \A l : l = batch'[n] => Due(l)'
    BY <1>3
  <2> HIDE DEF Due
  <2>2. ASSUME NEW n \in 1..Len(batch')
        PROVE  /\ batch'[n].key \in table' /\ ~rows'[batch'[n].key].needMore
               /\ Payload(batch'[n].snap) \in stored'[batch'[n].key.inv]
    <3>1. PICK l : l = batch'[n]
      OBVIOUS
    <3>2. Due(l)'
      BY <2>1, <3>1
    <3> QED BY <3>1, <3>2 DEF Due, Payload
  <2> QED BY <2>2 DEF LoadedIsDue, Payload
<1>4. CASE batch' = batch
  BY <1>1, <1>2, <1>3, <1>4
<1>5. CASE Restart \/ LoadingFails
  BY <1>3, <1>5 DEF Restart, LoadingFails
<1>6. CASE NextCallback
  <2>1. batch # <<>> /\ batch' = Tail(batch)
    BY <1>6 DEF NextCallback, SendersAreBusy
  <2>2. Len(batch) \in Nat /\ Len(batch') = Len(batch) - 1
    BY <2>1, HeadTailProperties, LenProperties DEF DeliveryTypes
  <2>3. n + 1 \in 1..Len(batch)
    BY <1>3, <2>2
  <2>4. \A m \in 1..Len(Tail(batch)) : Tail(batch)[m] = batch[m + 1]
    BY <2>1, HeadTailProperties DEF DeliveryTypes
  <2>5. l = batch[n + 1]
    BY <1>3, <2>1, <2>4
  <2> QED BY <1>1, <1>2, <2>3, <2>5
<1>7. CASE LoadInvoice
  <2>1. PICK k \in Loaded : /\ batch' = Append(batch, k)
                           /\ k.key = Head(loading) /\ k.snap = SnapshotOf(k.key.inv)
    BY <1>7, InvoiceIsLoaded
  <2>2. k.key \in table /\ ~rows[k.key].needMore
    BY <1>7, <2>1, InvoiceIsLoaded DEF QueriedIsDue
  <2>3. k.key.inv \in Invoices
    BY <2>1, KeyType DEF Loaded, Keys
  <2>4. Payload(k.snap) = account[k.key.inv]
    BY <2>1, <2>3 DEF Payload, SnapshotOf, TypeOK, Account
  <2>5. Due(k)
    BY <2>2, <2>3, <2>4 DEF SnapsAreStored
  <2>6. l = k \/ (n \in 1..Len(batch) /\ l = batch[n])
    <3>1. batch \in Seq(Loaded) /\ Len(batch) \in Nat
      BY LenProperties DEF DeliveryTypes
    <3>2. /\ Len(Append(batch, k)) = Len(batch) + 1
          /\ \A m \in 1..Len(batch) : Append(batch, k)[m] = batch[m]
          /\ Append(batch, k)[Len(batch) + 1] = k
      BY <3>1, AppendProperties
    <3> QED BY <1>3, <2>1, <3>1, <3>2
  <2> QED BY <1>1, <1>2, <2>1, <2>5, <2>6
<1>8. batch' = batch \/ Restart \/ LoadingFails \/ NextCallback \/ LoadInvoice
  BY Steps DEF Ledger, DoneWith, OwnStep, Decide, Accepted, Refused, MarkTold, Quiet,
       ConfirmationsDone, LoadCallbacks, TakeCallback, allVars, delivery
<1> QED BY <1>4, <1>5, <1>6, <1>7, <1>8

(* The invoice as a request holds it was stored like that once.            *)
LEMMA KeepsSnaps ==
  ASSUME TypeOK, DeliveryTypes, SnapsAreStored, [CallbacksNext]_allVars
  PROVE  SnapsAreStored'
<1>1. ASSUME NEW i \in Invoices PROVE account'[i] \in stored'[i]
  <2>1. CASE Ledger(TRUE)
    BY <1>1, <2>1 DEF Ledger
  <2>2. CASE ~Ledger(TRUE)
    <3>1. UNCHANGED account
      BY <2>2, Steps DEF DoneWith, Return, Restart, Crash, OwnStep, Decide, Accepted, Refused,
           MarkTold, Quiet,
         ConfirmationsDone, LoadCallbacks, LoadInvoice, LoadingFails,
         TakeCallback, NextCallback, vars,
           tables, allVars
    <3> QED BY <1>1, <3>1, PastGrows DEF SnapsAreStored
  <2> QED BY <2>1, <2>2
<1>2. SUFFICES ASSUME NEW r \in Requests, pc'[r] \in Recorded \cup Booking
               PROVE  Payload(snap'[r]) \in stored'[cur'[r].inv]
  BY <1>1 DEF SnapsAreStored, Payload
<1>3. ASSUME pc[r] \in Recorded \cup Booking, cur'[r] = cur[r], snap'[r] = snap[r]
      PROVE  Payload(snap'[r]) \in stored'[cur'[r].inv]
  <2>1. cur[r].inv \in Invoices
    BY KeyType DEF TypeOK
  <2> QED BY <1>3, <2>1, PastGrows DEF SnapsAreStored
<1>4. CASE LedgerStep /\ Ledger(TRUE)
  <2>1. ASSUME NEW t \in todo[r], ReadInvoice(r, t)
        PROVE  Payload(snap'[r]) \in stored'[cur'[r].inv]
    <3>1. /\ t \in Transfers /\ t.inv \in Invoices
          /\ cur'[r] = t /\ snap'[r] = SnapshotOf(t.inv)
      BY <2>1, KeyType DEF ReadInvoice, TypeOK
    <3>2. Payload(SnapshotOf(t.inv)) = account[t.inv]
      BY <3>1 DEF Payload, SnapshotOf, TypeOK, Account
    <3> QED BY <3>1, <3>2, PastGrows DEF SnapsAreStored
  <2>2. ASSUME Credit(r) PROVE Payload(snap'[r]) \in stored'[cur'[r].inv]
    <3>1. /\ cur'[r] = cur[r] /\ cur[r].inv \in Invoices /\ snap'[r] = Credited(r)
          /\ account'[cur[r].inv] = Payload(Credited(r))
      BY <2>2, KeyType DEF Credit, TypeOK, Payload
    <3> QED BY <1>1, <3>1
  <2>3. ASSUME CheckExisting(r) \/ InsertRow(r) \/ ClearUnconfirmed(r)
        PROVE  pc[r] \in Recorded \cup Booking /\ cur'[r] = cur[r] /\ snap'[r] = snap[r]
    BY <2>3 DEF CheckExisting, InsertRow, ClearUnconfirmed, Recorded, Booking
  <2>4. ASSUME NEW s \in Requests \ {r},
               Start(s) \/ Book(s) \/ Reply(s) \/ Break(s) \/ \E t \in todo[s] : SeeUnconfirmed(s, t)
        PROVE  pc'[r] = pc[r] /\ cur'[r] = cur[r] /\ snap'[r] = snap[r]
    BY <2>4 DEF Start, WalletNotify, VerifiedTransaction, Book, ReadInvoice, CheckExisting,
         InsertRow, Credit, ClearUnconfirmed, Reply, Break, Fail, Skip, SeeUnconfirmed, Goto,
         Finish, reqVars, TypeOK
  <2>5. ASSUME Start(r) \/ Reply(r) \/ Break(r) \/ \E t \in todo[r] : SeeUnconfirmed(r, t)
        PROVE  FALSE
    BY <1>2, <2>5 DEF Start, WalletNotify, VerifiedTransaction, Reply, Break, Fail, Skip,
         SeeUnconfirmed, Goto, Finish, TypeOK, Recorded, Booking
  <2>6. ASSUME \/ \E x \in TxIDs : Mine(x)
               \/ \E i \in Invoices : \E q \in QuotesOf[i] : Requote(i, q)
        PROVE  pc'[r] = pc[r] /\ cur'[r] = cur[r] /\ snap'[r] = snap[r]
    BY <2>6 DEF Mine, Requote, reqVars
  <2> QED BY <1>2, <1>3, <1>4, <2>1, <2>2, <2>3, <2>4, <2>5, <2>6 DEF LedgerStep, Book
<1>5. ASSUME NEW s \in Requests, DoneWith(s)
      PROVE  s # r /\ pc'[r] = pc[r] /\ cur'[r] = cur[r] /\ snap'[r] = snap[r]
  BY <1>2, <1>5 DEF DoneWith, Return, Finish, Goto, TypeOK, Recorded, Booking
<1>6. ~Restart
  BY <1>2 DEF Restart, Crash, Recorded, Booking
<1>7. CASE OwnStep \/ UNCHANGED allVars
  <2>1. UNCHANGED <<pc, cur, snap>>
    BY <1>7 DEF OwnStep, Decide, Accepted, Refused, MarkTold, Quiet,
         ConfirmationsDone, LoadCallbacks, LoadInvoice, LoadingFails,
         TakeCallback, NextCallback, vars, reqVars, allVars
  <2> QED BY <1>2, <1>3, <2>1
<1> QED BY <1>2, <1>3, <1>4, <1>5, <1>6, <1>7, Steps

-----------------------------------------------------------------------------
(* Only a request that decides to, or the scheduler's next callback, posts *)
(* and only what was accepted or needs no callback is marked.              *)
LEMMA StageIsReached ==
  ASSUME DeliveryTypes, [CallbacksNext]_allVars, NEW a \in Senders
  PROVE  /\ stage'[a] = "post" /\ stage[a] # "post" /\ a \in Requests =>
              Decide(a) /\ Announces(a)
         /\ stage'[a] = "mark" /\ stage[a] # "mark" =>
              Accepted(a) \/ (a \in Requests /\ Decide(a) /\ kind[a] = "silent" /\ Announces(a))
<1> USE CallbacksAssumption
<1>1. ASSUME Ledger(TRUE) \/ UNCHANGED stage PROVE stage'[a] = stage[a]
  BY <1>1 DEF Ledger
<1>2. ASSUME \/ Restart \/ NextCallback
             \/ \E r \in Requests : DoneWith(r)
             \/ \E b \in Senders : Refused(b) \/ MarkTold(b)
      PROVE  stage'[a] = stage[a] \/ stage'[a] \in {"none", "done"}
  BY <1>2 DEF Restart, NextCallback, DoneWith, Refused, MarkTold, Stage, DeliveryTypes
<1>3. ASSUME NEW r \in Requests, Decide(r)
      PROVE  /\ a # r => stage'[a] = stage[a]
             /\ a = r /\ stage'[a] = "post" => Announces(a)
             /\ a = r /\ stage'[a] = "mark" => Announces(a) /\ kind[a] = "silent"
  BY <1>3 DEF Decide, Stage, DeliveryTypes, Senders
<1>4. ASSUME NEW b \in Senders, Accepted(b)
      PROVE  a # b => stage'[a] = stage[a]
  BY <1>4 DEF Accepted, Stage, DeliveryTypes
<1>5. ASSUME NEW b \in Senders, Accepted(b)
      PROVE  stage'[b] = "mark"
  BY <1>5 DEF Accepted, Stage, DeliveryTypes
<1>6. ASSUME TakeCallback
      PROVE  stage'[a] = stage[a] \/ (a = scheduler /\ stage'[a] \in {"post", "done"})
  <2>1. PICK s \in {"post", "done"} : Stage(scheduler, s)
    <3>1. CASE Head(batch).key \in young
      BY <1>6, <3>1 DEF TakeCallback
    <3>2. CASE Head(batch).key \notin young
      BY <1>6, <3>2 DEF TakeCallback
    <3> QED BY <3>1, <3>2
  <2> QED BY <2>1 DEF Stage, DeliveryTypes, Senders
<1>7. \/ Ledger(TRUE) \/ UNCHANGED stage \/ Restart \/ NextCallback \/ TakeCallback
      \/ \E r \in Requests : DoneWith(r) \/ Decide(r)
      \/ \E b \in Senders : Accepted(b) \/ Refused(b) \/ MarkTold(b)
  <2>1. ASSUME Quiet \/ \E k \in Keys : ConfirmationsDone(k) PROVE UNCHANGED stage
    BY <2>1 DEF Quiet, ConfirmationsDone
  <2>2. LoadCallbacks \/ LoadInvoice \/ LoadingFails \/ UNCHANGED allVars => UNCHANGED stage
    BY DEF LoadCallbacks, LoadInvoice, LoadingFails, allVars, delivery
  <2>3. CASE OwnStep
    <3>1. CASE Quiet \/ \E k \in Keys : ConfirmationsDone(k)
      BY <2>1, <3>1
    <3>2. CASE \E r \in Requests : Decide(r)
      BY <3>2, Zenon
    <3>3. CASE \E b \in Senders : Accepted(b) \/ Refused(b) \/ MarkTold(b)
      BY <3>3, Zenon
    <3> QED BY <2>2, <2>3, <3>1, <3>2, <3>3 DEF OwnStep
  <2>4. CASE \E r \in Requests : DoneWith(r)
    BY <2>4, Zenon
  <2> QED BY <2>2, <2>3, <2>4, Steps
<1> QED BY <1>1, <1>2, <1>3, <1>4, <1>5, <1>6, <1>7

(* A sender at work does not change what it works on.                      *)
LEMMA SubjectStays ==
  ASSUME TypeOK, DeliveryTypes, SendersAreBusy, [CallbacksNext]_allVars, NEW a \in Senders,
         stage'[a] # "none"
  PROVE  Subject(a)' = Subject(a)
BY SendersStay DEF Subject, Senders

(* What a request posts is past its blocks, from the decision on.          *)
LEMMA KeepsPosts ==
  ASSUME TypeOK, DeliveryTypes, SendersAreBusy, RecordedIsInPlace, PostsAreDue,
         [CallbacksNext]_allVars
  PROVE  PostsAreDue'
<1> SUFFICES ASSUME NEW r \in Requests, stage'[r] = "post"
             PROVE  ~rows'[Key(cur'[r])].needMore
  BY DEF PostsAreDue, Key
<1>1. pc[r] = "recorded" /\ cur'[r] = cur[r]
  BY SendersStay
<1>2. Key(cur[r]) \in table
  BY <1>1 DEF RecordedIsInPlace, Recorded
<1>3. ~rows[Key(cur[r])].needMore
  <2>1. CASE stage[r] = "post"
    BY <2>1 DEF PostsAreDue
  <2>2. CASE stage[r] # "post"
    <3>1. ~NeedMore(r)
      BY <2>2, StageIsReached DEF Announces, Senders
    <3> QED BY <1>1, <3>1 DEF RecordedIsInPlace, Recorded
  <2> QED BY <2>1, <2>2
<1> QED BY <1>1, <1>2, <1>3, RowsImprove

(* What a sender marks was accepted or is silent.                          *)
LEMMA KeepsMarks ==
  ASSUME TypeOK, DeliveryTypes, SendersAreBusy, MarksAreSettled, [CallbacksNext]_allVars
  PROVE  MarksAreSettled'
<1> SUFFICES ASSUME NEW a \in Senders, stage'[a] = "mark"
             PROVE  Subject(a)' \in settled'
  BY DEF MarksAreSettled
<1>1. Subject(a)' = Subject(a)
  BY SubjectStays
<1>2. Subject(a) \in settled'
  <2>1. CASE stage[a] = "mark"
    BY <2>1, PastGrows DEF MarksAreSettled
  <2>2. CASE Accepted(a)
    BY <2>2 DEF Accepted
  <2>3. CASE a \in Requests /\ Decide(a) /\ kind[a] = "silent" /\ Announces(a)
    BY <2>3, CallbacksAssumption DEF Decide, Subject
  <2> QED BY <2>1, <2>2, <2>3, StageIsReached
<1> QED BY <1>1, <1>2

(* Only a row that was accepted, or is silent, is told.                    *)
LEMMA KeepsTold ==
  ASSUME TypeOK, DeliveryTypes, MarksAreSettled, ToldMeansAccepted, [CallbacksNext]_allVars
  PROVE  ToldMeansAccepted'
<1> SUFFICES ASSUME NEW k \in table', rows'[k].told PROVE k \in settled'
  BY DEF ToldMeansAccepted
<1>1. ASSUME k \in table, rows[k].told PROVE k \in settled'
  BY <1>1, PastGrows DEF ToldMeansAccepted
<1>2. CASE LedgerStep
  <2>1. ASSUME NEW r \in Requests, InsertRow(r)
        PROVE  k \in table /\ rows'[k] = rows[k]
    <3>1. Key(cur[r]) \in Keys /\ cur[r] \in Transfers
      BY KeyType DEF TypeOK
    <3>2. ASSUME Key(cur[r]) \notin table
          PROVE  k # Key(cur[r])
      <4>1. rows'[Key(cur[r])] = RowFor(cur[r], snap[r].quote, seen[r])
        BY <2>1, <3>1, <3>2 DEF InsertRow, TypeOK
      <4>2. ~rows'[Key(cur[r])].told
        BY <4>1 DEF RowFor
      <4> QED BY <4>2
    <3> QED BY <2>1, <3>2 DEF InsertRow, TypeOK
  <2>2. UNCHANGED <<table, rows>> \/ \E r \in Requests : InsertRow(r)
    BY <1>2, LedgerSteps, RowsAreInserted
  <2> QED BY <1>1, <2>1, <2>2
<1>3. ASSUME NEW a \in Senders, MarkTold(a) PROVE k \in settled'
  <2>1. UNCHANGED <<table, settled>> /\ Subject(a) \in settled
    BY <1>3 DEF MarkTold, past, MarksAreSettled
  <2>2. ASSUME k # Subject(a) PROVE rows'[k] = rows[k]
    BY <1>3, <2>2 DEF MarkTold, TypeOK
  <2> QED BY <1>1, <2>1, <2>2
<1>4. ASSUME NEW j \in Keys, ConfirmationsDone(j) PROVE k \in settled'
  <2>1. UNCHANGED table /\ rows' = [rows EXCEPT ![j] = [rows[j] EXCEPT !.needMore = FALSE]]
    BY <1>4 DEF ConfirmationsDone
  <2>2. /\ rows'[k] = IF k = j THEN [rows[j] EXCEPT !.needMore = FALSE] ELSE rows[k]
        /\ rows[j] \in Row
    BY <2>1 DEF TypeOK
  <2>3. rows'[k].told = rows[k].told
    BY ONLY <2>2 DEF Row
  <2> QED BY <1>1, <2>1, <2>3
<1>5. UNCHANGED <<table, rows>> \/ LedgerStep \/ (\E a \in Senders : MarkTold(a))
      \/ \E j \in Keys : ConfirmationsDone(j)
  BY Steps DEF DoneWith, Return, Restart, Crash, OwnStep, Decide, Accepted, Refused, Quiet,
       LoadCallbacks, LoadInvoice, LoadingFails, TakeCallback, NextCallback, vars, tables, allVars
<1> QED BY <1>1, <1>2, <1>3, <1>4, <1>5

-----------------------------------------------------------------------------
DeliveryInv == TypeOK /\ DeliveryTypes /\ Delivery

(* The invariant holds before the first callback.                          *)
LEMMA InitDelivers == CallbacksInit => DeliveryInv
<1> SUFFICES ASSUME CallbacksInit PROVE DeliveryInv
  OBVIOUS
<1>1. TypeOK
  BY InitType DEF CallbacksInit
<1>2. DeliveryTypes
  <2>1. arrived \in Seq(table) /\ batch \in Seq(Loaded) /\ loading \in Seq(Keys)
    BY EmptySeq DEF CallbacksInit
  <2>2. stored \in [Invoices -> SUBSET Account]
    BY <1>1 DEF CallbacksInit, TypeOK
  <2> QED BY <2>1, <2>2 DEF CallbacksInit, DeliveryTypes
<1>3. \A a \in Senders : stage[a] = "none"
  BY DEF CallbacksInit
<1>4. Len(batch) = 0 /\ Len(loading) = 0 /\ table = {} /\ \A r \in Requests : pc[r] = "idle"
  BY EmptySeq DEF CallbacksInit, Init
<1>5. SnapsAreStored
  BY <1>4 DEF CallbacksInit, SnapsAreStored, Recorded, Booking
<1> QED BY <1>1, <1>2, <1>3, <1>4, <1>5 DEF DeliveryInv, Delivery, SendersAreBusy,
          RecordedIsInPlace, QueriedIsDue, LoadedIsDue, PostsAreDue, MarksAreSettled, ToldMeansAccepted,
          Recorded, Senders

(* Every step keeps it.                                                    *)
LEMMA StepDelivers == DeliveryInv /\ [CallbacksNext]_allVars => DeliveryInv'
<1> SUFFICES ASSUME DeliveryInv, [CallbacksNext]_allVars PROVE DeliveryInv'
  OBVIOUS
<1>1. TypeOK' /\ DeliveryTypes'
  BY KeepsTypes DEF DeliveryInv, Delivery
<1>2. SendersAreBusy'
  BY SendersStay DEF DeliveryInv, Delivery, SendersAreBusy
<1>3. RecordedIsInPlace'
  BY KeepsRecorded DEF DeliveryInv, Delivery
<1>4. LoadedIsDue'
  BY KeepsLoaded DEF DeliveryInv, Delivery
<1>5. PostsAreDue'
  BY KeepsPosts DEF DeliveryInv, Delivery
<1>6. SnapsAreStored'
  BY KeepsSnaps DEF DeliveryInv, Delivery
<1>7. MarksAreSettled'
  BY KeepsMarks DEF DeliveryInv, Delivery
<1>8. ToldMeansAccepted'
  BY KeepsTold DEF DeliveryInv, Delivery
<1>9. QueriedIsDue'
  BY KeepsQueried DEF DeliveryInv, Delivery
<1> QED BY <1>1, <1>2, <1>3, <1>4, <1>5, <1>6, <1>7, <1>8, <1>9 DEF DeliveryInv, Delivery

(* Whoever sends callbacks and wherever a sender stops: what was posted    *)
(* had been stored, and what is marked as told was accepted.               *)
THEOREM DeliveryIsInductive == CallbacksSpec => []DeliveryInv
BY InitDelivers, StepDelivers, PTL DEF CallbacksSpec

(* A row is marked as told only if the merchant answered 202 for it or the *)
(* caller asked for silence, however requests, scheduler, failures and     *)
(* restarts interleave (callbacks.go, repository.go).                      *)
THEOREM MarkedWasAccepted == CallbacksSpec => []ToldMeansAccepted
BY DeliveryIsInductive, PTL DEF DeliveryInv, Delivery

(* Whatever a sender posts has the confirmations its wallet asks for, also *)
(* when it was loaded or decided on long ago.                              *)
THEOREM NothingPostedEarly == CallbacksSpec => []NeverAnnouncedEarly
<1>1. ASSUME DeliveryInv PROVE NeverAnnouncedEarly
  <2>1. ASSUME NEW r \in Requests, stage[r] = "post" PROVE ~rows[Subject(r)].needMore
    BY <1>1, <2>1, CallbacksAssumption DEF DeliveryInv, Delivery, PostsAreDue, Subject
  <2>2. ASSUME stage[scheduler] = "post" PROVE ~rows[Subject(scheduler)].needMore
    <3>1. batch # <<>> /\ batch \in Seq(Loaded)
      BY <1>1, <2>2 DEF DeliveryInv, Delivery, SendersAreBusy, DeliveryTypes
    <3>2. 1 \in 1..Len(batch) /\ Head(batch) = batch[1]
      BY <3>1, HeadTailProperties, LenProperties, EmptySeq
    <3> QED BY <1>1, <3>2 DEF DeliveryInv, Delivery, LoadedIsDue, Subject
  <2> QED BY <2>1, <2>2 DEF NeverAnnouncedEarly, Senders
<1> QED BY <1>1, DeliveryIsInductive, PTL

(* Balance and status in a callback were the invoice's own together at one *)
(* time, however stale they are.                                           *)
THEOREM PostedBelongsTogether == CallbacksSpec => []PostedWasStored
<1>1. ASSUME DeliveryInv PROVE PostedWasStored
  <2>1. ASSUME NEW r \in Requests, stage[r] = "post" PROVE Posted(r) \in stored[Subject(r).inv]
    <3>1. pc[r] = "recorded" /\ cur[r] \in Transfers
      BY <1>1, <2>1 DEF DeliveryInv, Delivery, SendersAreBusy, TypeOK
    <3>2. Payload(snap[r]) \in stored[cur[r].inv]
      BY <1>1, <3>1 DEF DeliveryInv, Delivery, SnapsAreStored, Recorded
    <3>3. Subject(r).inv = cur[r].inv /\ Posted(r) = Payload(snap[r])
      BY <3>1, KeyType, CallbacksAssumption DEF Subject, Posted, Message, Payload
    <3> QED BY <3>2, <3>3
  <2>2. ASSUME stage[scheduler] = "post"
        PROVE  Posted(scheduler) \in stored[Subject(scheduler).inv]
    <3>1. batch # <<>> /\ batch \in Seq(Loaded)
      BY <1>1, <2>2 DEF DeliveryInv, Delivery, SendersAreBusy, DeliveryTypes
    <3>2. 1 \in 1..Len(batch) /\ Head(batch) = batch[1]
      BY <3>1, HeadTailProperties, LenProperties, EmptySeq
    <3>3. Payload(batch[1].snap) \in stored[batch[1].key.inv]
      BY <1>1, <3>2 DEF DeliveryInv, Delivery, LoadedIsDue
    <3>4. Subject(scheduler) = batch[1].key /\ Posted(scheduler) = Payload(batch[1].snap)
      BY <3>2 DEF Subject, Posted, Message, Payload
    <3> QED BY <3>3, <3>4
  <2> QED BY <2>1, <2>2 DEF PostedWasStored, Senders
<1> QED BY <1>1, DeliveryIsInductive, PTL
=============================================================================
