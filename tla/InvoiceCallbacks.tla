-------------------------- MODULE InvoiceCallbacks --------------------------
(***************************************************************************)
(* Payment callbacks to the merchant, on top of InvoiceLedger.             *)
(*                                                                         *)
(* A transaction row is announced by the request that recorded it, if it   *)
(* has enough confirmations already, and by the scheduler, which loads the *)
(* oldest BatchLimit rows that are confirmed and not yet told together     *)
(* with their invoices, and then posts them one by one.  The merchant has  *)
(* been told when it answered 202 and the row was marked; a crash, a lost  *)
(* answer or a failing UPDATE in between makes the scheduler post again.   *)
(* The scheduler's other task clears need_more_confirmations.              *)
(***************************************************************************)
EXTENDS InvoiceLedger, SequencesExt

CONSTANTS
  scheduler,    \* the goroutine of sendCallbacks
  BatchLimit,   \* LIMIT of the scheduler's queries
  Broken        \* invoices whose callback URL never answers 202

ASSUME CallbacksAssumption ==
  /\ scheduler \notin Requests
  /\ BatchLimit \in Nat \ {0}
  /\ Broken \subseteq Invoices

Senders == Requests \cup {scheduler}

VARIABLES
  arrived,   \* transaction rows in the order of their ids
  young,     \* rows younger than NotificationTaskDelay
  loading,   \* rows its query returned, whose invoices are not read yet
  batch,     \* rows the scheduler has loaded, with the invoice as it read it
  released,  \* the row updateConfirmations is about to release, if any
  stage,     \* where a sender is with the callback at hand
  settled,   \* history: rows that saw a 202, or need none (send_callback = false)
  stored     \* history: the accounts an invoice ever had

sending  == <<loading, batch, stage>>
delivery == <<arrived, young, sending, released>>
past     == <<settled, stored>>
allVars  == <<vars, delivery, past>>

CallbacksInit ==
  /\ Init
  /\ arrived = <<>> /\ young = {} /\ loading = <<>> /\ batch = <<>>
  /\ released = {}
  /\ stage = [a \in Senders |-> "none"]
  /\ settled = {}
  /\ stored = [i \in Invoices |-> {account[i]}]

Stage(a, s) == stage' = [stage EXCEPT ![a] = s]

(* A step of the ledger; rows it inserts get the next id and are young.    *)
Ledger(step) ==
  /\ step
  /\ arrived' = arrived \o SetToSeq(table' \ table)
  /\ young' = young \cup (table' \ table)
  /\ stored' = [i \in Invoices |-> stored[i] \cup {account'[i]}]
  /\ UNCHANGED <<sending, released, settled>>

(* NotificationTaskDelay is over.                                          *)
Age(k) ==
  /\ k \in young
  /\ young' = young \ {k}
  /\ UNCHANGED <<vars, arrived, sending, released, past>>

----------------------------------------------------------------------------
(* tx.NeedMoreConfirmations of the row recordConfirmedTransaction returns. *)
NeedMore(r) ==
  IF found[r] = "none"
    THEN seen[r] < Wallet[snap[r].quote.crypto].confirmations
    ELSE found[r] = "waiting"

AnnouncesAlways(r) == kind[r] = "notify" => found[r] = "none"

(* A wallet notification announces rows it has inserted; a verified        *)
(* transfer is announced again whenever it is sent again.                  *)
Announces(r) ==
  /\ ~NeedMore(r)
  /\ kind[r] = "notify" => found[r] = "none"

Decide(r) ==
  /\ pc[r] = "recorded" /\ stage[r] = "none"
  /\ Stage(r, IF ~Announces(r) THEN "done"
              ELSE IF kind[r] = "silent" THEN "mark" ELSE "post")
  /\ settled' = IF kind[r] = "silent" /\ Announces(r)
                  THEN settled \cup {Key(cur[r])} ELSE settled
  /\ UNCHANGED <<vars, arrived, young, loading, batch, released, stored>>

DoneWith(r) ==
  /\ pc[r] = "announce" \/ stage[r] = "done"
  /\ Return(r)
  /\ Stage(r, "none")
  /\ UNCHANGED <<arrived, young, loading, batch, released, past>>

IsWaiting(k) == rows[k].needMore /\ ~rows[k].told
IsDue(k)     == ~rows[k].needMore /\ ~rows[k].told

(* ORDER BY id and LIMIT, of positions in arrived: the first BatchLimit    *)
(* rows that wait for blocks, and those to announce.                       *)
Oldest(pending) ==
  {n \in pending : Cardinality({m \in pending : m < n}) < BatchLimit}

PendingConfirmation ==
  {arrived[n] : n \in Oldest({m \in DOMAIN arrived : IsWaiting(arrived[m])})}
PendingCallback == Oldest({n \in DOMAIN arrived : IsDue(arrived[n])})

EnoughStrict(k) == depth[k.tx] > Wallet[quote[k.inv].crypto].confirmations

(* The wallet of the coin that the invoice has by now says how many are    *)
(* enough.                                                                 *)
Enough(k) == depth[k.tx] >= Wallet[quote[k.inv].crypto].confirmations

(* updateConfirmations: the chain is asked about one of the oldest rows    *)
(* that wait for blocks, and they are enough; ...  (The list is read once, *)
(* but nobody else takes a row off it before its turn.)                    *)
AskConfirmations(k) ==
  /\ released = {} /\ k \in PendingConfirmation /\ Enough(k)
  /\ released' = {k}
  /\ UNCHANGED <<vars, arrived, young, sending, past>>

(* ... then the row is updated.                                            *)
ConfirmationsDone(k) ==
  /\ k \in released
  /\ rows' = [rows EXCEPT ![k].needMore = FALSE]
  /\ released' = {}
  /\ UNCHANGED <<quote, account, table, unconfirmed, depth, reqVars, history,
                 arrived, young, sending, past>>

(* The update fails: the row is asked about again.                         *)
ReleaseFails ==
  /\ FailuresHappen /\ released # {} /\ released' = {}
  /\ UNCHANGED <<vars, arrived, young, sending, past>>

(* sendCallbacks: the rows are read once, at the start, and the invoice of *)
(* each after it; an invoice that cannot be read ends the task.            *)
LoadCallbacks ==
  /\ loading = <<>> /\ batch = <<>> /\ PendingCallback # {}
  /\ \E ids \in [1..Cardinality(PendingCallback) -> PendingCallback] :
       /\ \A m, n \in DOMAIN ids : m < n => ids[m] < ids[n]
       /\ loading' = [n \in DOMAIN ids |-> arrived[ids[n]]]
  /\ UNCHANGED <<vars, arrived, young, batch, stage, released, past>>

LoadInvoice ==
  /\ loading # <<>> /\ loading' = Tail(loading)
  /\ batch' = Append(batch, [key |-> Head(loading), snap |-> SnapshotOf(Head(loading).inv)])
  /\ UNCHANGED <<vars, arrived, young, stage, released, past>>

LoadingFails ==
  /\ FailuresHappen /\ loading # <<>> /\ loading' = <<>> /\ batch' = <<>>
  /\ UNCHANGED <<vars, arrived, young, stage, released, past>>

TakeCallback ==
  /\ batch # <<>> /\ loading = <<>> /\ stage[scheduler] = "none"
  /\ Stage(scheduler, IF Head(batch).key \in young THEN "done" ELSE "post")
  /\ UNCHANGED <<vars, arrived, young, loading, batch, released, past>>

NextCallbackRetries ==
  /\ stage[scheduler] = "done"
  /\ batch' = IF rows[Head(batch).key].told THEN Tail(batch) ELSE batch
  /\ Stage(scheduler, "none")
  /\ UNCHANGED <<vars, arrived, young, loading, released, past>>

NextCallback ==
  /\ stage[scheduler] = "done"
  /\ batch' = Tail(batch)
  /\ Stage(scheduler, "none")
  /\ UNCHANGED <<vars, arrived, young, loading, released, past>>

Subject(a) == IF a = scheduler THEN Head(batch).key  ELSE Key(cur[a])
Message(a) == IF a = scheduler THEN Head(batch).snap ELSE snap[a]

PostedMixed(a) == [fiat |-> Message(a).fiat, coin |-> Message(a).coin,
                   status |-> account[Subject(a).inv].status]

(* What the merchant reads: balance and status.                            *)
Posted(a) == [fiat |-> Message(a).fiat, coin |-> Message(a).coin,
              status |-> Message(a).status]

(* postCallback, 202.                                                      *)
Accepted(a) ==
  /\ stage[a] = "post" /\ Subject(a).inv \notin Broken
  /\ settled' = settled \cup {Subject(a)}
  /\ Stage(a, "mark")
  /\ UNCHANGED <<vars, arrived, young, loading, batch, released, stored>>

RefusedMarks(a) ==
  /\ stage[a] = "post"
  /\ Stage(a, "mark")
  /\ UNCHANGED <<vars, arrived, young, loading, batch, released, past>>

(* No 202: not sent, answered otherwise, or the answer did not arrive in   *)
(* time; the merchant may have acted on it.                                *)
Refused(a) ==
  /\ stage[a] = "post"
  /\ Stage(a, "done")
  /\ UNCHANGED <<vars, arrived, young, loading, batch, released, past>>

(* MarkTransactionCallbackConfirmed, by id and without a guard; its error  *)
(* is ignored.                                                             *)
MarkTold(a) ==
  /\ stage[a] = "mark"
  /\ \/ rows' = [rows EXCEPT ![Subject(a)].told = TRUE]
     \/ FailuresHappen /\ rows' = rows
  /\ Stage(a, "done")
  /\ UNCHANGED <<quote, account, table, unconfirmed, depth, reqVars, history,
                 arrived, young, loading, batch, released, past>>

Restart ==
  /\ Crash
  /\ loading' = <<>> /\ batch' = <<>> /\ released' = {}
  /\ stage' = [a \in Senders |-> "none"]
  /\ UNCHANGED <<arrived, young, past>>

Send(a) == Accepted(a) \/ Refused(a) \/ MarkTold(a)

Scheduler ==
  \/ LoadCallbacks \/ LoadInvoice \/ TakeCallback \/ NextCallback
  \/ Send(scheduler)

Confirm == \E k \in Keys : AskConfirmations(k) \/ ConfirmationsDone(k)

Handle(r) ==
  \/ \E t \in todo[r] : Ledger(SeeUnconfirmed(r, t))
  \/ Ledger(Book(r))
  \/ Ledger(Reply(r))
  \/ Decide(r)
  \/ DoneWith(r)
  \/ Send(r)

Undisturbed ==
  \/ \E x \in TxIDs : Ledger(Mine(x))
  \/ \E i \in Invoices : \E q \in QuotesOf[i] : Ledger(Requote(i, q))
  \/ \E r \in Requests : Ledger(Start(r)) \/ Handle(r)
  \/ \E k \in Keys : Age(k)
  \/ Confirm
  \/ Scheduler

CallbacksNext ==
  \/ Undisturbed
  \/ \E r \in Requests : Ledger(Break(r))
  \/ ReleaseFails \/ LoadingFails
  \/ Restart

CallbacksSpec == CallbacksInit /\ [][CallbacksNext]_allVars

(* MarkTransactionCallbackConfirmed fails.                                 *)
MarkIsLost(a) ==
  stage[a] = "mark" /\ stage'[a] = "done" /\ ~rows'[Subject(a)].told

(* Requests run to their end, the scheduler's tasks keep ticking, time     *)
(* passes, transactions get their blocks, a merchant that is posted to     *)
(* again and again answers 202 at some time, and failures stop.            *)
CallbacksFairness ==
  /\ <>[][Undisturbed /\ \A a \in Senders : ~MarkIsLost(a)]_allVars
  /\ \A r \in Requests : WF_allVars(Handle(r))
  /\ WF_allVars(Scheduler) /\ WF_allVars(Confirm)
  /\ SF_allVars(Accepted(scheduler))
  /\ \A x \in TxIDs : WF_allVars(Ledger(Mine(x)))
  /\ \A k \in Keys : WF_allVars(Age(k))

CallbacksFairSpec == CallbacksSpec /\ CallbacksFairness

----------------------------------------------------------------------------
(* A row is marked as told only if the merchant answered 202 for it or the *)
(* caller asked for silence.                                               *)
ToldMeansAccepted == \A k \in table : rows[k].told => k \in settled

(* No merchant hears of a payment before its row has the confirmations it  *)
(* needs, whichever of the senders posts it.                               *)
NeverAnnouncedEarly ==
  \A a \in Senders : stage[a] = "post" => ~rows[Subject(a)].needMore

(* However stale, balance and status in a callback belong together: the    *)
(* invoice once was in that state.                                         *)
PostedWasStored ==
  \A a \in Senders : stage[a] = "post" => Posted(a) \in stored[Subject(a).inv]

(* Every confirmed payment of a working merchant is announced to its end,  *)
(* as long as fewer than BatchLimit rows of broken merchants are ahead.    *)
EveryPaymentIsTold ==
  \A k \in {j \in Keys : j.inv \notin Broken} :
    (k \in table /\ ~rows[k].needMore) ~> rows[k].told

(* A recorded payment that waits for blocks is eventually released.        *)
EveryPaymentIsConfirmed == \A k \in Keys : (k \in table) ~> ~rows[k].needMore
=============================================================================
