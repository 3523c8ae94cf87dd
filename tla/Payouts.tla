------------------------------- MODULE Payouts -------------------------------
(***************************************************************************)
(* Payouts from the merchant's call to the row's final status.             *)
(*                                                                         *)
(* apiPayout and apiMultiPayout (and dispatchAutopayout, which is a call   *)
(* of one item without an order id) create the rows, hand the items to the *)
(* chain worker in one HTTP call and attach the worker's task to the rows; *)
(* the worker adds a task, broadcasts item after item and stores the       *)
(* outcome in the task; pollPayouts reads the tasks of rows in progress,   *)
(* attaches transaction ids by destination address and completes a row     *)
(* once one of its transactions has confirmations enough.  The service,    *)
(* the worker, the chain and the poller run concurrently; either process   *)
(* may stop, a reply may get lost and a statement may fail.                *)
(*                                                                         *)
(* An item's own payment transaction is named by the item.                 *)
(***************************************************************************)
EXTENDS Integers, Sequences, FiniteSets

CONSTANTS
  Calls,          \* HTTP calls of merchants, each made once
  Multi,          \* those to apiMultiPayout; the others hold one item
  Items,          \* payouts asked for
  CallItems,      \* the items of a call, in order
  Dest,           \* destination address of an item
  Ext, NoExt,     \* its external_id, if it has one
  PollLimit,      \* rows in progress that one query of pollPayouts returns
  FailuresHappen  \* crashes, lost replies and failing statements

ItemsOf(c) == {CallItems[c][n] : n \in DOMAIN CallItems[c]}

ASSUME CallsAssumption ==
  /\ Multi \subseteq Calls
  /\ CallItems \in [Calls -> Seq(Items)]
  /\ \A c \in Calls : CallItems[c] # <<>>
  /\ \A c \in Calls \ Multi : Len(CallItems[c]) = 1
  /\ \A c, d \in Calls : \A m \in DOMAIN CallItems[c], n \in DOMAIN CallItems[d] :
       CallItems[c][m] = CallItems[d][n] => c = d /\ m = n
  /\ \A i \in Items : \E c \in Calls : i \in ItemsOf(c)
  /\ PollLimit \in Nat \ {0}
  /\ FailuresHappen \in BOOLEAN

CallOf(i) == CHOOSE c \in Calls : i \in ItemsOf(c)
None      == "none"

VARIABLES
  ids,        \* the rows in the order of payout.id
  status,     \* payout.status, none while there is no row
  attached,   \* rows with a task_id
  txids,      \* rows of payout_tx
  old,        \* rows created more than a day ago
  pc, pos,    \* a call: stage, and the item at hand
  queue,      \* results it has yet to attach
  wpc, wpos,  \* the worker's handler of a call
  task,       \* chain_task.status
  sent,       \* items whose broadcast the worker saw succeed, in order
  failed,     \* items whose broadcast returned an error
  reply,      \* what the worker answered
  chain,      \* payment transactions that were broadcast
  confirmed,  \* those with more than MinConfirmationBlockForPayout blocks
  polling,    \* the row pollPayouts is at, after it has read its task
  doubtful    \* history: items whose outcome the service did not learn

rowVars    == <<ids, status, attached, txids, old>>
callVars   == <<pc, pos, queue>>
workerVars == <<wpc, wpos, task, sent, failed, reply>>
chainVars  == <<chain, confirmed>>
vars == <<rowVars, callVars, workerVars, chainVars, polling, doubtful>>

Init ==
  /\ ids = <<>>
  /\ status = [i \in Items |-> None]
  /\ attached = {} /\ old = {}
  /\ txids = [i \in Items |-> {}]
  /\ pc = [c \in Calls |-> "idle"]
  /\ pos = [c \in Calls |-> 1]
  /\ queue = [c \in Calls |-> <<>>]
  /\ wpc = [c \in Calls |-> "idle"]
  /\ wpos = [c \in Calls |-> 1]
  /\ task = [c \in Calls |-> None]
  /\ sent = [c \in Calls |-> <<>>]
  /\ failed = {}
  /\ reply = [c \in Calls |-> None]
  /\ chain = {} /\ confirmed = {}
  /\ polling = {}
  /\ doubtful = {}

SameOrder(i, j) == Ext[i] = Ext[j] /\ Ext[i] # NoExt
Taken(i)        == \E j \in Items : SameOrder(i, j) /\ status[j] # None
InProgress      == {i \in Items : status[i] = "IN_PROGRESS"}

Goto(c, stage)  == pc' = [pc EXCEPT ![c] = stage]
Advance(c, stage) ==
  /\ pos' = [pos EXCEPT ![c] = IF @ = Len(CallItems[c]) THEN 1 ELSE @ + 1]
  /\ Goto(c, IF pos[c] = Len(CallItems[c]) THEN stage ELSE pc[c])

MarkPayoutFailOtherWord(S) ==
  status' = [i \in Items |-> IF i \in S THEN "FAILED" ELSE status[i]]

(* MarkPayoutFail, row by row, by id and without looking at the status;    *)
(* its errors are ignored.                                                 *)
MarkPayoutFail(S) ==
  \E F \in IF FailuresHappen THEN SUBSET S ELSE {S} :
    status' = [i \in Items |-> IF i \in F THEN "FAIL" ELSE status[i]]

----------------------------------------------------------------------------
(* The main service.                                                       *)

(* preparePayoutRequest of every item: an order id in use or used twice in *)
(* the list refuses the call.                                              *)
Prepare(c) ==
  /\ pc[c] = "idle"
  /\ IF \/ \E i \in ItemsOf(c) : Taken(i)
        \/ \E i, j \in ItemsOf(c) : i # j /\ SameOrder(i, j)
       THEN Goto(c, "done")
       ELSE Goto(c, "create")
  /\ UNCHANGED <<rowVars, pos, queue, workerVars, chainVars, polling, doubtful>>

InsertPayout(i) ==
  /\ ids' = Append(ids, i)
  /\ status' = [status EXCEPT ![i] = "IN_PROGRESS"]

(* CreatePayout of the next item.                                          *)
CreateNoUniqueIndex(c) ==
  /\ pc[c] = "create"
  /\ InsertPayout(CallItems[c][pos[c]])
  /\ Advance(c, "send")
  /\ UNCHANGED <<attached, txids, old, queue, workerVars, chainVars, polling,
                 doubtful>>

Create(c) ==
  LET i == CallItems[c][pos[c]]
  IN  /\ pc[c] = "create" /\ ~Taken(i)
      /\ InsertPayout(i)
      /\ Advance(c, "send")
      /\ UNCHANGED <<attached, txids, old, queue, workerVars, chainVars,
                     polling, doubtful>>

(* The unique index refuses the row, or the statement fails; if it was the *)
(* refresh of the order index that failed, the row is there but unknown.   *)
CreateFails(c) ==
  LET i == CallItems[c][pos[c]]
  IN  /\ pc[c] = "create"
      /\ \/ (Taken(i) \/ FailuresHappen) /\ UNCHANGED <<ids, status>>
         \/ FailuresHappen /\ ~Taken(i) /\ InsertPayout(i)
      /\ Goto(c, "cancel")
      /\ UNCHANGED <<attached, txids, old, pos, queue, workerVars, chainVars,
                     polling, doubtful>>

Created(c) == {CallItems[c][n] : n \in 1 .. pos[c] - 1}

CancelCreated(c) ==
  /\ pc[c] = "cancel"
  /\ MarkPayoutFail(Created(c))
  /\ Goto(c, "done")
  /\ UNCHANGED <<ids, attached, txids, old, pos, queue, workerVars, chainVars,
                 polling, doubtful>>

Send(c) ==
  /\ pc[c] = "send"
  /\ Goto(c, "waiting")
  /\ wpc' = [wpc EXCEPT ![c] = "task"]
  /\ UNCHANGED <<rowVars, pos, queue, wpos, task, sent, failed, reply,
                 chainVars, polling, doubtful>>

(* The worker answered with an error, or the call was given up: cut off,   *)
(* timed out, cancelled by the merchant.  The rows are marked as failed    *)
(* whatever the worker did or is still doing.                              *)
GetError(c) ==
  /\ pc[c] = "waiting"
  /\ reply[c] = "error" \/ FailuresHappen
  /\ MarkPayoutFail(ItemsOf(c))
  /\ doubtful' = IF reply[c] = "error" THEN doubtful ELSE doubtful \cup ItemsOf(c)
  /\ Goto(c, "done")
  /\ UNCHANGED <<ids, attached, txids, old, pos, queue, workerVars, chainVars,
                 polling>>

GetReply(c) ==
  /\ pc[c] = "waiting" /\ reply[c] = "ok"
  /\ queue' = [queue EXCEPT ![c] = sent[c]]
  /\ Goto(c, "attach")
  /\ UNCHANGED <<rowVars, pos, workerVars, chainVars, polling, doubtful>>

FirstToAny(results, d) == {n \in DOMAIN results : n = 1}

(* popPayoutTxIDs: the first result for a destination, if there is one.    *)
FirstTo(results, d) ==
  {n \in DOMAIN results :
     /\ Dest[results[n]] = d
     /\ \A m \in 1 .. n - 1 : Dest[results[m]] # d}

Without(results, N) ==
  [n \in 1 .. Len(results) - Cardinality(N) |->
     IF \E m \in N : n >= m THEN results[n + 1] ELSE results[n]]

(* SetPayoutTaskAndTxIDs of the next item, in one database transaction.    *)
(* An error leaves this or the following items without their task.         *)
Attach(c) ==
  LET i   == CallItems[c][pos[c]]
      pop == FirstTo(queue[c], Dest[i])
  IN  /\ pc[c] = "attach"
      /\ attached' = attached \cup {i}
      /\ txids' = [txids EXCEPT ![i] = @ \cup {queue[c][n] : n \in pop}]
      /\ queue' = [queue EXCEPT ![c] = Without(@, pop)]
      /\ \/ Advance(c, "done")
         \/ FailuresHappen /\ Goto(c, "done") /\ UNCHANGED pos
      /\ UNCHANGED <<ids, status, old, workerVars, chainVars, polling,
                     doubtful>>

AttachFails(c) ==
  /\ FailuresHappen /\ pc[c] = "attach"
  /\ Goto(c, "done")
  /\ UNCHANGED <<rowVars, pos, queue, workerVars, chainVars, polling, doubtful>>

----------------------------------------------------------------------------
(* The chain worker.                                                       *)

AddTask(c) ==
  /\ wpc[c] = "task"
  /\ \/ /\ task' = [task EXCEPT ![c] = "IN_PROGRESS"]
        /\ wpc' = [wpc EXCEPT ![c] = "broadcast"]
        /\ UNCHANGED reply
     \/ /\ FailuresHappen
        /\ reply' = [reply EXCEPT ![c] = "error"]
        /\ wpc' = [wpc EXCEPT ![c] = "over"]
        /\ UNCHANGED task
  /\ UNCHANGED <<rowVars, callVars, wpos, sent, failed, chainVars, polling,
                 doubtful>>

(* broadcastPayout of the next item: sent, refused, or sent while the      *)
(* node's answer was an error.                                             *)
Broadcast(c) ==
  LET i == CallItems[c][wpos[c]]
  IN  /\ wpc[c] = "broadcast" /\ wpos[c] <= Len(CallItems[c])
      /\ wpos' = [wpos EXCEPT ![c] = @ + 1]
      /\ \/ /\ chain' = chain \cup {i}
            /\ sent' = [sent EXCEPT ![c] = Append(@, i)]
            /\ UNCHANGED <<failed, doubtful>>
         \/ /\ failed' = failed \cup {i}
            /\ UNCHANGED <<chain, sent, doubtful>>
         \/ /\ FailuresHappen
            /\ chain' = chain \cup {i}
            /\ failed' = failed \cup {i}
            /\ doubtful' = doubtful \cup {i}
            /\ UNCHANGED sent
      /\ UNCHANGED <<rowVars, callVars, wpc, task, reply, confirmed, polling>>

OutcomeAnyFailure(c) == IF failed \cap ItemsOf(c) # {} THEN "FAIL" ELSE "SUCCESS"

Outcome(c) ==
  IF ItemsOf(c) \subseteq failed THEN "FAIL"
  ELSE IF failed \cap ItemsOf(c) # {} THEN "PARTIAL" ELSE "SUCCESS"

(* A multi-payout answers 200 even if every item failed.                   *)
UpdateTask(c) ==
  /\ wpc[c] = "broadcast" /\ wpos[c] > Len(CallItems[c])
  /\ task' = [task EXCEPT ![c] = Outcome(c)]
  /\ reply' = [reply EXCEPT ![c] =
                 IF c \notin Multi /\ Outcome(c) = "FAIL" THEN "error" ELSE "ok"]
  /\ wpc' = [wpc EXCEPT ![c] = "over"]
  /\ UNCHANGED <<rowVars, callVars, wpos, sent, failed, chainVars, polling,
                 doubtful>>

(* The task keeps saying IN_PROGRESS and the caller gets an error.         *)
UpdateTaskFails(c) ==
  /\ FailuresHappen
  /\ wpc[c] = "broadcast" /\ wpos[c] > Len(CallItems[c])
  /\ reply' = [reply EXCEPT ![c] = "error"]
  /\ doubtful' = doubtful \cup ItemsOf(c)
  /\ wpc' = [wpc EXCEPT ![c] = "over"]
  /\ UNCHANGED <<rowVars, callVars, wpos, task, sent, failed, chainVars, polling>>

----------------------------------------------------------------------------
(* pollPayouts.                                                            *)

Pending(i) == i \in InProgress /\ i \in attached /\ i \notin old

PendingBefore(i) ==
  {j \in Items : /\ Pending(j)
                 /\ \E m, n \in DOMAIN ids : m < n /\ ids[m] = j /\ ids[n] = i}

BeyondPage(i) == Cardinality(PendingBefore(i)) >= PollLimit

PolledWithTxid(i) == Pending(i) /\ ~BeyondPage(i) /\ txids[i] # {}

(* PendingPayouts: the oldest rows, up to the limit.                       *)
Polled(i) == Pending(i) /\ ~BeyondPage(i)

(* The transactions the task holds for a row, matched by destination, from *)
(* the start of the list for every row.                                    *)
Found(i) ==
  LET results == sent[CallOf(i)]
  IN  {results[n] : n \in FirstTo(results, Dest[i])}

(* refreshPayoutFromTask.                                                  *)
PollTask(i) ==
  LET c == CallOf(i)
      SetTxIDs ==
        /\ txids' = [txids EXCEPT ![i] = @ \cup Found(i)]
        /\ polling' = {i}
        /\ UNCHANGED status
      Nothing == polling' = {i} /\ UNCHANGED <<status, txids>>
      MarkFail == MarkPayoutFail({i}) /\ UNCHANGED <<txids, polling>>
  IN  /\ polling = {} /\ Polled(i)
      /\ \/ task[c] = "FAIL" /\ MarkFail
         \/ task[c] \in {"SUCCESS", "PARTIAL"} /\ Found(i) # {} /\ SetTxIDs
         \/ task[c] = "PARTIAL" /\ Found(i) = {} /\ MarkFail
         \/ task[c] = "IN_PROGRESS" /\ Nothing
         \/ task[c] = "SUCCESS" /\ Found(i) = {} /\ Nothing
         \/ FailuresHappen /\ Nothing
      /\ UNCHANGED <<ids, attached, old, callVars, workerVars, chainVars, doubtful>>

CompleteWithoutTx(i) ==
  /\ polling = {i}
  /\ polling' = {}
  /\ status' = [status EXCEPT ![i] = "SUCCESS"]
  /\ UNCHANGED <<ids, attached, txids, old, callVars, workerVars, chainVars, doubtful>>

(* confirmedPayoutTxID and CompletePayoutSuccess.                          *)
Complete(i) ==
  /\ polling = {i}
  /\ polling' = {}
  /\ \/ /\ txids[i] \cap confirmed # {}
        /\ status' = [status EXCEPT ![i] = "SUCCESS"]
     \/ (txids[i] \cap confirmed = {} \/ FailuresHappen) /\ UNCHANGED status
  /\ UNCHANGED <<ids, attached, txids, old, callVars, workerVars, chainVars, doubtful>>

----------------------------------------------------------------------------
(* The environment.                                                        *)

Confirm(t) ==
  /\ t \in chain \ confirmed
  /\ confirmed' = confirmed \cup {t}
  /\ UNCHANGED <<rowVars, callVars, workerVars, chain, polling, doubtful>>

(* A day passes; no call takes that long.                                  *)
Expire(i) ==
  /\ status[i] # None /\ i \notin old /\ pc[CallOf(i)] = "done"
  /\ old' = old \cup {i}
  /\ UNCHANGED <<ids, status, attached, txids, callVars, workerVars, chainVars,
                 polling, doubtful>>

CrashService ==
  /\ FailuresHappen
  /\ pc' = [c \in Calls |-> IF pc[c] = "idle" THEN "idle" ELSE "done"]
  /\ polling' = {}
  /\ UNCHANGED <<rowVars, pos, queue, workerVars, chainVars, doubtful>>

CrashWorker ==
  /\ FailuresHappen
  /\ wpc' = [c \in Calls |-> IF wpc[c] = "idle" THEN "idle" ELSE "over"]
  /\ UNCHANGED <<rowVars, callVars, wpos, task, sent, failed, reply, chainVars,
                 polling, doubtful>>

Service(c) ==
  \/ Prepare(c) \/ Create(c) \/ CreateFails(c) \/ CancelCreated(c)
  \/ Send(c) \/ GetError(c) \/ GetReply(c) \/ Attach(c) \/ AttachFails(c)

Worker(c) == AddTask(c) \/ Broadcast(c) \/ UpdateTask(c) \/ UpdateTaskFails(c)

Poller(i) == PollTask(i) \/ Complete(i)

Next ==
  \/ \E c \in Calls : Service(c) \/ Worker(c)
  \/ \E i \in Items : Poller(i) \/ Confirm(i) \/ Expire(i)
  \/ CrashService
  \/ CrashWorker

Spec == Init /\ [][Next]_vars

(* Handlers run to their end, the poller comes back to every due row, and  *)
(* a statement that is tried again and again does not fail every time.     *)
Fairness ==
  /\ \A c \in Calls : WF_vars(Service(c)) /\ WF_vars(Worker(c))
  /\ \A i \in Items :
       /\ WF_vars(Complete(i))
       /\ SF_vars(PollTask(i) /\ polling' = {i})
       /\ SF_vars(PollTask(i) /\ status'[i] = "FAIL")
       /\ SF_vars(Complete(i) /\ status'[i] = "SUCCESS")

FairSpec == Spec /\ Fairness

----------------------------------------------------------------------------
RowStatuses == {None, "IN_PROGRESS", "SUCCESS", "FAIL"}

(* Rows, calls and tasks have their types.                                 *)
TypeOK ==
  /\ ids \in Seq(Items)
  /\ status \in [Items -> RowStatuses]
  /\ attached \subseteq Items /\ old \subseteq Items
  /\ txids \in [Items -> SUBSET Items]
  /\ pc \in [Calls -> {"idle", "create", "cancel", "send", "waiting",
                       "attach", "done"}]
  /\ pos \in [Calls -> Nat \ {0}]
  /\ queue \in [Calls -> Seq(Items)]
  /\ wpc \in [Calls -> {"idle", "task", "broadcast", "over"}]
  /\ wpos \in [Calls -> Nat \ {0}]
  /\ task \in [Calls -> {None, "IN_PROGRESS", "SUCCESS", "PARTIAL", "FAIL"}]
  /\ sent \in [Calls -> Seq(Items)]
  /\ failed \subseteq Items
  /\ reply \in [Calls -> {None, "ok", "error"}]
  /\ chain \subseteq Items /\ confirmed \subseteq chain
  /\ polling \in {{}} \cup {{i} : i \in Items}
  /\ doubtful \subseteq Items

(* An order id is paid at most once, however often and however             *)
(* concurrently its payout is asked for.                                   *)
OrderPaidOnce ==
  \A i, j \in chain : SameOrder(i, j) => i = j

(* A failed payout was not paid, unless the service never learned what the *)
(* worker did or the worker never learned what the node did.               *)
FailedMeansUnpaid ==
  \A i \in Items : status[i] = "FAIL" /\ i \in chain => i \in doubtful

(* A row carries only transactions that its own call sent to its own       *)
(* address, and one that succeeded carries a confirmed one, however the    *)
(* results of partly failed lists are matched to the rows.  Whose payment  *)
(* it was is not promised: items of a list to the same address may carry   *)
(* each other's transactions, also one whose own broadcast failed.         *)
TxidsPayTheAddress ==
  \A i \in Items :
    /\ \A t \in txids[i] : t \in chain /\ CallOf(t) = CallOf(i) /\ Dest[t] = Dest[i]
    /\ status[i] = "SUCCESS" => txids[i] \cap confirmed # {}

(* A row whose task was attached reaches a final status once the task has  *)
(* failed or a transaction of the row is confirmed, unless it is a day old *)
(* by then, or stays for ever behind so many older rows in progress that   *)
(* the poller's query does not return it.                                  *)
EveryAttachedPayoutSettles ==
  \A i \in Items :
    (i \in attached /\ (task[CallOf(i)] = "FAIL" \/ i \in confirmed))
      ~> (status[i] \in {"SUCCESS", "FAIL"} \/ i \in old \/ []BeyondPage(i))

Promise == INSTANCE PayoutSpec WITH paid <- chain

(* The program keeps the promise of PayoutSpec.                            *)
KeepsPromise == Promise!PSpec
=============================================================================
