# TLA+ models of go-shkeeper

go-shkeeper is a payment gateway: merchants ask it for payment addresses, it
watches the chains, books incoming transfers on invoices, calls the merchants
back, and pays out. It consists of a main service (`src/internal/app`, with a
MariaDB database), chain workers (`src/internal/chainworker`, one per family of
coins, on the same database) and audit and deployment tools. Every HTTP request
runs in its own goroutine, five scheduler tasks and the workers' loops run
beside them, and nearly all shared state is in database rows that are read and
written by single statements without locks. The hard behaviour is what these
statements do when they interleave, fail half-way, or are repeated.

## Inventory

| Component | Where | State | Operations | Meets |
|---|---|---|---|---|
| invoice ledger | `app/http_payments.go`, `app/repository.go` | rows of `invoice`, `transaction`, `unconfirmed_transaction` | `apiWalletNotify`, `apiVerifiedTransaction`, `recordConfirmedTransaction` | workers notify it; callbacks follow it |
| payment requests | `app/http_api.go` | `invoice`, `invoice_address` | `apiPaymentRequest`, `upsertInvoice`, `UpdateInvoicePayment` | overwrites quotes under the ledger; the ledger finds invoices by its addresses |
| payment callbacks | `app/callbacks.go`, `app/tasks.go` | `callback_confirmed`, `need_more_confirmations` of the rows | `sendInvoiceNotification`, `sendUnconfirmedNotification`, `sendCallbacks`, `updateConfirmations` | reads the ledger, calls merchants |
| payouts | `app/http_payments.go`, `app/tasks.go`, `chainworker/server.go` | `payout`, `payout_tx`, `chain_task` | `apiPayout`, `apiMultiPayout`, the worker's `payout` and `multipayout`, `pollPayouts` | service and worker by HTTP, chain by RPC |
| payout notifications | `app/callbacks.go`, `app/tasks.go` | `notification` | `CompletePayoutSuccess`, `sendPayoutCallbacks` | follows payouts |
| autopayout | `app/tasks.go` | `wallet.last_payout_attempt` | `processAutopayouts`, `dispatchAutopayout` | starts payouts |
| outgoing transactions | `app/http_payments.go`, `app/repository.go` | OUTGOING invoices | `AddOutgoingTransaction` | wallet notifications |
| order index | `app/order_index.go`, `app/order_cursor.go`, `app/repository_queries.go` | `order_index` | refresh, rebuild, cursor pages, the answer about one order | every write of invoices and payouts refreshes it |
| exchange rates | `app/rates.go` | `exchange_rate` | `CurrentRate`, fees | quotes, ledger |
| crypto backend client | `app/crypto.go` | none | HTTP and RPC calls | workers and nodes |
| deposit indexer | `chainworker/evm_deposit_scanner.go`, `chainworker/store.go` | `chain_deposit_scan_cursor`, `chain_deposit_event` | `scanEVMDeposits` | reads the invoices, feeds the dispatcher |
| deposit dispatcher | same files | `chain_deposit_event` | `dispatchEVMDepositEvents` | notifies the ledger |
| worker tasks and accounts | `chainworker/store.go`, `server.go`, `legacy_import.go` | `chain_account`, `chain_task` | address generation, lists of accounts, the import of old ones | every balance, payout and deposit asks for the accounts of a coin |
| worker backends | `chainworker/evm.go`, `tron*.go`, `solana.go`, `xrp.go`, `monero.go`, `bitcoin.go`, `lightning.go`, `rlp.go` | TRON's cache of spendable balances and its node; wallets' fee rates; Lightning invoices | balances, broadcasts, reports of transactions, wire formats | nodes |
| authentication | `app/auth.go`, `app/http_2fa.go` | `user`, sessions, backup codes | login, TOTP | admin |
| admin pages, configuration, imports, commands | rest of `app`, `chainworker`, `cmd` | settings | single-statement reads and writes | |
| audit and deployment tools | `internal/deploycheck`, `finalplan`, `goalaudit`, `cutoveraudit`, `postcutover`, `preflight`, `releaseaudit`, `runtimeaudit`, `deploy/production-cutover.sh` | plan, report and verdict files | planning, checking a deployment, audits, cutover with rollback | the main service and the workers by HTTP; each other by files |

What makes the main components correct:

* **Ledger** - a transfer is credited once however often it is notified; a
  balance is made of recorded rows; what can be missing from it is known.
* **Callbacks** - nothing is announced before its confirmations, a row is
  marked only if the merchant accepted it, every payment is announced some time.
* **Payouts** - an order is paid once, nothing is paid without a row, success
  means a confirmed transaction to the row's address, failure means none was sent
  (or nobody knows).
* **Indexer** - the cursor passes no deposit it could have seen.
* **Dispatcher** - at least once, one owner per claim, attempts bounded; what it
  closes as delivered is in a balance.
* **Payment requests** - an address that a merchant was given leads to its
  invoice, also after the order changed its coin.
* **Order index** - it shows the last change of every order; following the cursor
  shows every order once; an answer contains what explains it.
* **Notifications and autopayout** - every notice ends; a payout is sent on a
  measured balance and not before it is due.
* **Workers** - what was sent is paid as asked, what is reported is what the chain
  moved, what is written is read as it was meant; where the code does not see to
  that, it is known where.
* **Cutover** - nothing is released that nobody saw working, one of the two systems
  runs where the script ends by itself, and never both.

The hazards, with their lines and the properties aimed at them, are listed in
`PROJECT.json`.

## Modules

| Module | Models | Checked by |
|---|---|---|
| `InvoiceLedger` | booking of transfers, statement by statement | `MCInvoiceLedger`: `ledger_races`, `ledger_serial` |
| `SumTheorems` | lemmas about sums over finite sets, as the community modules define them | TLAPS |
| `InvoiceLedger_proof` | EXTENDS `SumTheorems`: 10 theorems about the ledger | TLAPS |
| `InvoiceCallbacks` | EXTENDS `InvoiceLedger`: inline and scheduled callbacks, the confirmation updater | `MCInvoiceCallbacks`: `callbacks_races`, `callbacks_payloads`, `callbacks_reach` |
| `InvoiceCallbacks_proof` | EXTENDS `InvoiceLedger_proof` too: 4 theorems about callbacks | TLAPS |
| `PayoutSpec` | what a payout promises: opened once per order, paid at most once, final | property `KeepsPromise` |
| `Payouts` | service, worker, chain and poller, and the refinement of `PayoutSpec` | `MCPayouts`: `payouts_retries`, `payouts_twins` |
| `Payouts_proof` | 6 theorems about it, the refinement among them | TLAPS |
| `DepositScanner` | the EVM deposit indexer for one contract, several workers | `MCDepositScanner`: `scanner_races`, `scanner_reach` |
| `DepositScanner_proof` | 3 theorems about it | TLAPS |
| `DepositDispatch` | the claim queue of deposit events | `MCDepositDispatch`: `dispatch_claims` |
| `DepositDispatch_proof` | 4 theorems about it | TLAPS |
| `DepositPipeline` | EXTENDS `InvoiceLedger` and instantiates `DepositDispatch`, which calls it: from an event to a balance | `MCMerchant`: `merchant_orders` |
| `PaymentRequests` | `upsertInvoice`, statement by statement | `MCMerchant`: `merchant_orders` |
| `OrderIndex` | refreshes, rebuilds, cursor pages | `MCMerchant`: `merchant_orders` |
| `OrderDetails` | the queries an order's answer is put together from | `MCMerchant`: `merchant_orders` |
| `Autopayout` | the automatic payouts of a wallet | `MCMerchant`: `merchant_orders` |
| `Merchant_proof` | EXTENDS `InvoiceLedger_proof` too: 11 theorems about the five modules above and the two specifications that `DepositPipeline` implements | TLAPS |
| `Notifications` | the tasks that tell of payouts and unconfirmed payments | `MCAppTasks`: `scanner_reach` |
| `TronBackend` | TRON's cache of balances and payouts from it | `MCChainWorkers`: `chain_workers` |
| `TronNodes` | the choice of TRON's node | `MCChainWorkers`: `chain_workers` |
| `ChainBroadcasts` | concurrent payouts of a worker on the other six chains | `MCChainWorkers`: `chain_workers` |
| `ChainTransfers` | what a worker reports of a transaction, seven chains | `MCChainWorkers`: `chain_workers` |
| `WireFormats` | RLP, EVM and Solana messages, base58, X-addresses | `MCChainWorkers`: `chain_workers` |
| `WorkerAccounts` | generation and import of accounts, who counts for a coin | `MCChainWorkers`: `chain_workers` |
| `FinalPlans` | how plans of a deployment are built, hidden and overlaid | by `DeployChecks` |
| `DeployChecks` | EXTENDS `FinalPlans`: the checks of a deployment | by `CutoverAudits` |
| `CutoverAudits` | EXTENDS `DeployChecks`: the cutover script, audits and rollback | `MCChainWorkers`: `chain_workers` |
| `ChainWorkers_proof` | EXTENDS `SumTheorems`: 9 theorems about the workers and the cutover | TLAPS |

Operators that no action uses (`InsertRowNoUniqueKey`, `CreditedStaleStatus`,
`NewCursorPastAll`, ...) stand next to the definition they vary: each is a way
the code could plausibly be wrong, and each breaks the property `PROJECT.json`
names with it. They show that the properties can fail.

### InvoiceLedger

One request (`pc`, `kind`, `todo`, `cur`, `seen`, `snap`, `found`) is one HTTP
handler. A wallet notification takes the transfers of a transaction one after
the other; for each of them `recordConfirmedTransaction` is the steps
`ReadInvoice`, `CheckExisting`, `InsertRow`, `Credit`, `ClearUnconfirmed`, each
one database statement. What the handler keeps in local variables across them
is `snap`: in particular the balance it will add to. `Credit` writes absolute
values, as `UpdateInvoiceBalance` does. `Fail` and `Crash` may come between any
two statements. `Requote` is `UpdateInvoicePayment`.

Two history variables make the promises precise: `counted[i]` is the set of
rows the stored balance is the sum of, and `clean[i]` is FALSE once a row of
the invoice was inserted but not credited, or a balance was written that did
not contain what was counted since it was read. The code guarantees neither
"every row is counted" nor "counted rows stay counted": two concurrent credits
lose one of the payments. The properties say what it does guarantee, and that
these two ways are the only ones.

### InvoiceCallbacks

Extends the ledger with the delivery of callbacks. `Decide` is what the request
does with the row it recorded (`http_payments.go:53-59,205-207`),
`LoadCallbacks`/`LoadInvoice`/`TakeCallback`/`NextCallback` is `sendCallbacks`,
`Accepted`, `Refused` and `MarkTold` are `sendInvoiceNotification` for either of
them. The query of the rows (`loading`) and the read of each row's invoice are
statements of their own, and writes fall between them: a row is told with the
balance its invoice has when it is read. `AskConfirmations` is the updater's
question about one row, `ConfirmationsDone` the UPDATE after it (`released`).
`settled` and `stored` are history variables: rows a merchant accepted, and the
balances and statuses an invoice ever had. The 200 rows of a query are
`BatchLimit`.

### PayoutSpec and Payouts

`Payouts` has a stage for the service's handler (`pc`), one for the worker's
(`wpc`), the rows, the task, the chain, and the row the poller is at. A call is
made once; its items are created one by one, sent to the worker in one HTTP
call, and attached one by one. Losing the reply is `GetError` without an error
reply: the rows are marked as failed while the worker may go on. `doubtful`
remembers the items whose outcome the service (or the worker) did not learn.

The poller asks for the oldest `PollLimit` pending rows (200 in the code) in the
order of their ids (`ids`); a row behind that many others (`BeyondPage`) is not
polled. Results of a task are matched to rows by the destination address, and for
every row from the full list (`payoutTaskTxIDs`). So a row carries only transactions
of its own call to its own address (`TxidsPayTheAddress`), but of two items of a list
to one address the first result is attached to both: a row whose own broadcast failed
may be completed with its sibling's transaction. That is allowed by the property and
named in its comment.

`PayoutSpec` is the promise without processes: `Open`, `Pay`, `Succeed`,
`Fail`. `KeepsPromise` instantiates it with the row status and the set of
broadcast payments.

### DepositScanner

A pass loads the addresses of open invoices (`LoadAddresses`), asks for the
latest block (`ReadLatest`), reads the cursor (`ReadCursor`), and then fetches
(`FetchLogs`), stores (`StoreEvent`) and moves the cursor (`MoveCursor`) chunk
by chunk, several workers at a time on the one cursor. `Abort` ends a pass at
any point: an error of the node or the database, or a stop of the worker.
`unwatched` collects invoices that were open at the start of a scan that did
not know them although the scan reached blocks after their creation: created
between the load and the latest block, or beyond the batch. Those deposits the
code can miss; the properties say that it misses no others.

### DepositDispatch

`Claim` is the UPDATE that stamps rows, `ReadClaimed` the SELECT by claim
token, `Notify` .. `MarkLost` one goroutine per event with at most
`Concurrency` at a time. A claim token lives for one tick, so `token` names the
dispatcher while its tick runs and `nobody` afterwards. `expired` are the rows
whose lease ran out, `overrun` the events that were claimed away from a
dispatcher that still worked on them. `MarkDepositEventFailed` counts the attempt
and computes the status in one UPDATE; MariaDB assigns from left to right, so the
status already sees the new count and an event is dead one attempt before
`EVM_DEPOSIT_EVENT_MAX_ATTEMPTS` (`FailedStatus`).

### DepositPipeline

The one place where two processes meet that share no row: `Call` is the
dispatcher's request (`Notify`) together with the start of the ledger's handler
(`WalletNotify`), and `AnswerCall` is the handler's `Reply` together with the
dispatcher's `Answered`. Everything between is the two modules on their own. A
call that the dispatcher gives up is no longer in `serves`, and its handler goes
on beside the next one. `slighted` and `excused` remember which events were
answered 200 by a handler that had left a transfer out (no confirmations seen,
an unreadable invoice, a failed statement), or ignored because the coin is not
enabled. The code loses these deposits for good: the event is closed, and nobody
notifies again. `DeliveredIsCredited` says that there are no others.

### PaymentRequests

`client[r]` is one request between its statements. An order is `external_id`
with the callback URL and the fiat it is always sent with, as
`FindInvoiceByExternalCallbackFiat` looks it up. `Create`/`Attach` is a new
invoice and its address row; `Switch`/`Mint`/`Update` is an invoice that changes
its coin, with the address it had for that coin before if there is one. Nothing
has a unique key here, so two requests make two invoices (`TwinsOverlapped` says
when), and a request that stops before `Attach` leaves an invoice whose address
is forgotten with its coin (`torn`).

### OrderIndex and OrderDetails

`OrderIndex` has the times of the last changes in the two tables, a row of
`order_index` per order, writers that refresh the row after their write in a
statement of its own, and `RebuildOrderIndex` as one DELETE and two INSERTs. A
client pages through with the cursor `(sort_at, external_id)`; `owed` are the
orders it must still be shown, `twice` those it was shown again. `OrderDetails`
is one order: the five queries of an answer in their order beside the statements
of a payment and of a payout.

### Autopayout

One wallet. `tick` is the scheduler's call with what it has read: the wallet's
row, the balance, the attempt it recorded. Deposits arrive, admins save another
policy (`apiAutopayout`) or pay out by hand, and a transfer that was handed to the
worker lands later (`Transfer`). `NewPayout` keeps the measurement a payout rests
on, so that the property can compare it with what had landed by then.

### Notifications

Two tasks with one shape: load the oldest `Batch` rows, post them one after the
other, mark or count. Payout notices have a delay that grows with their retries
(`early`) and end after `MaxRetries`; one whose payout has no transaction id or
whose coin has no rate (`Rateless`) is never posted and never counted, and stays
at the head of the page for ever. Unconfirmed notices end when they are told or
when the payment is recorded.

### TronBackend and TronNodes

A refresh of the report of spendable balances looks up one account after the
other and stores the richest it found; the loop, a payout that found it cold or
old, and a reader with `?live=1` each run one. A payout takes the account of the
report. `knows` is the set of payouts that had moved money when the report was
begun, which is what decides whether a transfer that reverts for want of the token
was avoidable. Nothing looks at the energy and the TRX of the account that is
chosen, so a transfer may revert for want of these at any time, without any overlap
(`starved`): the property is about the token alone.
`TronNodes` is the list of full nodes shown to administrators, which every change
renumbers.

### ChainBroadcasts

One action per step that a broadcast takes on its chain: EVM finds an account,
takes the pending nonce, signs and sends; Solana takes a blockhash; Bitcoin sets
the wallet's fee rate and then sends; Monero reads what is unlocked and then
sweeps or sends; XRP and Lightning are one call. Nothing serialises two requests
of one worker. The chain keeps one transaction per nonce and lets transfers of an
empty account revert; `fate` says what became of each. The answer of a node that took
a transaction may be lost; the worker then reports an error, as of one that was
refused (`told`), and the property holds for these too.

### ChainTransfers

`transfersByTx` of every chain on a transaction of one or two movements between
own and other accounts: what the node shows (value, logs, balances before and
after, wallet rows) and what the worker makes of it, with blocks arriving between
its two questions. `ReportedIsReceived` compares the answer with the movements.
Part of what a transaction moves may be moved by contracts it calls (`inner`), which
the reports of the coin on EVM and TRON do not see; an XRP payment may deliver less
than the `Amount` that is reported, and a Lightning invoice may be paid with more than
its value (`named`). These can occur in the model and are exceptions of the property:
there the answer of the code is not what was received.

### WireFormats

Pure functions. Each behaviour writes one subject, and the property reads it back
by the chain's rules, which the code nowhere does itself. Recursion is written as
recursive functions (`Digits`, `ValueOf`, the ends of the items of a list), which
can be proved about. The insertion sort of `sortSolanaAccounts` is its result: the
n-th account is the one with n-1 others before it in the order of
`solanaAccountLess` (`Precedes`). The theorem covers numbers, call data, payloads
and keys of any size; receiver, gas price and the shapes of the two Solana payouts
are the code's.

### WorkerAccounts

Rows of `chain_account` under generation and an import that stops in the middle
and is repeated. `Counted(c)` is `accountsForCrypto`: a token without an account
of its own counts all accounts, so the first token account takes the others away
from it. A worker whose wallet makes the address answers with any row that has the
address already, also one of another coin; `promised` keeps the coin asked for and
that of the row, and the property excepts addresses for which they differ.

### FinalPlans, DeployChecks, CutoverAudits

`FinalPlans` has the functions that make a plan from an environment and the
database, hide secrets in it and lay another environment over it: coins, coverage,
workers, the switches of the checks and of what a run requires (`Named`, `Switch`). `DeployChecks`
runs the list of checks of such a plan against a deployment, one request at a
time; `seen` remembers every check that ever passed. `CutoverAudits` is the
script: each audit reads files that others have written, and both the plan and
the report may be replaced between any two of them. The rows of the cutover audit are
those of the coins its plan covers and of every other coin that a check of the report
names. The release audit looks for four proofs in them and not for the status of the
coin, so it passes a plan that was widened after the cutover audit by coins whose
status nobody asked for: what a release has seen are `ProofsOfACoin`, what a cutover
audit has seen `ProofsOfAPlan`. `stage` ends at `done`, at `aborted` after a rollback,
or at `left`: killed, or failed with `ROLLBACK_ON_FAILURE=0`, which leaves the
containers as they are. `broken` says that docker itself failed, after which the
script guarantees nothing.

## Runs

| Run | Question | Bounds | Specification |
|---|---|---|---|
| `ledger_races` | what do two concurrent requests do to a balance while the merchant requotes | 2 requests, wallet notifications or verified transfers (those that ask for no callback differ in callbacks only), 2 transactions on 2 coins, 1 invoice, 2 quotes, failures and crashes, depth 1 | `Spec` |
| `ledger_serial` | is the ledger exact without concurrency and failures, and every notified transfer credited | 1 request of any endpoint, 2 transactions with 4 outputs, 2 invoices, depth 2 | `FairSpec` |
| `callbacks_races` | can a row be told without an accepted post, or announced early | 2 requests of any endpoint, the scheduler, 1 transfer, failures and crashes | `CallbacksSpec` |
| `callbacks_payloads` | do balance and status in a stale payload belong together | 1 request, 2 payments of one invoice, 2 quotes, batch of 1 | `CallbacksSpec` |
| `callbacks_reach` | is every payment confirmed and told | 2 invoices, one of a merchant that never accepts, batch of 2, failures that stop | `CallbacksFairSpec` |
| `payouts_retries` | is an order paid once, is the promise kept, does every attached payout settle | a list of two and a single call, one order in both, a page of 1, all failures | `FairSpec` |
| `payouts_twins` | does a row carry only payments of its call to its address | 1 list, 2 items to one address and 1 to another, a page of 2, all failures | `Spec` |
| `scanner_races` | does the cursor pass only indexed, confirmed deposits | 2 workers, 2 invoices, batch of 1, 5 blocks, chunks of 1 | `Spec` |
| `scanner_reach` | is every deposit a scan can see indexed; does every notice end | 1 worker, 2 invoices, batch of 1, 5 blocks, chunks of 2, errors that stop; 5 notices, a stuck one and a deaf merchant of each kind, page of 2, 2 retries | `MCSpec` |
| `dispatch_claims` | who owns an event, when is it final, does it end | 2 dispatchers, 2 events, batch of 2, 1 slot, `MaxAttempts` 3 | `FairSpec` |
| `merchant_orders` | what can a merchant rely on | requests: 2 clients, 2 orders, 2 coins, 2 invoices, 3 addresses; index: 2 orders, page of 1, 1 writer, 1 rebuild; answers: 2 payments, 1 payout; autopayout: 4 policies, 2 minutes, balance 2, 2 payouts, 1 change; deposits: 1 event, `MaxAttempts` 3, 2 requests, failures and crashes | `MCSpec` |
| `chain_workers` | are workers' answers true, and is the cutover safe | TRON: 2 accounts, 2 payouts, 2 refreshers, 2 deposits, 2 failures; 3 nodes, 2 changes; broadcasts: 2 requests, 2 accounts, 2 amounts, 3 fees; transfers: 1 or 2 movements, 3 accounts, 2 assets; formats: byte strings and numbers at their boundaries; accounts: 2 new addresses and 1 old, lists of 2, 2 imports of 2 rows; cutover: 2 coins, 2 plans, 3 environments of the checks, 2 runs of them | `MCSpec` |

`scanner_reach`, `merchant_orders` and `chain_workers` check several modules
that share no variable. A behaviour explores one of them, which `part` names,
while the others rest in one initial state: the states are the sum and not the
product, and nothing is lost because no part can see another. Where components
do interact they are composed for real: `InvoiceCallbacks` with the ledger,
`DepositPipeline`, `Payouts`, `CutoverAudits`.

Why the bounds are enough. The races are between two sequences of statements,
so two requests, workers or dispatchers show them; two rows are what a balance
needs to lose one and a batch needs to overflow. Amounts and quotes are chosen
so that every status is reached and the two coins have different rates, limits
and confirmations. Five blocks are several chunks and unconfirmed ones above them,
and a `StartMargin` of 2 reaches below the first block. `MaxAttempts` of 3 is two
attempts as the code counts them: one retry, and the last one. Bounded counters are `MaxDepth` (confirmations),
`MaxBlock` (height) and the single life of a call, transfer or event; attempts
are bounded by the code. The batch of 200 rows is `BatchLimit`; the bound says
that at most `BatchLimit - 1` rows of broken merchants wait ahead of a row, and
the code does starve rows behind more of them: the query orders by id and the
failed rows stay in front.

In the parts: a third request, writer or payout would meet the same two-step
windows that the first two meet; with one writer the index still meets a rebuild
between its write and its refresh, and a refresh is one statement that reads the
tables as they are, so a second writer changes nothing. Three addresses are one
more than two coins need, for a quote that is made anew. A page of one order and a
page of two notices overflow; `MaxRetries` of 2 is one retry and the last, and
counts above it act alike. `LookupFailures` of 2 lets a report of two accounts fail
as a whole. Three nodes are needed for a change to move two of the others.
Numbers and strings of `WireFormats` lie on both sides of every length boundary
(55/56, 127/128, 255/256). Plans of two coins, one named and one not, are what
makes a plan narrower than another. `MaxRuns` of 2 lets a report be replaced
before any audit, or be left behind by a run that was stopped; every other file may
be replaced at any time. Two bounds keep the cutover small: a second run follows one
that ended well or left the administrator's account changed (`AnotherRunMatters`; a
report of any other run is refused by every audit, and the run after it begins as the
first did but for its orders), and plans and
reports are replaced only where a step that reads them can still come
(`PlansAndRunsMatter`). Two new addresses and lists of two (`Newest`) overflow
together with an imported row.

Symmetry of requests, workers or invoices is used in safety runs only.

Fairness. Handlers and loops are goroutines, so the runtime schedules each of
them again and again: weak fairness of a request, a scheduler task, a pass of a
worker, a dispatcher's tick, and of the chain, whose blocks keep coming. What
goes beyond that:

* `callbacks_reach`, `scanner_reach` and `dispatch_claims` assume that failures
  stop some time (`<>[][Undisturbed]_vars`), as no loop of retries ends
  otherwise. `Undisturbed` are all steps except crashes and errors.
* `callbacks_reach` assumes that a merchant who is posted to again and again
  answers 202 some time, unless it is one of `Broken`.
* `dispatch_claims` assumes that from some time on ticks get through within
  their lease (`LeasesAreHonoured`). Without that, two dispatchers can take each
  other's claims between the UPDATE and the SELECT for ever.
* The notices of `scanner_reach` assume that failures and restarts stop some time,
  that the tasks tick and time passes, and that a merchant who is posted to again
  and again answers 202 some time unless it is `Deaf`. `EveryNoticeEnds` holds as
  long as fewer than `Batch` rows are stuck; the code has no remedy for more.
* The TRON part of `chain_workers` assumes that the refresh loop and refreshes in
  flight go on (their lookups have a timeout), nothing else: lookups fail finitely
  often by the bound of the model.
* `payouts_retries` assumes that the poller comes back to each row and that a
  statement it repeats on every pass does not fail every time (strong fairness
  of the three outcomes of a poll). Crashes and lost replies may go on. A row that
  stays behind `PollLimit` older ones for ever is excepted: the code never polls it.

`CHECK_DEADLOCK FALSE` stands where the model really ends: every payout call is
made once, the chain of the model has a last block, an event can be final, and
the bounded parts of `merchant_orders` and `chain_workers` come to their end.

## Proofs

Each theorem holds for every value of the constants that meets the named
assumptions (`TransfersAssumption`, `QuotesAssumption`, `WalletAssumption`,
`CallbacksAssumption`, `PipelineAssumption`, `CallsAssumption`,
`ScannerAssumption`, `DispatchAssumption`, `RequestsAssumption`,
`IndexAssumption`, `PoliciesAssumption`, `TronAssumption`, `NodesAssumption`,
`BroadcastsAssumption`, `AccountsAssumption`, `FormatsAssumption`, and the
`TransfersAssumption` of `ChainTransfers`): any number of invoices, requests,
calls, items, workers, events, merchants' clients, orders, accounts, nodes, coins
and refreshers, any page, batch, chunk or confirmation depth, call data and
payloads of any length, and any failures the models know.

None of the checked invariants is inductive by itself; what is proved inductive
is `TypeOK /\ Safety` of the proof module (and what a theorem's row adds to it),
or the invariant the table names.

| Theorem | States | Rests on |
|---|---|---|
| `InvoiceLedger_proof!CreditedOnce` | `NeverCreditedTwice` | `PendingIsFresh`: a row about to be credited is in no balance, stored or read, and only the request that inserted it credits it - which is where the unique key matters; `SnapshotsAreBacked` carries it over stale reads |
| `InvoiceLedger_proof!BalanceBacked` | a balance consists of recorded rows of its own invoice | `SnapshotsAreBacked` and that rows are never deleted |
| `InvoiceLedger_proof!BalanceComplete` | `BalanceIsComplete` | inductive with the former |
| `InvoiceLedger_proof!StatusFollows` | `StatusFollowsBalance` | `QuotesAreOwn`: the quote a request works with is one the invoice has had, although it may have been replaced meanwhile |
| `InvoiceLedger_proof!BalancesAdd` | `BalanceIsSum` | `Sums`: a balance, stored or read by a request, is the sum of the rows in it, and the amount a request is about to add is the one its row has; `PendingIsFresh` makes that row a new summand, and `SumTheorems` adds it |
| `InvoiceLedger_proof!SerialBalancesAreExact` | `SerialBalanceIsExact`, for one request at a time and no failures | `NothingIsTorn`: what the one request has read is still stored when it writes; with `BalanceIsComplete` no row is missing, and `BalancesAdd` |
| `InvoiceLedger_proof!PermanentRows` | rows stay, with their amounts | the step lemma of the same invariant |
| `InvoiceCallbacks_proof!MarkedWasAccepted` | `ToldMeansAccepted` | `DeliveryInv`: `MarksAreSettled` (a sender about to mark saw a 202), and that a sender's subject does not change between the two (`SendersAreBusy`) |
| `InvoiceCallbacks_proof!NothingPostedEarly` | `NeverAnnouncedEarly` | `DeliveryInv`: `RecordedIsInPlace` (what a request believes of its row still holds when it posts), `QueriedIsDue`, `LoadedIsDue` and `PostsAreDue`; rows never go back to waiting |
| `InvoiceCallbacks_proof!PostedBelongsTogether` | `PostedWasStored` | `DeliveryInv`: `SnapsAreStored` and `LoadedIsDue`: every copy of an invoice was one stored state of it, and the ledger's proof for what is stored |
| `DepositScanner_proof!CursorPassesIndexed` | `PassedMeansIndexed` | `PassesAreComplete`: what a running scan has behind it is indexed and an invoice it does not know is younger than the blocks it scans; `LogsAreExact` for the chunk in hand; `PassesAreBounded` and `Times` for the arithmetic |
| `DepositScanner_proof!ConfirmedEvents` | `EventsAreConfirmed` | `LogsAreExact`, `PassesAreBounded` |
| `DepositDispatch_proof!DeliveredNotified` | `DeliveredMeansNotified` | `MarksAreTrue`: an outcome about to be written is the one given |
| `DepositDispatch_proof!SingleOwner` | `OneOwner` | `TicksAreOrderly`, `TokensAreLive`: a stamp is that of a running tick |
| `DepositDispatch_proof!FinalStays` | `FinalUnlessOverrun` | `OneOwner` with `TokensAreLive`: without the claim no statement changes a row |
| `Merchant_proof!DeliveredWasCredited` | `DeliveredIsCredited` | `PipelineInv`: every step of the pipeline is a step or a stutter of the ledger (`LedgerMoves`), so its invariant holds; `ServedIsRecorded`: a request that left nothing out has in the table, or still to do, every transfer of the event it serves; `AnsweredIsRecorded`: so a good answer means recorded rows, and `BalanceIsComplete` brings them into the balance |
| `Merchant_proof!LedgerIsALedger` | the pipeline implements `InvoiceLedger` | `LedgerMoves`: each step is one of the ledger or leaves its variables alone |
| `Merchant_proof!QueueIsAQueue` | the pipeline implements `DepositDispatch` | `QueueMoves`, under `PipelineInv`: each step is one of the queue, whose answers are chosen by the ledger, or leaves it alone |
| `Merchant_proof!TwinsAreRaces` | `TwinsOverlapped` | `MissesAreTrue`: none of the invoices that were there when a request looked is of its order, so any other one is younger than the look |
| `Merchant_proof!AddressesLeadBack` | `AnsweredAddressIsFound` | `AddressesAreUnique`: workers give every address once, so rows of one address are of one invoice; `IssuesAreBacked`: an address that was answered is the invoice's own or has its row, unless a request stopped in between |
| `Merchant_proof!AnswersAreExplained` | `AnswersExplainThemselves` | `DetailsInv`: rows are recorded before they are credited and transactions written before a payout succeeds, so what a query shows is in the table that a later query reads (`ViewsGrow`) |
| `Merchant_proof!IndexCatchesUpAlways` | `IndexIsCurrent` | `IndexInv`: an order whose row is behind waits for a writer or for the INSERT of the rebuild that is still to come (`IndexCatchesUp`); no row is ahead of its tables (`IndexFollows`) |
| `Merchant_proof!ScansAreFaithful` | `ScanIsFaithful` | `ScanInOrder`: what a client is owed lies behind its cursor, what it was shown does not; `PrecedesIsStrict`: the cursor's order is total, equal times included |
| `Merchant_proof!AutopayoutsWait` | `AutopayoutsAreMeasured` | `AutopayoutInv`: attempts are recorded before payouts are sent (`AttemptsAreRecorded`), so a tick that goes on has waited for all of them (`TicksWaited`); a measured amount is covered until something lands (`MeasurementsHold`) |
| `ChainWorkers_proof!RevertsAreOverlaps` | `RevertedWasOverlapped` | `TronInv`: `ReportsAreSound`, `ChoicesAreSound`: a report, being collected, cached or chosen from, shows funds that the account still has, or another payout moved them after it was begun; about the token only, not about energy and TRX |
| `ChainWorkers_proof!ChangesAreAsShown` | `ChangeIsAsShown` | `ListsAreDated`: a list as old as the last change is the list as it is |
| `ChainWorkers_proof!SentPayoutsArePaid` | `SentMeansPaid` | `BroadcastInv`: on a chain `ChainInv` (who met whom is mutual and kept; a payout was covered by its account when it was found, unless it met another) and on EVM `NonceInv` (the nonces of an account, in blocks and in the queue, are the numbers from 0 on without a gap); in a wallet `WalletInv` |
| `ChainWorkers_proof!ReportsAreTrue` | `ReportedIsReceived` | `TransferInv`: `ToldIsReceived` says it with sums that can be reasoned about (`SumsAreTotals`); outside the named exceptions, every chain's rows are those of the movements under other names (`RowsAddUp`, from `TotalRenamed`), a single row, or the difference of balances; `ConfirmationsAreTrue` from the order of the two questions |
| `ChainWorkers_proof!FormatsAreRead` | `ReadAsWritten` | `FormatsInv`: what is written is what the code writes for a well-formed subject; `ListIsRead` (the ends of the items of an RLP list are where its parts were joined), `Base58LeadsBack` (digits lead back to a number, `ValueOfDigits`, and a text to its digits, `DigitsOfValue`), `MessageIsRead` (the order of accounts is total, so every position is some key's, the payer's the first, and the read-only accounts are the last) |
| `ChainWorkers_proof!AnsweredAddressesStay` | `AnsweredStaysOwned` | `AccountsInv`: one row per address, each explained by an answer or by an old row, and an answer remembers the coin of its row; the rows an import has passed are there (`ImportedIsThere`) |
| `ChainWorkers_proof!OneSystemAtATime` | `OneSystemServes` | `ContainersFollowStage`: which containers run at each step of the script, and where it ends or is left |
| `ChainWorkers_proof!ReleasesWereSeen` | `PassedReleaseWasSeen` | `FilesAreTrue`: whatever a report, an audit or a release claims to have passed has been seen, whoever replaced it, and whatever its plan or environment named: four proofs for a release, the status too for a cutover audit |
| `Payouts_proof!OnePaymentPerOrder` | `OrderPaidOnce` | `OrdersAreUnique` (the unique index) and that the worker only gets recorded items (`WorkIsRecorded`) |
| `Payouts_proof!FailureIsHonest` | `FailedMeansUnpaid` | `FailedIsSettled`, `ReportIsTrue`, `WorkIsRemembered`: the task tells what the worker has sent, and rows fail before the worker gets them or after it is over |
| `Payouts_proof!PaidToTheAddress` | `TxidsPayTheAddress` | what the worker has sent is of its own call, and results are matched by the address |
| `Payouts_proof!OwnTransactions` | rows get their own transactions (`TxidsAreOwn`) | `DistinctDestinations`: no list holds two payouts to one address; that the first result for an address is the item's own then |
| `Payouts_proof!PromiseIsKept` | `KeepsPromise` | all of the above: creating a row is `Open`, a broadcast is `Pay`, completing is `Succeed`, marking is `Fail` of rows still in progress, and everything else a stutter |

`DistinctDestinations` is needed for `OwnTransactions` and `PromiseIsKept`: without
it, `PaidToTheAddress` says what is left.
Every proof module also proves its component's types. `BalanceIsBacked`,
`RowsArePermanent`, `EventsAreConfirmed` and `DeliveredMeansNotified` are proved
only, no run repeats them.

Sums and digits. A balance and the rows of an answer are sums over sets (`MapThenSumSet`),
defined by recursion over a choice of elements. The library's induction theorems
have an operator as a parameter and cannot be used; `SumTheorems` argues by a
smallest counterexample instead: the parts of a finite set are well-founded, so a
statement about sums that fails has a smallest part for which it fails, and one
element less refutes it. That the recursion defines a function at all
(`TotalsExist`), that any element may be taken last (`TotalRemove`), and that
summands may be renamed (`TotalRenamed`) are proved that way. `WireFormats` does
the same with numbers: the digits of a number, the value of a text, the joining of
lists and the ends of a list's items are recursive functions, each met through the
equation it satisfies (`DigitsExist`, `ValuesExist`, `FlattenExists`, `EndsAre`),
and the smallest number or length for which a claim fails refutes it.

`SerialBalancesAreExact` has two hypotheses, that failures are switched off and
that there is one request; they are the instance `ledger_serial` checks. Without
them the statement is false, and `BalanceComplete` says what holds instead.

Only model-checked: all liveness and leads-to properties (they need fairness),
among them `CacheCatchesUpInPart`. Every invariant or action property that a run
checks is a theorem. `InvoiceCallbacks` does not implement `InvoiceLedger` step by
step, because `ConfirmationsDone` and `MarkTold` change columns of a row that the
ledger never writes; its proofs use the ledger's lemmas step by step instead.

## Not modelled

The database executes one statement at a time and keeps its unique keys; crashes
lose no committed statement. Two copies of the main service running their
schedulers side by side are not modelled: one scheduler runs per deployment.

Left out, with the reason:

* outgoing transactions (`AddOutgoingTransaction`): an OUTGOING invoice is
  bookkeeping that nobody is told of and nothing reads back;
* the mirror of Lightning invoices in `chainworker/lightning.go`: how LND settles
  them is known from its RPC only;
* destination tags of XRP in payouts: the worker answers with address and tag and
  the row holds the plain address, so nothing is attached. The match by
  destination is in `Payouts`; the text of a destination is not;
* staking, delegating and activating of TRON accounts (`tron_admin.go`,
  `tron_activation.go`): single calls to the node without state in the worker;
* ECDSA and Ed25519 signatures, decryption of imported keys, sessions and one-time
  codes: what they guarantee is not a property of states;
* exchange rates and fees: decimal arithmetic over answers of an exchange; a rate
  is an input of the other models;
* `depositEventRetryDelay`: an event becomes due some time, whatever the shift of
  the delay; its bound is a constant of the code;
* the app's copy of legacy tables, configuration, commands, formatting of admin
  pages, logging: single statements, or read once at start;
* `preflight`'s inspections of the database, the thresholds of `deploycheck`'s
  performance checks and the text of reports: their outcome is an input of
  `CutoverAudits`;
* validation of requests: the models start from accepted ones.

## Plan

Done: the ledger, callbacks, payouts, indexer, dispatcher and the pipeline that
composes the last with the first; payment requests; order index and answers;
notifications; autopayout; the workers' broadcasts, reports, formats and
accounts; the cutover; a proof of every safety property the runs check. What is
left, in this order:

1. `OutgoingLedger` - concurrent notifications of one outgoing transaction.
2. `LightningMirror` - invoices of a worker against those of LND.
3. The indexer in front of `DepositPipeline`: a deposit on the chain ends up in a
   balance, for which the indexer's `unwatched` and the pipeline's `excused` would
   name every exception.
4. Rate fees and retry delays against reference definitions.

New modules are checked in the runs of what they compose with where the bounds
allow, so that one instance answers several questions; components that are checked
together share a proof module.
