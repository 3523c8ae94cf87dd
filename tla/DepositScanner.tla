--------------------------- MODULE DepositScanner ---------------------------
(***************************************************************************)
(* The EVM deposit indexer of the chain worker, for one token contract.    *)
(*                                                                         *)
(* A pass loads the addresses of open invoices, oldest first and at most   *)
(* BatchSize of them, then asks the node for its latest block, and scans   *)
(* the blocks behind the cursor chunk by chunk: it fetches the transfer    *)
(* logs of a chunk, stores those to a loaded address as deposit events and *)
(* moves the cursor behind the chunk.  Passes may fail at every statement  *)
(* and several workers may run them; the cursor never moves back.          *)
(*                                                                         *)
(* A block number stands for time: an invoice is as old as the block that  *)
(* was the latest when it was created.  One deposit per address.           *)
(***************************************************************************)
EXTENDS Integers, FiniteSets, FiniteSetsExt

CONSTANTS
  Scanners,          \* workers running evmDepositScanLoop for the contract
  Addresses,         \* invoice addresses
  BatchSize,         \* cfg.DepositScanBatchSize
  BlockStep,         \* cfg.DepositScanBlockStep
  MinConfirmations,  \* depositScanMinConfirmations
  StartMargin,       \* blocks a first pass looks back beyond the oldest invoice
  MaxBlock           \* bound of the model: height of the chain

ASSUME ScannerAssumption ==
  /\ BatchSize \in Nat \ {0} /\ BlockStep \in Nat \ {0}
  /\ MinConfirmations \in Nat \ {0}
  /\ StartMargin \in Nat /\ MaxBlock \in Nat
  /\ IsFiniteSet(Addresses)

VARIABLES
  head,       \* height of the chain
  created,    \* block at the creation of an invoice; 0: it does not exist
  open,       \* invoices UNPAID or PARTIAL and young enough
  deposit,    \* block of the transfer to an address; 0: none
  cursor,     \* last_scanned_block; 0: no row
  events,     \* addresses whose deposit is in chain_deposit_event
  spc,        \* stage of a scanner's pass
  index,      \* addresses it loaded
  from, to,   \* blocks it still has to scan
  logs,       \* deposits of the chunk it has yet to store
  unwatched   \* history: open and old enough at a scan that did not know them

chainVars == <<head, created, open, deposit>>
storeVars == <<cursor, events>>
passVars  == <<spc, index, from, to, logs>>
vars      == <<chainVars, storeVars, passVars, unwatched>>

Init ==
  /\ head = 1
  /\ created = [a \in Addresses |-> 0]
  /\ open = {}
  /\ deposit = [a \in Addresses |-> 0]
  /\ cursor = 0 /\ events = {}
  /\ spc = [s \in Scanners |-> "idle"]
  /\ index = [s \in Scanners |-> {}]
  /\ from = [s \in Scanners |-> 0]
  /\ to = [s \in Scanners |-> 0]
  /\ logs = [s \in Scanners |-> {}]
  /\ unwatched = {}

Goto(s, stage) == spc' = [spc EXCEPT ![s] = stage]

----------------------------------------------------------------------------
(* The chain and the main service.                                         *)

(* The next block, with the transfers to some of the addresses handed out. *)
Mine(paid) ==
  /\ head < MaxBlock
  /\ head' = head + 1
  /\ \A a \in paid : created[a] # 0 /\ deposit[a] = 0
  /\ deposit' = [a \in Addresses |-> IF a \in paid THEN head + 1 ELSE deposit[a]]
  /\ UNCHANGED <<created, open, storeVars, passVars, unwatched>>

CreateInvoice(a) ==
  /\ created[a] = 0
  /\ created' = [created EXCEPT ![a] = head]
  /\ open' = open \cup {a}
  /\ UNCHANGED <<head, deposit, storeVars, passVars, unwatched>>

(* Paid, or older than DepositScanMaxInvoiceAge.                           *)
CloseInvoice(a) ==
  /\ a \in open
  /\ open' = open \ {a}
  /\ UNCHANGED <<head, created, deposit, storeVars, passVars, unwatched>>

----------------------------------------------------------------------------
(* A pass of scanEVMDeposits.                                              *)

(* ORDER BY created_at LIMIT BatchSize.                                    *)
Batches ==
  {B \in SUBSET open :
     /\ Cardinality(B) = Min({BatchSize, Cardinality(open)})
     /\ \A a \in B, b \in open \ B : created[a] <= created[b]}

LoadAddresses(s) ==
  /\ spc[s] = "idle" /\ open # {}
  /\ \E B \in Batches : index' = [index EXCEPT ![s] = B]
  /\ Goto(s, "latest")
  /\ UNCHANGED <<chainVars, storeVars, from, to, logs, unwatched>>

Earliest(B) == Min({created[a] : a \in B})

LastConfirmedAny == head
LastConfirmed == head - MinConfirmations + 1

FirstUnscannedUnclamped(s) ==
  IF cursor > 0 THEN cursor + 1 ELSE Earliest(index[s]) - StartMargin

FirstUnscanned(s) ==
  IF cursor > 0 THEN cursor + 1
  ELSE Max({1, Earliest(index[s]) - StartMargin})

(* latestBlockNumber: the last block with confirmations enough.            *)
ReadLatest(s) ==
  /\ spc[s] = "latest"
  /\ IF LastConfirmed < 1
       THEN /\ Goto(s, "idle")
            /\ index' = [index EXCEPT ![s] = {}]
            /\ UNCHANGED to
       ELSE /\ Goto(s, "cursor")
            /\ to' = [to EXCEPT ![s] = LastConfirmed]
            /\ UNCHANGED index
  /\ UNCHANGED <<chainVars, storeVars, from, logs, unwatched>>

(* DepositScanCursor and the block range of the pass.  Deposits come after *)
(* the creation of their invoice: this scan can only miss invoices that    *)
(* are older than its last block.                                          *)
ReadCursor(s) ==
  /\ spc[s] = "cursor"
  /\ IF FirstUnscanned(s) > to[s]
       THEN /\ Goto(s, "idle")
            /\ index' = [index EXCEPT ![s] = {}]
            /\ to' = [to EXCEPT ![s] = 0]
            /\ UNCHANGED <<from, unwatched>>
       ELSE /\ Goto(s, "chunk")
            /\ from' = [from EXCEPT ![s] = FirstUnscanned(s)]
            /\ unwatched' = unwatched \cup {a \in open \ index[s] : created[a] < to[s]}
            /\ UNCHANGED <<index, to>>
  /\ UNCHANGED <<chainVars, storeVars, logs>>

ChunkEnd(s) == Min({from[s] + BlockStep - 1, to[s]})

LogsExclusive(s) == {a \in index[s] : deposit[a] \in from[s] .. ChunkEnd(s) - 1}
LogsOf(s)        == {a \in index[s] : deposit[a] \in from[s] .. ChunkEnd(s)}

(* evmTransferLogs; indexEVMDepositLog keeps those of a known address.     *)
FetchLogs(s) ==
  /\ spc[s] = "chunk"
  /\ logs' = [logs EXCEPT ![s] = LogsOf(s)]
  /\ Goto(s, "store")
  /\ UNCHANGED <<chainVars, storeVars, index, from, to, unwatched>>

(* InsertDepositEvent, INSERT IGNORE.                                      *)
StoreEvent(s, a) ==
  /\ spc[s] = "store" /\ a \in logs[s]
  /\ events' = events \cup {a}
  /\ logs' = [logs EXCEPT ![s] = @ \ {a}]
  /\ UNCHANGED <<chainVars, cursor, spc, index, from, to, unwatched>>

EndPass(s) ==
  /\ Goto(s, "idle")
  /\ index' = [index EXCEPT ![s] = {}]
  /\ from' = [from EXCEPT ![s] = 0]
  /\ to' = [to EXCEPT ![s] = 0]
  /\ logs' = [logs EXCEPT ![s] = {}]

NewCursorPastAll(s) == Max({cursor, to[s]})
NewCursor(s)        == Max({cursor, ChunkEnd(s)})

(* UpsertDepositScanCursor with GREATEST; then the next chunk.             *)
MoveCursor(s) ==
  /\ spc[s] = "store" /\ logs[s] = {}
  /\ cursor' = NewCursor(s)
  /\ IF from[s] + BlockStep > to[s]
       THEN EndPass(s)
       ELSE /\ Goto(s, "chunk")
            /\ from' = [from EXCEPT ![s] = @ + BlockStep]
            /\ UNCHANGED <<index, to, logs>>
  /\ UNCHANGED <<chainVars, events, unwatched>>

(* A node or database error, or the worker stops: the pass is over.        *)
Abort(s) ==
  /\ spc[s] # "idle"
  /\ EndPass(s)
  /\ UNCHANGED <<chainVars, storeVars, unwatched>>

Pass(s) ==
  \/ LoadAddresses(s) \/ ReadLatest(s) \/ ReadCursor(s) \/ FetchLogs(s)
  \/ (\E a \in Addresses : StoreEvent(s, a))
  \/ MoveCursor(s)

Undisturbed ==
  \/ \E paid \in SUBSET Addresses : Mine(paid)
  \/ \E a \in Addresses : CreateInvoice(a) \/ CloseInvoice(a)
  \/ \E s \in Scanners : Pass(s)

Next == Undisturbed \/ \E s \in Scanners : Abort(s)

Spec == Init /\ [][Next]_vars

(* Scanners pass again and again, blocks are mined, and errors stop.       *)
FairSpec ==
  /\ Spec
  /\ <>[][Undisturbed]_vars
  /\ \A s \in Scanners : WF_vars(Pass(s))
  /\ WF_vars(Mine({}))

----------------------------------------------------------------------------
(* Passes and tables have their types.                                     *)
TypeOK ==
  /\ head \in Nat \ {0}
  /\ created \in [Addresses -> Nat] /\ deposit \in [Addresses -> Nat]
  /\ open \subseteq Addresses /\ events \subseteq Addresses
  /\ cursor \in Nat
  /\ spc \in [Scanners -> {"idle", "latest", "cursor", "chunk", "store"}]
  /\ index \in [Scanners -> SUBSET Addresses]
  /\ from \in [Scanners -> Nat] /\ to \in [Scanners -> Nat]
  /\ logs \in [Scanners -> SUBSET Addresses]
  /\ unwatched \subseteq Addresses

(* What the cursor has passed is indexed: a deposit at or below it is an   *)
(* event, if its invoice is still open and no scan started without knowing *)
(* the address (created between the two reads, or beyond the batch).       *)
PassedMeansIndexed ==
  \A a \in open \ unwatched :
    deposit[a] \in 1 .. cursor => a \in events

(* Only confirmed deposits become events.                                  *)
EventsAreConfirmed ==
  \A a \in events : deposit[a] # 0 /\ head - deposit[a] + 1 >= MinConfirmations

(* A confirmed deposit to an invoice that stays open and was never left    *)
(* out becomes an event.                                                   *)
EveryDepositIsIndexed ==
  \A a \in Addresses :
    (deposit[a] # 0 /\ deposit[a] + MinConfirmations - 1 <= MaxBlock)
      ~> (a \in events \/ a \notin open \/ a \in unwatched)
=============================================================================
