--------------------------- MODULE ChainTransfers ---------------------------
(***************************************************************************)
(* What a worker answers about a transaction: transfersByTx of each chain. *)
(* A transaction moves units of assets between accounts, some of them the  *)
(* worker's; the node shows it the way the chain does (a value, a payment, *)
(* logs, balances before and after, or the rows of a wallet), and while    *)
(* the worker asks, blocks are added.  It may fail, and then moves nothing;*)
(* and what a contract it calls moves, it does not name itself.  One       *)
(* transaction per behaviour.                                              *)
(***************************************************************************)
EXTENDS Integers, Sequences, FiniteSets, FiniteSetsExt

CONSTANTS
  Ledgers,     \* "evm", "tron", "solana", "xrp", "bitcoin", "monero", "lightning"
  Own, Others, \* accounts of the worker, and of everybody else
  Assets,      \* "coin", the chain's own, and tokens
  Quantities,  \* units of one movement
  MaxHead      \* bound on blocks

ASSUME TransfersAssumption ==
  /\ "coin" \in Assets /\ Own \cap Others = {}
  /\ Quantities \subseteq Nat \ {0} /\ MaxHead \in Nat

VARIABLES
  ledger, asset,  \* the chain, and the coin the worker is asked about
  moves, fails,   \* what the transaction is to move, in its order; in vain
  inner,       \* which of it a contract moves, and not the transaction itself
  named,       \* units that an XRP payment or a Lightning invoice names
  loaded,      \* Solana: accounts it names by a lookup table
  head, mined, \* newest block, and the transaction's (0: none yet)
  asked,       \* stage of the call, the block it was told is the newest, and
               \* whether the transaction was in a block when it was asked for
  answer       \* the rows it answers

transferVars == <<ledger, asset, moves, fails, inner, named, loaded, head, mined, asked, answer>>
question == <<ledger, asset, moves, fails, inner, named, loaded>>

Holders == Own \cup Others
Movements == [of : Assets, from : Holders, to : Holders, units : Quantities]
WithTokens == {"evm", "tron", "solana"}
OnePayment == {"xrp", "monero", "lightning"}

(* A contract moves the coin on an EVM, where the transaction may move some*)
(* as well, and on TRON, where it is a transfer or a call; logs tell every *)
(* movement of a token.  Of an XRP payment less may arrive than it names   *)
(* (a partial payment), for a Lightning invoice more may be paid.          *)
Carried ==
  /\ inner \in SUBSET DOMAIN moves /\ (asset # "coin" \/ ledger \notin {"evm", "tron"} => inner = {})
  /\ ledger = "evm" /\ asset = "coin" => DOMAIN moves \ inner \subseteq {1}
  /\ ledger = "tron" /\ asset = "coin" => inner = DOMAIN moves \/ (inner = {} /\ Len(moves) = 1)
  /\ named \in Quantities /\ (ledger \notin {"xrp", "lightning"} => named = moves[1].units)
  /\ (ledger = "xrp" => named >= moves[1].units) /\ (ledger = "lightning" => named <= moves[1].units)

TransfersInit ==
  /\ ledger \in Ledgers /\ asset \in IF ledger \in WithTokens THEN Assets ELSE {"coin"}
  /\ fails \in BOOLEAN
  /\ moves \in {<<m>> : m \in Movements} \cup (Movements \X Movements)
  /\ ledger \in OnePayment => Len(moves) = 1
  /\ ledger # "solana" /\ asset = "coin" => \A i \in DOMAIN moves : moves[i].of = "coin"
  /\ Carried
  /\ loaded \in SUBSET Own /\ (ledger # "solana" => loaded = {})
  /\ head = 1 /\ mined \in {0, 1} /\ answer = {}
  /\ asked = [at |-> "no", latest |-> 0, seen |-> FALSE]

NewBlock ==
  /\ head < MaxHead /\ head' = head + 1
  /\ mined' \in IF mined = 0 THEN {0, head + 1} ELSE {mined}
  /\ UNCHANGED <<question, asked, answer>>

----------------------------------------------------------------------------
FromFirst(fromOwned, toOwned) ==
  IF fromOwned THEN "send" ELSE IF toOwned THEN "receive" ELSE ""

(* transferCategory.                                                       *)
Category(fromOwned, toOwned) ==
  IF toOwned THEN "receive" ELSE IF fromOwned THEN "send" ELSE ""

Confirmations(latest, block) ==
  IF latest = 0 \/ block = 0 \/ latest < block THEN 0 ELSE latest - block + 1

Row(i, address, units, category, confirmed) ==
  [nr |-> i, address |-> address, units |-> units, category |-> category,
   confirmations |-> confirmed]

(* A movement as a row, named by its receiver; those that touch no own     *)
(* account are left out.                                                   *)
RowsOf(indices, confirmed) ==
  {r \in {Row(i, moves[i].to, moves[i].units,
              Category(moves[i].from \in Own, moves[i].to \in Own), confirmed) : i \in indices} :
     r.category # ""}

(* bnbNativeTransfersByTx: the transaction itself, not its receipt.  What  *)
(* its contracts move is in neither.                                       *)
EVMNative(latest) == RowsOf({1} \ inner, Confirmations(latest, mined))

(* bnbTokenTransfersByTx: the receipt's logs of the asked contract.        *)
Logs == IF mined = 0 \/ fails THEN {} ELSE {i \in DOMAIN moves : moves[i].of = asset}
EVMToken(latest) == RowsOf(Logs, Confirmations(latest, mined))

(* tronNativeTransfersByTx: those of its contracts that are transfers.     *)
TRONNative(latest) == RowsOf(DOMAIN moves \ inner, Confirmations(latest, mined))

(* tronTokenTransfersByTx: the logs of its information.                    *)
TRONToken(latest) == RowsOf(Logs, Confirmations(latest, mined))

(* What an account gets, and gives, of the asked coin by the transaction.  *)
In(a)  == MapThenSumSet(LAMBDA i : moves[i].units,
            {i \in DOMAIN moves \ inner : moves[i].of = asset /\ moves[i].to = a})
Out(a) == MapThenSumSet(LAMBDA i : moves[i].units,
            {i \in DOMAIN moves : moves[i].of = asset /\ moves[i].from = a})

NetworkFee == 1
Charged(a) == IF asset = "coin" /\ a = moves[1].from THEN NetworkFee ELSE 0
Delta(a) == In(a) - Out(a) - Charged(a)

ByBalance(accounts, latest) ==
  {Row(0, a, IF Delta(a) > 0 THEN Delta(a) ELSE -Delta(a),
       IF Delta(a) > 0 THEN "receive" ELSE "send", Confirmations(latest, mined)) :
     a \in {b \in accounts : Delta(b) # 0}}

(* solanaNativeTransfers: balances of the accounts the message lists, not  *)
(* of those it loads by a lookup table.                                    *)
SolanaNative(latest) == ByBalance(Own \ loaded, latest)

(* solanaTokenTransfers: balances of the mint, by their owners.            *)
SolanaToken(latest) == ByBalance(Own, latest)

(* bitcoinTransfersByTx: the wallet's rows, one for each side of its own.  *)
BitcoinRows(confirmed) ==
  {Row(i, moves[i].to, moves[i].units, "send", confirmed) :
     i \in {j \in DOMAIN moves : moves[j].from \in Own}}
  \cup {Row(i, moves[i].to, moves[i].units, "receive", confirmed) :
     i \in {j \in DOMAIN moves : moves[j].to \in Own}}

(* moneroCategory.  What waits in the pool counts as sent, and what the    *)
(* wallet could not send as received.                                      *)
MoneroCategory(i) ==
  IF moves[i].from \in Own THEN IF fails THEN "receive" ELSE "send"
  ELSE IF mined = 0 THEN "send" ELSE "receive"

(* moneroTransfersByTx: a failed transfer bears the wallet's own address.  *)
MoneroRows ==
  {Row(1, IF moves[1].from \in Own /\ fails THEN moves[1].from ELSE moves[1].to,
       moves[1].units, MoneroCategory(1), IF fails THEN 0 ELSE Confirmations(head, mined))}

(* xrpTransfersByTx: the payment's Amount, not what it delivered.          *)
XRPRow(confirmed) ==
  Row(1, moves[1].to, named, Category(moves[1].from \in Own, moves[1].to \in Own), confirmed)

(* lightningTransfersByTx: an invoice of the worker, its value and not what*)
(* was paid; LND's answer or, when it gives none, the row stored before.   *)
Settled == 999
LightningRows(current) ==
  {Row(1, moves[1].to, named, "receive",
       IF current /\ mined # 0 /\ ~fails THEN Settled ELSE 0)}

----------------------------------------------------------------------------
(* EVM, TRON and Solana: the newest block is asked for first.              *)
AskLatest ==
  /\ asked.at = "no" /\ ledger \in WithTokens
  /\ asked' = [asked EXCEPT !.at = "latest", !.latest = head]
  /\ UNCHANGED <<question, head, mined, answer>>

Answers(rows) ==
  /\ answer' = rows /\ asked' = [asked EXCEPT !.at = "answered", !.seen = mined # 0]
  /\ UNCHANGED <<question, head, mined>>

(* bnbTransfersByTx, tronTransfersByTx. *)
AskEVM ==
  /\ ledger = "evm" /\ asked.at = "latest"
  /\ Answers(IF asset = "coin" THEN EVMNative(asked.latest) ELSE EVMToken(asked.latest))
AskTRON ==
  /\ ledger = "tron" /\ asked.at = "latest"
  /\ Answers(IF asset = "coin" THEN TRONNative(asked.latest) ELSE TRONToken(asked.latest))

(* solanaTransfersByTx: only a final transaction is found, a failed one is *)
(* an error.                                                               *)
AskSolana ==
  /\ ledger = "solana" /\ asked.at = "latest" /\ mined # 0 /\ ~fails
  /\ Answers(IF asset = "coin" THEN SolanaNative(asked.latest) ELSE SolanaToken(asked.latest))

(* xrpTransfersByTx: a failure is an error; the newest ledger comes last,  *)
(* and without it a validated payment has one confirmation.                *)
AskXRP ==
  /\ ledger = "xrp" /\ asked.at = "no" /\ (fails => mined = 0)
  /\ \E confirmed \in {Confirmations(head, mined), IF mined = 0 THEN 0 ELSE 1} :
       XRPRow(confirmed).category # "" /\ Answers({XRPRow(confirmed)})

(* A wallet answers both at once; a conflicting transaction has -1.        *)
AskBitcoin ==
  /\ ledger = "bitcoin" /\ asked.at = "no" /\ (fails => mined = 0)
  /\ LET rows == BitcoinRows(IF fails THEN -1 ELSE Confirmations(head, mined))
     IN rows # {} /\ Answers(rows)
AskMonero ==
  /\ ledger = "monero" /\ asked.at = "no" /\ (fails => mined = 0)
  /\ {moves[1].from, moves[1].to} \cap Own # {} /\ Answers(MoneroRows)
AskLightning ==
  /\ ledger = "lightning" /\ asked.at = "no" /\ moves[1].to \in Own
  /\ \E current \in BOOLEAN : Answers(LightningRows(current))

TransfersNext ==
  \/ NewBlock \/ AskLatest \/ AskEVM \/ AskTRON \/ AskSolana \/ AskXRP
  \/ AskBitcoin \/ AskMonero \/ AskLightning

TransfersSpec == TransfersInit /\ [][TransfersNext]_transferVars

----------------------------------------------------------------------------
SumOf(a, category) == MapThenSumSet(LAMBDA r : r.units,
                        {r \in answer : r.address = a /\ r.category = category})

(* An answer about a transaction in a block says for every own account     *)
(* what it brings: every unit of the asked coin that the transaction moves,*)
(* none of another, on Solana the change of the balance.  Nobody is told   *)
(* confirmations that the block has not, nor any of a transaction that     *)
(* failed.  Outside this are: coins moved by the contracts that an EVM or  *)
(* TRON transaction calls, partial payments of XRP and Lightning invoices  *)
(* paid with more, the coin of an account that Solana loads by a table, own*)
(* transfers in a Monero wallet, and failed transfers of the coin on EVM   *)
(* and TRON, whose receipt nobody reads.  (transfersByTx)                  *)
ReportedIsReceived ==
  asked.at = "answered" =>
    /\ asked.seen /\ ~fails => \A a \in Own :
         /\ ledger \in {"evm", "tron", "bitcoin"} => SumOf(a, "receive") = In(a)
         /\ ledger \in {"xrp", "lightning"} /\ named = moves[1].units =>
              SumOf(a, "receive") = In(a)
         /\ ledger = "monero" /\ moves[1].from \notin Own => SumOf(a, "receive") = In(a)
         /\ ledger = "solana" /\ (asset = "coin" => a \notin loaded) =>
              SumOf(a, "receive") - SumOf(a, "send") = Delta(a)
    /\ \A r \in answer : r.confirmations > 0 =>
         /\ asked.seen /\ (ledger # "lightning" => r.confirmations <= head - mined + 1)
         /\ ~fails \/ (ledger \in {"evm", "tron"} /\ asset = "coin")
=============================================================================
