--------------------------- MODULE ChainBroadcasts ---------------------------
(***************************************************************************)
(* Payouts of one worker, beside each other.  Workers that hold the keys   *)
(* (EVM, Solana) look for an account that can pay, take what makes the     *)
(* transaction unique, sign, and send; the others ask a wallet or a node   *)
(* that does this in one step, after what they read or set before.         *)
(* A behaviour is about one chain; TRON has a module of its own.           *)
(***************************************************************************)
EXTENDS Naturals, FiniteSets

CONSTANTS
  Families,    \* chains explored: "evm", "solana", "xrp", "bitcoin", "monero", "lightning"
  Requested,   \* payout requests to the worker
  Wallets,     \* its accounts; 1 is the wallet of a chain that has only one
  Units,       \* amounts
  Fees,        \* fees a request may name; 0: none
  Events       \* bound: deposits and new blocks

ASSUME BroadcastsAssumption ==
  /\ 1 \in Wallets /\ Units \subseteq Nat \ {0} /\ Fees \subseteq Nat /\ Events \in Nat

VARIABLES
  family, wants,   \* the chain, and per request its amount, fee and invoice amount
  coins,           \* per account: its confirmed balance
  queue,           \* transactions taken and not in a block: by, from, tag
  landed,          \* per account: tags in blocks
  block,           \* newest block
  txfee,           \* the wallet's fee rate, with the request that set it
  job              \* per request: stage, account, tag, what it read, the others it met,
                   \* and whether its worker heard that it was sent

broadcastVars == <<family, wants, coins, queue, landed, block, txfee, job>>

Fresh == [at |-> "asked", from |-> 1, tag |-> 0, read |-> 0, rate |-> 0,
          ahead |-> {}, beside |-> {}, paid |-> 0, fate |-> "none", told |-> FALSE]

BroadcastsInit ==
  /\ family \in Families
  /\ wants \in [Requested -> {w \in [units : Units, fee : Fees, invoice : Units] :
                   /\ family # "bitcoin" => w.fee = 0
                   /\ family # "lightning" => w.invoice = w.units}]
  /\ coins = [a \in Wallets |-> IF a = 1 THEN 2 ELSE 1]
  /\ queue = {} /\ landed = [a \in Wallets |-> {}] /\ block = 0 /\ txfee = 0
  /\ job = [p \in Requested |-> Fresh]

nodeSide == <<coins, queue, landed, block, txfee>>
asking == <<family, wants>>
QueueOf(a) == {t \in queue : t.from = a}
RequestsBy(T) == {t.by : t \in T}
Stop(p) == job' = [job EXCEPT ![p].at = "refused"]

(* The chain itself.  A transaction of an account that cannot pay reverts. *)
Block ==
  /\ block < Events /\ block' = block + 1
  /\ \/ \E a \in Wallets : coins' = [coins EXCEPT ![a] = @ + 1]
     \/ UNCHANGED coins
  /\ UNCHANGED <<asking, queue, landed, txfee, job>>

Land(t) ==
  /\ t \in queue /\ \A u \in QueueOf(t.from) : t.tag <= u.tag
  /\ queue' = queue \ {t} /\ landed' = [landed EXCEPT ![t.from] = @ \cup {t.tag}]
  /\ LET n == wants[t.by].units
     IN IF coins[t.from] >= n
        THEN /\ coins' = [coins EXCEPT ![t.from] = @ - n]
             /\ job' = [job EXCEPT ![t.by].fate = "moved", ![t.by].paid = n]
        ELSE job' = [job EXCEPT ![t.by].fate = "reverted"] /\ UNCHANGED coins
  /\ UNCHANGED <<asking, block, txfee>>

----------------------------------------------------------------------------
(* Balances: of the newest block on EVM, of the final one on Solana.       *)
bnbBalance(a) == coins[a]
solanaBalance(a) == coins[a]

(* An account with the amount and the fee; one whose balances the node     *)
(* does not answer is passed over, so any of several may be it.            *)
Found(p, a) ==
  job' = [job EXCEPT ![p].at = "found", ![p].from = a,
    ![p].ahead = RequestsBy(QueueOf(a)),
    ![p].beside = {q \in Requested : job[q].at \in {"found", "signed"} /\ job[q].from = a}]

(* broadcastBNBPayout. *)
FindEVMAccount(p) ==
  /\ family = "evm" /\ job[p].at = "asked"
  /\ (\E a \in Wallets : bnbBalance(a) >= wants[p].units /\ Found(p, a)) \/ Stop(p)
  /\ UNCHANGED <<asking, nodeSide>>

(* broadcastSolanaPayout. *)
FindSolanaAccount(p) ==
  /\ family = "solana" /\ job[p].at = "asked"
  /\ (\E a \in Wallets : solanaBalance(a) >= wants[p].units /\ Found(p, a)) \/ Stop(p)
  /\ UNCHANGED <<asking, nodeSide>>

LatestNonce(a) == Cardinality(landed[a])

(* nonce: with the transactions that wait for a block.                     *)
Nonce(a) == Cardinality(landed[a]) + Cardinality(QueueOf(a))

Signed(p, tag) == job' = [job EXCEPT ![p].at = "signed", ![p].tag = tag]

TakeNonce(p) ==
  /\ family = "evm" /\ job[p].at = "found"
  /\ Signed(p, Nonce(job[p].from)) \/ Stop(p)
  /\ UNCHANGED <<asking, nodeSide>>

(* solanaLatestBlockhash. *)
TakeBlockhash(p) ==
  /\ family = "solana" /\ job[p].at = "found"
  /\ Signed(p, block) \/ Stop(p)
  /\ UNCHANGED <<asking, nodeSide>>

Transaction(p) == [by |-> p, from |-> job[p].from, tag |-> job[p].tag]

SameTag(p) == {t \in QueueOf(job[p].from) : t.tag = job[p].tag}

(* eth_sendRawTransaction.  A second transaction with the nonce of one that*)
(* waits is refused, or takes its place.  The answer of a node that took   *)
(* one may be lost: the worker reports an error, as of one refused.        *)
SendEVM(p) ==
  /\ family = "evm" /\ job[p].at = "signed"
  /\ \/ /\ job[p].tag \notin landed[job[p].from]
        /\ queue' = (queue \ SameTag(p)) \cup {Transaction(p)}
        /\ \E told \in BOOLEAN : job' = [q \in Requested |->
             IF q = p THEN [job[p] EXCEPT !.at = "sent", !.told = told]
             ELSE IF q \in RequestsBy(SameTag(p)) THEN [job[q] EXCEPT !.fate = "replaced"]
             ELSE job[q]]
     \/ Stop(p) /\ UNCHANGED queue
  /\ UNCHANGED <<asking, coins, landed, block, txfee>>

(* sendTransaction.  The signature is the transaction's name, and it signs *)
(* the blockhash: two transfers alike in one block are one transaction,    *)
(* whether the answer to the first arrived or not.                         *)
Twins(p) == {q \in Requested \ {p} :
  /\ job[q].at = "sent" /\ job[q].fate # "shared"
  /\ job[q].from = job[p].from /\ job[q].tag = job[p].tag
  /\ wants[q].units = wants[p].units}

SendSolana(p) ==
  /\ family = "solana" /\ job[p].at = "signed"
  /\ \/ \E told \in BOOLEAN :
          \/ /\ Twins(p) = {} /\ queue' = queue \cup {Transaction(p)}
             /\ job' = [job EXCEPT ![p].at = "sent", ![p].told = told]
          \/ /\ Twins(p) # {} /\ UNCHANGED queue
             /\ job' = [job EXCEPT ![p].at = "sent", ![p].told = told, ![p].fate = "shared"]
     \/ Stop(p) /\ UNCHANGED queue
  /\ UNCHANGED <<asking, coins, landed, block, txfee>>

----------------------------------------------------------------------------
(* A wallet moves n at once, if it can; this answer may be lost too.       *)
WalletPays(p, n) ==
  /\ coins[1] >= n /\ coins' = [coins EXCEPT ![1] = @ - n]
  /\ \E told \in BOOLEAN :
       job' = [job EXCEPT ![p].at = "sent", ![p].told = told, ![p].fate = "moved",
                          ![p].paid = n, ![p].rate = txfee]

(* setBitcoinTxFee: for the whole wallet, and it stays.                    *)
SetTxFee(p) ==
  /\ family = "bitcoin" /\ job[p].at = "asked"
  /\ \/ /\ txfee' = IF wants[p].fee = 0 THEN txfee ELSE wants[p].fee
        /\ job' = [q \in Requested |->
             IF q = p THEN [job[p] EXCEPT !.at = "found"]
             ELSE IF wants[p].fee # 0 /\ job[q].at = "found"
             THEN [job[q] EXCEPT !.beside = @ \cup {p}] ELSE job[q]]
     \/ Stop(p) /\ UNCHANGED txfee
  /\ UNCHANGED <<asking, coins, queue, landed, block>>

(* sendtoaddress, and spendspark of Firo, which may answer without a name. *)
SendBitcoin(p) ==
  /\ family = "bitcoin" /\ job[p].at = "found"
  /\ WalletPays(p, wants[p].units) \/ (Stop(p) /\ UNCHANGED coins)
  /\ UNCHANGED <<asking, queue, landed, block, txfee>>

(* broadcastMoneroPayout: first what is unlocked ...                       *)
ReadUnlocked(p) ==
  /\ family = "monero" /\ job[p].at = "asked"
  /\ job' = [job EXCEPT ![p].at = "found", ![p].read = coins[1]] \/ Stop(p)
  /\ UNCHANGED <<asking, nodeSide>>

(* ... then all there is, when that is not more than was asked for.        *)
SendMonero(p) ==
  /\ family = "monero" /\ job[p].at = "found"
  /\ \/ /\ coins[1] > 0
        /\ WalletPays(p, IF wants[p].units >= job[p].read THEN coins[1] ELSE wants[p].units)
     \/ Stop(p) /\ UNCHANGED coins
  /\ UNCHANGED <<asking, queue, landed, block, txfee>>

(* broadcastXRPPayout: the node fills in the sequence; only tesSUCCESS is  *)
(* an answer.                                                              *)
SendXRP(p) ==
  /\ family = "xrp" /\ job[p].at = "asked"
  /\ WalletPays(p, wants[p].units) \/ (Stop(p) /\ UNCHANGED coins)
  /\ UNCHANGED <<asking, queue, landed, block, txfee>>

(* broadcastLightningPayout pays what the invoice, or the LNURL's service, *)
(* says: the requested amount goes no further than the dispatch.           *)
SendLightning(p) ==
  /\ family = "lightning" /\ job[p].at = "asked"
  /\ WalletPays(p, wants[p].invoice) \/ (Stop(p) /\ UNCHANGED coins)
  /\ UNCHANGED <<asking, queue, landed, block, txfee>>

BroadcastsNext ==
  \/ Block \/ \E t \in queue : Land(t)
  \/ \E p \in Requested :
       \/ FindEVMAccount(p) \/ FindSolanaAccount(p) \/ TakeNonce(p) \/ TakeBlockhash(p) \/ SendEVM(p) \/ SendSolana(p)
       \/ SetTxFee(p) \/ SendBitcoin(p) \/ ReadUnlocked(p) \/ SendMonero(p)
       \/ SendXRP(p) \/ SendLightning(p)

BroadcastsSpec == BroadcastsInit /\ [][BroadcastsNext]_broadcastVars

----------------------------------------------------------------------------
Beside(p) == {q \in Requested \ {p} : q \in job[p].beside \/ p \in job[q].beside}

(* A payout that was sent is paid as asked, whether its worker heard of it *)
(* and answered, or reported an error.  Its transaction is                 *)
(* replaced only by one signed beside it, and reverts only when another of *)
(* its account was signed beside it or waited for a block; it is shared    *)
(* only with an equal one; the amount differs only for a Monero payout of  *)
(* all that was unlocked and for a Lightning invoice over another amount;  *)
(* the fee rate differs only when another payout set one in between.       *)
(* (broadcastPayout and the broadcasts of the chains)                      *)
SentMeansPaid ==
  \A p \in Requested : job[p].at = "sent" =>
    /\ job[p].fate = "reverted" =>
         Beside(p) \cup job[p].ahead \cup {q \in Requested : p \in job[q].ahead} # {}
    /\ job[p].fate = "replaced" => Beside(p) # {}
    /\ job[p].fate = "shared" =>
         \E q \in Requested \ {p} : wants[q].units = wants[p].units
                                    /\ job[q].tag = job[p].tag
    /\ job[p].fate = "moved" /\ job[p].paid # wants[p].units =>
         \/ family = "monero" /\ job[p].read <= wants[p].units
         \/ family = "lightning"
    /\ family = "bitcoin" /\ wants[p].fee \notin {0, job[p].rate} => job[p].beside # {}
=============================================================================
