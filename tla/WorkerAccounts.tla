--------------------------- MODULE WorkerAccounts ---------------------------
(***************************************************************************)
(* The accounts of one worker: rows of chain_account, one per address.     *)
(* Generation adds rows while an import from the old worker adds or        *)
(* replaces them one at a time, may stop in the middle and be run again.   *)
(* Everything the worker does for a coin (balances, payouts, deposits)     *)
(* asks which accounts count for it.  A coin is the chain's own or a token.*)
(***************************************************************************)
EXTENDS Naturals, Sequences, FiniteSets

CONSTANTS
  Tokens,       \* coins besides "own"
  NewAddresses, \* addresses generation may come to, in this order
  OldRows,      \* rows the old worker may leave: coin, kind, key, per address
  Newest,       \* the LIMIT of ListAccounts
  Imports       \* bound on runs of the import

ASSUME AccountsAssumption == Newest \in Nat \ {0} /\ Imports \in Nat

VARIABLES
  rows,         \* chain_account in the order of its ids
  old,          \* rows of the old worker, in the order they are read
  importing,    \* the import: next row, or 0; and whether one has gone through
  imports,      \* runs so far
  promised      \* history: each address answered, the coin asked for and that of its row

accountVars == <<rows, old, importing, imports, promised>>

AccountsInit ==
  /\ rows = <<>> /\ promised = {} /\ imports = 0
  /\ importing = [next |-> 0, through |-> FALSE]
  /\ old \in OldRows \X OldRows

AllCoins == {"own"} \cup Tokens

----------------------------------------------------------------------------
OfCoin(c) == {i \in DOMAIN rows : rows[i].coin = c}

(* ORDER BY id DESC LIMIT.                                                 *)
Listed(ids) == {i \in ids : Cardinality({j \in ids : j > i}) < Newest}

AddressesOf(ids) == {rows[i].address : i \in ids}

(* accountsForCrypto, and what accountSet is made of: as long as a token   *)
(* has no account of its own, every account of the worker counts for it.   *)
Counted(c) ==
  IF c # "own" /\ OfCoin(c) = {} THEN AddressesOf(Listed(DOMAIN rows))
  ELSE AddressesOf(Listed(OfCoin(c)))

----------------------------------------------------------------------------
(* generateAddress.  A worker with keys of its own makes an account, seals *)
(* its key and stores it; a failure of any of these stores and answers     *)
(* nothing.                                                                *)
Answered(c, address, under) ==
  /\ promised' = promised \cup {<<address, c, under>>}
  /\ UNCHANGED <<old, importing, imports>>

NewAccount(c, address) ==
  /\ address \notin AddressesOf(DOMAIN rows)
  /\ rows' = Append(rows, [address |-> address, coin |-> c, key |-> "sealed"])
  /\ Answered(c, address, c)

(* A worker whose wallet makes the address (Bitcoin, Monero, XRP's tags)   *)
(* takes any row that is there already for its own: one imported, or one   *)
(* of another coin, which it stays a row of.                               *)
AddressOfWallet(c, address) ==
  \E i \in DOMAIN rows :
    rows[i].address = address /\ UNCHANGED rows /\ Answered(c, address, rows[i].coin)

----------------------------------------------------------------------------
(* normalizeLegacyCrypto and inferLegacyCrypto: an explicit coin, the chain*)
(* for a fee deposit, the default of the import, the usual token.          *)
CoinOf(row) ==
  IF row.coin # "" THEN row.coin
  ELSE IF row.kind = "fee_deposit" THEN "own"
  ELSE CHOOSE t \in Tokens : TRUE

(* legacyPrivateKey: a sealed key is kept, a plain one and one the old     *)
(* password opens are sealed; another password is an error.                *)
KeyOf(row) == IF row.key = "" THEN "" ELSE "sealed"

AccountOf(row) == [address |-> row.address, coin |-> CoinOf(row), key |-> KeyOf(row)]

(* INSERT ... ON DUPLICATE KEY UPDATE crypto, private_key_hex: the row of  *)
(* an address that is there keeps its id.                                  *)
AppendAccount(account) == Append(rows, account)

UpsertAccount(account) ==
  IF account.address \in AddressesOf(DOMAIN rows)
  THEN [i \in DOMAIN rows |-> IF rows[i].address = account.address THEN account ELSE rows[i]]
  ELSE Append(rows, account)

StartImport ==
  /\ importing.next = 0 /\ imports < Imports
  /\ imports' = imports + 1 /\ importing' = [importing EXCEPT !.next = 1]
  /\ UNCHANGED <<rows, old, promised>>

(* One row: stored, or passed over for want of a key.                      *)
ImportRow ==
  /\ importing.next \in DOMAIN old /\ old[importing.next].key # "wrong"
  /\ LET account == AccountOf(old[importing.next])
     IN rows' = IF account.key = "" THEN rows ELSE UpsertAccount(account)
  /\ importing' = [next |-> IF importing.next = Len(old) THEN 0 ELSE importing.next + 1,
                   through |-> importing.through \/ importing.next = Len(old)]
  /\ UNCHANGED <<old, imports, promised>>

(* A key that cannot be opened, a lost connection, the end of the process: *)
(* the rows before it stay.                                                *)
ImportStops ==
  /\ importing.next # 0 /\ importing' = [importing EXCEPT !.next = 0]
  /\ UNCHANGED <<rows, old, imports, promised>>

AccountsNext ==
  \/ \E c \in AllCoins, a \in NewAddresses : NewAccount(c, a) \/ AddressOfWallet(c, a)
  \/ StartImport \/ ImportRow \/ ImportStops

AccountsSpec == AccountsInit /\ [][AccountsNext]_accountVars

----------------------------------------------------------------------------
Position(a) == CHOOSE i \in DOMAIN rows : rows[i].address = a

Newer(a) == {i \in OfCoin(rows[Position(a)].coin) : i > Position(a)}

OldAt(a) == {i \in DOMAIN old : old[i].address = a /\ old[i].key # ""}

(* An address that was answered for a coin is one row and counts for the   *)
(* coin ever after, unless it was there for another coin when it was       *)
(* answered, an import gave the address to another coin, or                *)
(* as many newer accounts fill the list.  And an import that went through  *)
(* left every old account with a key in the table, under a coin the old    *)
(* worker knew it by, however often it had stopped before.                 *)
(* (generateAddress, ListAccounts, UpsertAccount, importLegacyAccountRows) *)
AnsweredStaysOwned ==
  /\ \A i, j \in DOMAIN rows : rows[i].address = rows[j].address => i = j
  /\ \A p \in promised :
       \/ p[1] \in Counted(p[2])
       \/ p[3] # p[2]
       \/ \E i \in OldAt(p[1]) : CoinOf(old[i]) # p[2]
       \/ Cardinality(Newer(p[1])) >= Newest
  /\ importing.through => \A i \in DOMAIN old : old[i].key # "" =>
       /\ old[i].address \in AddressesOf(DOMAIN rows)
       /\ \/ rows[Position(old[i].address)].coin \in {CoinOf(old[j]) : j \in OldAt(old[i].address)}
          \/ LET c == rows[Position(old[i].address)].coin IN <<old[i].address, c, c>> \in promised
=============================================================================
