--------------------------- MODULE PaymentRequests ---------------------------
(***************************************************************************)
(* The merchant's side of an invoice.  A payment request looks its invoice *)
(* up by order, asks the coin's worker for an address when the invoice is  *)
(* new or changes its coin, and writes the invoice and the address table   *)
(* in separate statements, each of which may fail and each of which other  *)
(* requests may come between.  An order stands for external_id together    *)
(* with the callback URL and the fiat it is always sent with.              *)
(***************************************************************************)
EXTENDS Integers, Sequences, FiniteSets

CONSTANTS
  Clients,      \* requests being served
  Orders,       \* external ids, as numbers in the order the database sorts them
  Coins,        \* coins whose wallet is enabled and not lagging
  OneShot,      \* coins that need a new address for every quote: BTC-LIGHTNING
  MaxInvoices, MaxAddresses   \* bounds of an instance

ASSUME RequestsAssumption ==
  /\ Orders \subseteq Nat \ {0}
  /\ OneShot \subseteq Coins
  /\ MaxInvoices \in Nat /\ MaxAddresses \in Nat

VARIABLES
  invoices,     \* the table invoice: a row's position is its id
  addresses,    \* the table invoice_address
  minted,       \* addresses the workers have made so far
  client,       \* what a request is doing
  answered,     \* history: what requests have told merchants
  torn,         \* history: invoices whose request ended before their address row
  misses        \* history: how many invoices there were when a request found none

requestVars == <<invoices, addresses, minted, client, answered, torn, misses>>

Idle == [at |-> "idle", order |-> 0, coin |-> "-", inv |-> 0, addr |-> 0]

RequestsInit ==
  /\ invoices = <<>> /\ addresses = {} /\ minted = 0
  /\ client = [r \in Clients |-> Idle]
  /\ answered = {} /\ torn = {} /\ misses = [i \in 1..MaxInvoices |-> 0]

IsAt(r, stage)    == client[r].at = stage
Become(r, c)      == client' = [client EXCEPT ![r] = c]
Advance(r, stage) == client' = [client EXCEPT ![r].at = stage]
Own(r)            == [inv |-> client[r].inv, coin |-> client[r].coin, addr |-> client[r].addr]

InvoicesOfCoin(o, c) ==
  {i \in DOMAIN invoices : invoices[i].order = o /\ invoices[i].coin = c}

(* FindInvoiceByExternalCallbackFiat: whatever coin was asked for.         *)
InvoicesOf(o, c) == {i \in DOMAIN invoices : invoices[i].order = o}

(* crypto or BTC-LIGHTNING decides whether the invoice's address stays.    *)
KeepsAddress(i, c) == invoices[i].coin = c /\ c \notin OneShot

(* A request that finds nothing remembers in inv how many rows there were. *)
Request(r, o, c) ==
  /\ IsAt(r, "idle")
  /\ \/ /\ InvoicesOf(o, c) = {}
        /\ Become(r, [Idle EXCEPT !.at = "create", !.order = o, !.coin = c,
                                  !.inv = Len(invoices)])
     \/ \E i \in InvoicesOf(o, c) :
          Become(r, [at |-> IF KeepsAddress(i, c) THEN "update" ELSE "switch",
                     order |-> o, coin |-> c, inv |-> i, addr |-> invoices[i].addr])
  /\ UNCHANGED <<invoices, addresses, minted, answered, torn, misses>>

(* MakeAddress and CreateInvoice.                                          *)
Create(r) ==
  /\ IsAt(r, "create") /\ minted < MaxAddresses /\ Len(invoices) < MaxInvoices
  /\ minted' = minted + 1
  /\ invoices' = Append(invoices, [order |-> client[r].order, coin |-> client[r].coin,
                                   addr |-> minted'])
  /\ misses' = [misses EXCEPT ![Len(invoices')] = client[r].inv]
  /\ Become(r, [client[r] EXCEPT !.at = "attach", !.inv = Len(invoices'), !.addr = minted'])
  /\ UNCHANGED <<addresses, answered, torn>>

AttachNothing(r) ==
  /\ IsAt(r, "attach")
  /\ answered' = answered \cup {Own(r)}
  /\ Become(r, Idle)
  /\ UNCHANGED <<invoices, addresses, minted, torn, misses>>

(* AddInvoiceAddress of a new invoice, and the answer.                     *)
Attach(r) ==
  /\ IsAt(r, "attach")
  /\ addresses' = addresses \cup {Own(r)}
  /\ answered' = answered \cup {Own(r)}
  /\ Become(r, Idle)
  /\ UNCHANGED <<invoices, minted, torn, misses>>

(* FindInvoiceAddress: an invoice that had the coin before gets one of its *)
(* addresses back, except on Lightning.                                    *)
Switch(r) ==
  /\ IsAt(r, "switch")
  /\ LET known == {a \in addresses : a.inv = client[r].inv /\ a.coin = client[r].coin}
     IN IF known = {} \/ client[r].coin \in OneShot
          THEN Advance(r, "mint")
          ELSE \E a \in known : Become(r, [client[r] EXCEPT !.at = "update", !.addr = a.addr])
  /\ UNCHANGED <<invoices, addresses, minted, answered, torn, misses>>

(* MakeAddress and AddInvoiceAddress of an invoice that changes its coin.  *)
Mint(r) ==
  /\ IsAt(r, "mint") /\ minted < MaxAddresses
  /\ minted' = minted + 1
  /\ addresses' = addresses \cup {[Own(r) EXCEPT !.addr = minted']}
  /\ Become(r, [client[r] EXCEPT !.at = "update", !.addr = minted'])
  /\ UNCHANGED <<invoices, answered, torn, misses>>

(* UpdateInvoicePayment writes every field the request holds; the answer.  *)
Update(r) ==
  /\ IsAt(r, "update")
  /\ invoices' = [invoices EXCEPT ![client[r].inv].coin = client[r].coin,
                                  ![client[r].inv].addr = client[r].addr]
  /\ answered' = answered \cup {Own(r)}
  /\ Become(r, Idle)
  /\ UNCHANGED <<addresses, minted, torn, misses>>

(* A statement or the worker fails, the merchant hangs up, or the server   *)
(* dies: the request ends where it is.                                     *)
Interrupt(r) ==
  /\ ~IsAt(r, "idle")
  /\ torn' = IF IsAt(r, "attach") THEN torn \cup {client[r].inv} ELSE torn
  /\ Become(r, Idle)
  /\ UNCHANGED <<invoices, addresses, minted, answered, misses>>

RequestsNext ==
  \E r \in Clients :
    \/ \E o \in Orders, c \in Coins : Request(r, o, c)
    \/ Create(r) \/ Attach(r) \/ Switch(r) \/ Mint(r) \/ Update(r) \/ Interrupt(r)

RequestsSpec == RequestsInit /\ [][RequestsNext]_requestVars

----------------------------------------------------------------------------
(* InvoiceByCryptoAddress: the address table first, then the invoice row.  *)
Lookup(c, addr) ==
  LET known == {a.inv : a \in {b \in addresses : b.coin = c /\ b.addr = addr}}
  IN IF known # {} THEN known
     ELSE {i \in DOMAIN invoices : invoices[i].coin = c /\ invoices[i].addr = addr}

Unfinished == {client[r].inv : r \in {q \in Clients : IsAt(q, "attach")}}

(* A payment to an address that a request ever answered with finds that    *)
(* request's invoice and no other, however often the order changed its     *)
(* coin since.  It takes an invoice whose creation got to its last         *)
(* statement: the address of another is forgotten when the coin changes.   *)
(* (upsertInvoice against InvoiceByCryptoAddress)                          *)
AnsweredAddressIsFound ==
  \A a \in answered : a.inv \in torn \cup Unfinished \/ Lookup(a.coin, a.addr) = {a.inv}

(* Two invoices of one order come from requests that overlapped: the one   *)
(* that inserted the second had looked before the first was there.         *)
(* (FindInvoiceByExternalCallbackFiat and CreateInvoice, without a key)    *)
TwinsOverlapped ==
  \A i, j \in DOMAIN invoices :
    (i < j /\ invoices[i].order = invoices[j].order) => misses[j] < i
=============================================================================
