--------------------------- MODULE Merchant_proof ---------------------------
(***************************************************************************)
(* What the merchant's side of the service guarantees for any constants.   *)
(* Requests (upsertInvoice): two invoices of one order come from requests  *)
(* that overlapped, and an address that a merchant was given leads to its  *)
(* invoice.  Answers about an order explain themselves.  The order index   *)
(* catches up, and pages through it are faithful.  Automatic payouts wait  *)
(* and are measured.  Deposits: behind the pipeline ledger and queue take  *)
(* steps of their own only, and what was delivered has been credited.      *)
(***************************************************************************)
EXTENDS PaymentRequests, OrderDetails, OrderIndex, Autopayout, DepositPipeline,
        InvoiceLedger_proof, SequenceTheorems

RequestStages == {"idle", "create", "attach", "update", "switch", "mint"}
RequestPlace  == [at : RequestStages, order : Orders \cup {0}, coin : Coins \cup {"-"},
                  inv : Nat, addr : Nat]
InvoiceRow    == [order : Orders, coin : Coins, addr : Nat]
Issue         == [inv : Nat, coin : Coins, addr : Nat]

(* Tables and requests have their types.                                   *)
RequestTypes ==
  /\ invoices \in Seq(InvoiceRow)
  /\ Len(invoices) <= MaxInvoices
  /\ addresses \subseteq Issue
  /\ minted \in Nat
  /\ client \in [Clients -> RequestPlace]
  /\ answered \subseteq Issue
  /\ torn \subseteq Nat
  /\ misses \in [1..MaxInvoices -> Nat]

(* A request at work has an order and a coin; one that works on an invoice *)
(* has a row of its order.                                                 *)
RequestsAreOwn ==
  \A r \in Clients : ~IsAt(r, "idle") =>
    /\ client[r].order \in Orders /\ client[r].coin \in Coins
    /\ ~IsAt(r, "create") => client[r].inv \in DOMAIN invoices

(* A request that is about to create has seen that there was none.         *)
MissesAreTrue ==
  \A r \in Clients : IsAt(r, "create") =>
    /\ client[r].inv <= Len(invoices)
    /\ \A i \in 1..client[r].inv : invoices[i].order # client[r].order

RowOf(i) == [inv |-> i, coin |-> invoices[i].coin, addr |-> invoices[i].addr]
Holding  == {r \in Clients : IsAt(r, "attach") \/ IsAt(r, "update")}

(* Every place that ties an address to an invoice and a coin.              *)
Issued == addresses \cup answered \cup {RowOf(i) : i \in DOMAIN invoices}
          \cup {Own(r) : r \in Holding}

(* The workers have made each address once, for one invoice and one coin.  *)
AddressesAreUnique ==
  /\ \A a \in Issued : a.addr \in 1..minted
  /\ \A a, b \in Issued : a.addr = b.addr => a = b

(* An address is in the address table, or the request that will insert it  *)
(* is on its way, or that request has ended.                               *)
IssuesAreBacked ==
  \A a \in Issued :
    \/ a \in addresses \/ a.inv \in torn
    \/ \E r \in Clients : IsAt(r, "attach") /\ Own(r) = a

RequestInv ==
  /\ RequestsAreOwn /\ MissesAreTrue /\ TwinsOverlapped
  /\ AddressesAreUnique /\ IssuesAreBacked

-----------------------------------------------------------------------------
(* Nothing is stored and nobody asks at the start.                         *)
LEMMA RequestsBegin == RequestsInit => RequestTypes /\ RequestInv
<1> SUFFICES ASSUME RequestsInit PROVE RequestTypes /\ RequestInv
  OBVIOUS
<1> USE RequestsAssumption DEF RequestsInit, Idle
<1>1. RequestTypes
  BY EmptySeq DEF RequestTypes, RequestStages, RequestPlace, Issue
<1>2. Issued = {}
  BY DEF Issued, Holding, IsAt
<1>3. RequestsAreOwn /\ MissesAreTrue /\ TwinsOverlapped
  BY DEF RequestsAreOwn, MissesAreTrue, TwinsOverlapped, IsAt
<1> QED BY <1>1, <1>2, <1>3 DEF RequestInv, AddressesAreUnique, IssuesAreBacked

-----------------------------------------------------------------------------
(* The invoice table is a sequence of rows.                                *)
LEMMA TableOfRows ==
  ASSUME RequestTypes
  PROVE  /\ Len(invoices) \in Nat /\ DOMAIN invoices = 1..Len(invoices)
         /\ \A i \in 1..Len(invoices) : invoices[i] \in InvoiceRow
BY LenProperties, ElementOfSeq DEF RequestTypes

(* What a request holds, field by field.                                   *)
LEMMA RequestFields ==
  ASSUME RequestTypes, NEW r \in Clients
  PROVE  /\ client[r].at \in RequestStages /\ client[r].order \in Orders \cup {0}
         /\ client[r].coin \in Coins \cup {"-"} /\ client[r].inv \in Nat
         /\ client[r].addr \in Nat
         /\ client[r] = [at |-> client[r].at, order |-> client[r].order,
                         coin |-> client[r].coin, inv |-> client[r].inv,
                         addr |-> client[r].addr]
BY DEF RequestTypes, RequestPlace

(* A step moves one request only, to a place of its own.                   *)
RequestMoves(r, at, order, coin, inv, addr) ==
  /\ client' \in [Clients -> RequestPlace]
  /\ client'[r].at = at /\ client'[r].order = order /\ client'[r].coin = coin
  /\ client'[r].inv = inv /\ client'[r].addr = addr
  /\ \A q \in Clients \ {r} : client'[q] = client[q]

(* Becoming another stage moves the request there and nobody else.         *)
LEMMA BecomeMoves ==
  ASSUME RequestTypes, NEW r \in Clients, NEW c \in RequestPlace, Become(r, c)
  PROVE  RequestMoves(r, c.at, c.order, c.coin, c.inv, c.addr)
BY DEF RequestTypes, Become, RequestMoves

(* Ending moves it to where it is idle.                                    *)
LEMMA EndMoves ==
  ASSUME RequestTypes, NEW r \in Clients, Become(r, Idle)
  PROVE  RequestMoves(r, "idle", 0, "-", 0, 0)
<1>1. Idle \in RequestPlace
  BY DEF Idle, RequestPlace, RequestStages
<1> QED BY <1>1, BecomeMoves DEF Idle

(* What each step does.                                                    *)
Asks(r, o, c) ==
  \/ /\ \A i \in DOMAIN invoices : invoices[i].order # o
     /\ RequestMoves(r, "create", o, c, Len(invoices), 0)
  \/ \E i \in DOMAIN invoices :
       /\ invoices[i].order = o
       /\ \/ c = invoices[i].coin /\ RequestMoves(r, "update", o, c, i, invoices[i].addr)
          \/ RequestMoves(r, "switch", o, c, i, invoices[i].addr)

(* What a request that arrives changes.                                    *)
LEMMA RequestEffect ==
  ASSUME RequestTypes, NEW r \in Clients, NEW o \in Orders, NEW c \in Coins, Request(r, o, c)
  PROVE  Asks(r, o, c)
<1>1. CASE /\ InvoicesOf(o, c) = {}
           /\ Become(r, [Idle EXCEPT !.at = "create", !.order = o, !.coin = c,
                                     !.inv = Len(invoices)])
  <2> DEFINE place == [Idle EXCEPT !.at = "create", !.order = o, !.coin = c,
                                   !.inv = Len(invoices)]
  <2>1. place \in RequestPlace
    BY TableOfRows DEF Idle, RequestPlace, RequestStages
  <2>2. /\ place.at = "create" /\ place.order = o /\ place.coin = c
        /\ place.inv = Len(invoices) /\ place.addr = 0
    BY DEF Idle
  <2> HIDE DEF place
  <2>3. RequestMoves(r, place.at, place.order, place.coin, place.inv, place.addr)
    BY <1>1, <2>1, BecomeMoves DEF place
  <2> QED BY <1>1, <2>2, <2>3 DEF InvoicesOf, Asks
<1>2. ASSUME NEW i \in InvoicesOf(o, c),
             Become(r, [at |-> IF KeepsAddress(i, c) THEN "update" ELSE "switch",
                        order |-> o, coin |-> c, inv |-> i, addr |-> invoices[i].addr])
      PROVE  /\ i \in DOMAIN invoices /\ invoices[i].order = o
             /\ \/ c = invoices[i].coin /\ RequestMoves(r, "update", o, c, i, invoices[i].addr)
                \/ RequestMoves(r, "switch", o, c, i, invoices[i].addr)
  <2>1. i \in DOMAIN invoices /\ invoices[i].order = o /\ i \in Nat
    BY TableOfRows DEF InvoicesOf
  <2>2. invoices[i].addr \in Nat
    BY <2>1, TableOfRows DEF InvoiceRow
  <2>3. ASSUME NEW at \in {"update", "switch"},
               Become(r, [at |-> at, order |-> o, coin |-> c, inv |-> i,
                          addr |-> invoices[i].addr])
        PROVE  RequestMoves(r, at, o, c, i, invoices[i].addr)
    <3>1. [at |-> at, order |-> o, coin |-> c, inv |-> i, addr |-> invoices[i].addr] \in RequestPlace
      BY <2>1, <2>2 DEF RequestPlace, RequestStages
    <3> QED BY <2>3, <3>1, BecomeMoves
  <2> QED BY <1>2, <2>1, <2>3 DEF KeepsAddress
<1> QED BY <1>1, <1>2 DEF Request, Asks

Creates(r) ==
  /\ minted' = minted + 1
  /\ invoices' \in Seq(InvoiceRow) /\ Len(invoices') = Len(invoices) + 1
  /\ Len(invoices') <= MaxInvoices
  /\ \A i \in 1..Len(invoices) : invoices'[i] = invoices[i]
  /\ invoices'[Len(invoices) + 1] = [order |-> client[r].order,
                                     coin |-> client[r].coin, addr |-> minted + 1]
  /\ misses' = [misses EXCEPT ![Len(invoices) + 1] = client[r].inv]
  /\ RequestMoves(r, "attach", client[r].order, client[r].coin, Len(invoices) + 1, minted + 1)

(* What a request that creates an invoice changes.                         *)
LEMMA CreateEffect ==
  ASSUME RequestTypes, RequestsAreOwn, NEW r \in Clients, Create(r)
  PROVE  Creates(r)
<1> DEFINE row == [order |-> client[r].order, coin |-> client[r].coin, addr |-> minted + 1]
           place == [client[r] EXCEPT !.at = "attach", !.inv = Len(invoices'),
                                      !.addr = minted']
<1> USE RequestsAssumption
<1>1. minted \in Nat /\ minted' = minted + 1 /\ invoices' = Append(invoices, row)
  BY DEF Create, RequestTypes
<1>2. row \in InvoiceRow
  BY <1>1 DEF Create, RequestsAreOwn, IsAt, InvoiceRow
<1>3. /\ invoices' \in Seq(InvoiceRow) /\ Len(invoices') = Len(invoices) + 1
      /\ \A i \in 1..Len(invoices) : invoices'[i] = invoices[i]
      /\ invoices'[Len(invoices) + 1] = row
  BY <1>1, <1>2, AppendProperties DEF RequestTypes
<1>4. Len(invoices') <= MaxInvoices
  BY <1>3, TableOfRows DEF Create
<1>5. Len(invoices') \in Nat /\ minted' \in Nat
  BY <1>1, <1>3, TableOfRows
<1>6. place \in RequestPlace
  <2>1. ASSUME NEW i \in Nat, NEW a \in Nat
        PROVE  [client[r] EXCEPT !.at = "attach", !.inv = i, !.addr = a] \in RequestPlace
    BY DEF RequestTypes, RequestPlace, RequestStages
  <2> QED BY <1>5, <2>1
<1>7. /\ place.at = "attach" /\ place.order = client[r].order
      /\ place.coin = client[r].coin /\ place.inv = Len(invoices') /\ place.addr = minted'
  BY DEF RequestTypes, RequestPlace
<1>8. Become(r, place)
  BY DEF Create
<1> HIDE DEF place
<1>9. RequestMoves(r, place.at, place.order, place.coin, place.inv, place.addr)
  BY <1>6, <1>8, BecomeMoves
<1> QED BY <1>1, <1>3, <1>4, <1>7, <1>9 DEF Create, Creates

Switches(r) ==
  \/ RequestMoves(r, "mint", client[r].order, client[r].coin, client[r].inv, client[r].addr)
  \/ \E a \in addresses :
       /\ a.inv = client[r].inv /\ a.coin = client[r].coin
       /\ RequestMoves(r, "update", client[r].order, client[r].coin, client[r].inv, a.addr)

(* What a request that switches an invoice to its coin changes.            *)
LEMMA SwitchEffect ==
  ASSUME RequestTypes, NEW r \in Clients, Switch(r)
  PROVE  Switches(r)
<1>1. ASSUME client' = [client EXCEPT ![r].at = "mint"]
      PROVE  RequestMoves(r, "mint", client[r].order, client[r].coin, client[r].inv, client[r].addr)
  BY <1>1 DEF RequestMoves, RequestTypes, RequestPlace, RequestStages
<1>2. ASSUME NEW a \in addresses,
             Become(r, [client[r] EXCEPT !.at = "update", !.addr = a.addr])
      PROVE  RequestMoves(r, "update", client[r].order, client[r].coin, client[r].inv, a.addr)
  <2> DEFINE place == [client[r] EXCEPT !.at = "update", !.addr = a.addr]
  <2>1. place \in RequestPlace
    BY DEF RequestTypes, RequestPlace, RequestStages, Issue
  <2>2. /\ place.at = "update" /\ place.order = client[r].order
        /\ place.coin = client[r].coin /\ place.inv = client[r].inv /\ place.addr = a.addr
    BY DEF RequestTypes, RequestPlace
  <2> HIDE DEF place
  <2>3. RequestMoves(r, place.at, place.order, place.coin, place.inv, place.addr)
    BY <1>2, <2>1, BecomeMoves DEF place
  <2> QED BY <2>2, <2>3
<1> DEFINE known == {a \in addresses : a.inv = client[r].inv /\ a.coin = client[r].coin}
<1>3. \/ client' = [client EXCEPT ![r].at = "mint"]
      \/ \E a \in known : Become(r, [client[r] EXCEPT !.at = "update", !.addr = a.addr])
  BY DEF Switch, Advance
<1> QED BY <1>1, <1>2, <1>3 DEF Switches

Mints(r) ==
  /\ minted' = minted + 1
  /\ addresses' = addresses \cup {[inv |-> client[r].inv, coin |-> client[r].coin,
                                   addr |-> minted + 1]}
  /\ RequestMoves(r, "update", client[r].order, client[r].coin, client[r].inv, minted + 1)

(* What a request that gets an address for another coin changes.           *)
LEMMA MintEffect ==
  ASSUME RequestTypes, RequestsAreOwn, NEW r \in Clients, Mint(r)
  PROVE  Mints(r)
<1> DEFINE place == [client[r] EXCEPT !.at = "update", !.addr = minted']
<1>1. minted' = minted + 1 /\ minted' \in Nat
  BY DEF Mint, RequestTypes
<1>2. [Own(r) EXCEPT !.addr = minted']
        = [inv |-> client[r].inv, coin |-> client[r].coin, addr |-> minted']
  BY DEF Own
<1>3. place \in RequestPlace
  BY <1>1 DEF RequestTypes, RequestPlace, RequestStages
<1>4. /\ place.at = "update" /\ place.order = client[r].order
      /\ place.coin = client[r].coin /\ place.inv = client[r].inv /\ place.addr = minted'
  BY DEF RequestTypes, RequestPlace
<1>5. Become(r, place)
  BY DEF Mint
<1> HIDE DEF place
<1>6. RequestMoves(r, place.at, place.order, place.coin, place.inv, place.addr)
  BY <1>3, <1>5, BecomeMoves
<1> QED BY <1>1, <1>2, <1>4, <1>6 DEF Mint, Mints

Updates(r) ==
  /\ client[r].inv \in 1..Len(invoices)
  /\ invoices' \in Seq(InvoiceRow) /\ Len(invoices') = Len(invoices)
  /\ \A i \in 1..Len(invoices) : i # client[r].inv => invoices'[i] = invoices[i]
  /\ invoices'[client[r].inv].order = invoices[client[r].inv].order
  /\ invoices'[client[r].inv].coin = client[r].coin
  /\ invoices'[client[r].inv].addr = client[r].addr

(* What a request that updates an invoice changes.                         *)
LEMMA UpdateEffect ==
  ASSUME RequestTypes, RequestsAreOwn, NEW r \in Clients, Update(r)
  PROVE  Updates(r)
<1> DEFINE k == client[r].inv
           row == [[invoices[k] EXCEPT !.coin = client[r].coin] EXCEPT !.addr = client[r].addr]
<1>1. k \in 1..Len(invoices)
  BY TableOfRows DEF Update, RequestsAreOwn, IsAt
<1>2. client[r].coin \in Coins /\ client[r].addr \in Nat
  BY RequestFields DEF Update, RequestsAreOwn, IsAt
<1>3. invoices[k] \in InvoiceRow
  BY <1>1, TableOfRows
<1>4. /\ row \in InvoiceRow /\ row.order = invoices[k].order
      /\ row.coin = client[r].coin /\ row.addr = client[r].addr
  BY <1>2, <1>3 DEF InvoiceRow
<1>5. invoices' = [invoices EXCEPT ![k] = row]
  BY <1>1, TableOfRows DEF Update
<1> HIDE DEF row
<1> QED BY <1>1, <1>4, <1>5, ExceptSeq DEF RequestTypes, Updates

-----------------------------------------------------------------------------
(* Every step keeps the types.                                             *)
LEMMA NextRequestTypes == RequestTypes /\ RequestsAreOwn /\ [RequestsNext]_requestVars => RequestTypes'
<1> SUFFICES ASSUME RequestTypes, RequestsAreOwn, [RequestsNext]_requestVars PROVE RequestTypes'
  OBVIOUS
<1>0. ASSUME NEW r \in Clients, ~IsAt(r, "idle"), ~IsAt(r, "create") PROVE Own(r) \in Issue
  BY <1>0, RequestFields DEF RequestsAreOwn, Own, Issue
<1>1. ASSUME NEW r \in Clients, NEW o \in Orders, NEW c \in Coins, Request(r, o, c)
      PROVE  RequestTypes'
  <2>1. client' \in [Clients -> RequestPlace]
    BY <1>1, RequestEffect DEF Asks, RequestMoves
  <2> QED BY <1>1, <2>1 DEF Request, RequestTypes
<1>2. ASSUME NEW r \in Clients, Create(r) PROVE RequestTypes'
  <2>1. Creates(r)
    BY <1>2, CreateEffect
  <2>2. misses' \in [1..MaxInvoices -> Nat] /\ minted' \in Nat
    BY <2>1, RequestFields DEF RequestTypes, Creates
  <2>3. client' \in [Clients -> RequestPlace]
    BY <2>1 DEF Creates, RequestMoves
  <2> QED BY <1>2, <2>1, <2>2, <2>3 DEF Create, Creates, RequestTypes
<1>3. ASSUME NEW r \in Clients, Attach(r) PROVE RequestTypes'
  <2>1. client' \in [Clients -> RequestPlace]
    BY <1>3, EndMoves DEF Attach, RequestMoves
  <2>2. Own(r) \in Issue
    BY <1>3, <1>0 DEF Attach, IsAt
  <2> QED BY <1>3, <2>1, <2>2 DEF Attach, RequestTypes
<1>4. ASSUME NEW r \in Clients, Switch(r) PROVE RequestTypes'
  <2>1. client' \in [Clients -> RequestPlace]
    BY <1>4, SwitchEffect DEF Switches, RequestMoves
  <2> QED BY <1>4, <2>1 DEF Switch, RequestTypes
<1>5. ASSUME NEW r \in Clients, Mint(r) PROVE RequestTypes'
  <2>1. Mints(r)
    BY <1>5, MintEffect
  <2>2. client' \in [Clients -> RequestPlace]
    BY <2>1 DEF Mints, RequestMoves
  <2>3. minted' \in Nat
    BY <2>1 DEF Mints, RequestTypes
  <2>4. [inv |-> client[r].inv, coin |-> client[r].coin, addr |-> minted + 1] \in Issue
    BY <1>5, RequestFields DEF Mint, IsAt, RequestsAreOwn, RequestTypes, Issue
  <2> QED BY <1>5, <2>1, <2>2, <2>3, <2>4 DEF Mint, Mints, RequestTypes
<1>6. ASSUME NEW r \in Clients, Update(r) PROVE RequestTypes'
  <2>1. Updates(r)
    BY <1>6, UpdateEffect
  <2>2. client' \in [Clients -> RequestPlace]
    BY <1>6, EndMoves DEF Update, RequestMoves
  <2>3. Own(r) \in Issue
    BY <1>6, <1>0 DEF Update, IsAt
  <2> QED BY <1>6, <2>1, <2>2, <2>3 DEF Update, Updates, RequestTypes
<1>7. ASSUME NEW r \in Clients, Interrupt(r) PROVE RequestTypes'
  <2>1. client' \in [Clients -> RequestPlace]
    BY <1>7, EndMoves DEF Interrupt, RequestMoves
  <2> QED BY <1>7, <2>1, RequestFields DEF Interrupt, RequestTypes
<1>8. CASE UNCHANGED requestVars
  BY <1>8 DEF requestVars, RequestTypes
<1> QED BY <1>1, <1>2, <1>3, <1>4, <1>5, <1>6, <1>7, <1>8 DEF RequestsNext

(* How the table of invoices grows and changes.                            *)
LEMMA InvoicesGrow ==
  ASSUME RequestTypes, RequestsAreOwn, [RequestsNext]_requestVars
  PROVE  \/ UNCHANGED <<invoices, misses>>
         \/ \E r \in Clients : Update(r) /\ Updates(r) /\ DOMAIN invoices' = 1..Len(invoices)
         \/ \E r \in Clients : /\ Create(r) /\ Creates(r)
                              /\ DOMAIN invoices' = 1..(Len(invoices) + 1)
<1>1. ASSUME NEW r \in Clients, Create(r)
      PROVE  Creates(r) /\ DOMAIN invoices' = 1..(Len(invoices) + 1)
  BY <1>1, CreateEffect, LenProperties DEF Creates
<1>2. ASSUME NEW r \in Clients, Update(r)
      PROVE  Updates(r) /\ DOMAIN invoices' = 1..Len(invoices)
  BY <1>2, UpdateEffect, LenProperties DEF Updates
<1> QED BY <1>1, <1>2 DEF RequestsNext, Request, Attach, Switch, Mint, Interrupt, requestVars

(* Invoices are added and keep their orders.                               *)
LEMMA OrdersStay ==
  ASSUME RequestTypes, RequestsAreOwn, [RequestsNext]_requestVars
  PROVE  /\ DOMAIN invoices \subseteq DOMAIN invoices' /\ Len(invoices') >= Len(invoices)
         /\ \A i \in DOMAIN invoices : invoices'[i].order = invoices[i].order
<1>0. Len(invoices) \in Nat /\ DOMAIN invoices = 1..Len(invoices)
  BY TableOfRows
<1>1. CASE UNCHANGED invoices
  BY <1>0, <1>1
<1>2. ASSUME NEW r \in Clients, Updates(r), DOMAIN invoices' = 1..Len(invoices)
      PROVE  /\ DOMAIN invoices \subseteq DOMAIN invoices' /\ Len(invoices') >= Len(invoices)
             /\ \A i \in DOMAIN invoices : invoices'[i].order = invoices[i].order
  BY <1>0, <1>2 DEF Updates
<1>3. ASSUME NEW r \in Clients, Creates(r), DOMAIN invoices' = 1..(Len(invoices) + 1)
      PROVE  /\ DOMAIN invoices \subseteq DOMAIN invoices' /\ Len(invoices') >= Len(invoices)
             /\ \A i \in DOMAIN invoices : invoices'[i].order = invoices[i].order
  BY <1>0, <1>3 DEF Creates
<1> QED BY <1>1, <1>2, <1>3, InvoicesGrow

(* Every request works for one order, on an invoice of the table.          *)
LEMMA NextOwn ==
  ASSUME RequestTypes, RequestsAreOwn, [RequestsNext]_requestVars
  PROVE  RequestsAreOwn'
<1> USE DEF RequestsAreOwn, IsAt, RequestMoves
<1>0. DOMAIN invoices \subseteq DOMAIN invoices'
  BY OrdersStay
<1>1. ASSUME NEW r \in Clients, NEW o \in Orders, NEW c \in Coins, Asks(r, o, c)
      PROVE  RequestsAreOwn'
  BY <1>0, <1>1 DEF Asks
<1>2. ASSUME NEW r \in Clients, Create(r), Creates(r), DOMAIN invoices' = 1..(Len(invoices) + 1)
      PROVE  RequestsAreOwn'
  <2>1. Len(invoices) + 1 \in DOMAIN invoices'
    BY <1>2, TableOfRows
  <2> QED BY <1>0, <1>2, <2>1 DEF Create, Creates
<1>3. ASSUME NEW r \in Clients, RequestMoves(r, "idle", 0, "-", 0, 0) PROVE RequestsAreOwn'
  BY <1>0, <1>3
<1>4. ASSUME NEW r \in Clients, Switch(r), Switches(r) PROVE RequestsAreOwn'
  BY <1>0, <1>4 DEF Switch, Switches
<1>5. ASSUME NEW r \in Clients, Mint(r), Mints(r) PROVE RequestsAreOwn'
  BY <1>0, <1>5 DEF Mint, Mints
<1>6. CASE UNCHANGED requestVars
  BY <1>6 DEF requestVars
<1>7. ASSUME NEW r \in Clients, Attach(r) \/ Update(r) \/ Interrupt(r)
      PROVE  RequestMoves(r, "idle", 0, "-", 0, 0)
  BY <1>7, EndMoves DEF Attach, Update, Interrupt
<1>8. ASSUME NEW r \in Clients, Create(r) PROVE Creates(r) /\ DOMAIN invoices' = 1..(Len(invoices) + 1)
  BY <1>8, CreateEffect, LenProperties DEF Creates
<1> QED BY <1>1, <1>2, <1>3, <1>4, <1>5, <1>6, <1>7, <1>8, RequestEffect, SwitchEffect, MintEffect
        DEF RequestsNext

(* What a request about to create has not found is not there below the     *)
(* number of rows it saw.                                                  *)
LEMMA NextMisses ==
  ASSUME RequestTypes, RequestsAreOwn, MissesAreTrue, [RequestsNext]_requestVars
  PROVE  MissesAreTrue'
<1>0. /\ DOMAIN invoices \subseteq DOMAIN invoices' /\ Len(invoices') >= Len(invoices)
      /\ \A i \in DOMAIN invoices : invoices'[i].order = invoices[i].order
      /\ Len(invoices) \in Nat /\ DOMAIN invoices = 1..Len(invoices)
      /\ \A q \in Clients : client[q].inv \in Nat
  BY OrdersStay, TableOfRows, RequestFields
<1>00. Len(invoices') \in Nat
  BY NextRequestTypes, LenProperties DEF RequestTypes
<1>1. ASSUME NEW q \in Clients, client'[q] = client[q], client[q].at = "create"
      PROVE  /\ client'[q].inv <= Len(invoices')
             /\ \A i \in 1..client'[q].inv : invoices'[i].order # client'[q].order
  BY <1>0, <1>00, <1>1 DEF MissesAreTrue, IsAt
<1>2. ASSUME NEW q \in Clients, client'[q].at = "create", client'[q] # client[q]
      PROVE  /\ client'[q].inv <= Len(invoices')
             /\ \A i \in 1..client'[q].inv : invoices'[i].order # client'[q].order
  <2>1. PICK o \in Orders, c \in Coins : Request(q, o, c)
    <3>1. ASSUME NEW r \in Clients, NEW at \in RequestStages \ {"create"}, NEW o, NEW c, NEW i, NEW a,
                 RequestMoves(r, at, o, c, i, a)
          PROVE  FALSE
      BY <1>2, <3>1 DEF RequestMoves
    <3>2. ASSUME NEW r \in Clients,
                 Create(r) \/ Attach(r) \/ Switch(r) \/ Mint(r) \/ Update(r) \/ Interrupt(r)
          PROVE  FALSE
      BY <3>1, <3>2, CreateEffect, SwitchEffect, MintEffect, EndMoves
         DEF Creates, Switches, Mints, Attach, Update, Interrupt, RequestStages
    <3>3. ~ UNCHANGED requestVars
      BY <1>2 DEF requestVars
    <3>4. PICK r \in Clients, o \in Orders, c \in Coins : Request(r, o, c)
      BY <3>2, <3>3 DEF RequestsNext
    <3>5. r = q
      BY <1>2, <3>4, RequestEffect DEF Asks, RequestMoves
    <3> QED BY <3>4, <3>5
  <2>2. Asks(q, o, c)
    BY <2>1, RequestEffect
  <2>3. /\ \A i \in DOMAIN invoices : invoices[i].order # o
        /\ RequestMoves(q, "create", o, c, Len(invoices), 0)
    BY <1>2, <2>2 DEF Asks, RequestMoves
  <2> QED BY <1>0, <2>3 DEF RequestMoves
<1> QED BY <1>1, <1>2 DEF MissesAreTrue, IsAt

(* A new invoice is the only one of its order that the request could see.  *)
LEMMA NextTwins ==
  ASSUME RequestTypes, RequestsAreOwn, MissesAreTrue, TwinsOverlapped, [RequestsNext]_requestVars
  PROVE  TwinsOverlapped'
<1>0. /\ Len(invoices) \in Nat /\ DOMAIN invoices = 1..Len(invoices)
      /\ \A r \in Clients : client[r].inv \in Nat
      /\ misses \in [1..MaxInvoices -> Nat] /\ MaxInvoices \in Nat
  BY TableOfRows, RequestFields, RequestsAssumption DEF RequestTypes
<1>1. ASSUME NEW r \in Clients, Create(r), Creates(r), DOMAIN invoices' = 1..(Len(invoices) + 1)
      PROVE  TwinsOverlapped'
  <2> DEFINE n == Len(invoices) + 1
  <2>1. n \in 1..MaxInvoices
    BY <1>0, <1>1 DEF Creates
  <2>2. misses'[n] = client[r].inv /\ \A i \in 1..Len(invoices) : misses'[i] = misses[i]
    BY <1>0, <1>1, <2>1 DEF Creates
  <2>3. /\ invoices'[n].order = client[r].order
        /\ \A i \in 1..Len(invoices) : invoices'[i] = invoices[i]
    BY <1>1 DEF Creates
  <2>4. \A i \in 1..Len(invoices) : invoices[i].order = client[r].order => client[r].inv < i
    BY <1>0, <1>1 DEF MissesAreTrue, Create, IsAt
  <2>5. SUFFICES ASSUME NEW i \in 1..n, NEW j \in 1..n, i < j,
                        invoices'[i].order = invoices'[j].order
                 PROVE  misses'[j] < i
    BY <1>1 DEF TwinsOverlapped
  <2>6. i \in 1..Len(invoices)
    BY <1>0, <2>5
  <2>7. CASE j = n
    BY <2>2, <2>3, <2>4, <2>5, <2>6, <2>7
  <2>8. CASE j # n
    <3>1. j \in 1..Len(invoices)
      BY <1>0, <2>5, <2>8
    <3>2. misses'[j] = misses[j] /\ invoices[i].order = invoices[j].order
      BY <2>2, <2>3, <2>5, <2>6, <3>1
    <3>3. misses[j] < i
      BY <1>0, <2>5, <2>6, <3>1, <3>2 DEF TwinsOverlapped
    <3> QED BY <3>2, <3>3
  <2> QED BY <2>7, <2>8
<1>2. ASSUME NEW r \in Clients, Update(r), DOMAIN invoices' = 1..Len(invoices)
      PROVE  TwinsOverlapped'
  <2>1. misses' = misses /\ \A i \in 1..Len(invoices) : invoices'[i].order = invoices[i].order
    BY <1>0, <1>2, OrdersStay DEF Update
  <2> QED BY <1>0, <1>2, <2>1 DEF TwinsOverlapped
<1>3. CASE UNCHANGED <<invoices, misses>>
  BY <1>3 DEF TwinsOverlapped
<1> QED BY <1>1, <1>2, <1>3, InvoicesGrow

-----------------------------------------------------------------------------
(* A step ties nothing new to an address, except one that was just made.   *)
Fresh(inv, coin) == [inv |-> inv, coin |-> coin, addr |-> minted + 1]

(* Only creating and minting issue an address.                             *)
LEMMA IssuedKeeps ==
  ASSUME RequestTypes, RequestsAreOwn, [RequestsNext]_requestVars,
         ~ \E r \in Clients : Create(r) \/ Mint(r)
  PROVE  Issued' \subseteq Issued /\ minted' = minted
<1>0. DOMAIN invoices = 1..Len(invoices)
  BY TableOfRows
<1> USE DEF Issued
<1>1. ASSUME NEW r \in Clients, NEW o \in Orders, NEW c \in Coins, Request(r, o, c)
      PROVE  Issued' \subseteq Issued /\ minted' = minted
  <2>1. UNCHANGED <<addresses, answered, invoices, minted>>
    BY <1>1 DEF Request
  <2>2. {RowOf(i) : i \in DOMAIN invoices}' = {RowOf(i) : i \in DOMAIN invoices}
    BY <2>1 DEF RowOf
  <2>3. ASSUME NEW q \in Holding'
        PROVE  Own(q)' \in {RowOf(i) : i \in DOMAIN invoices} \cup {Own(p) : p \in Holding}
    <3>1. CASE q # r
      BY <1>1, <2>3, <3>1, RequestEffect DEF Asks, RequestMoves, Own, Holding, IsAt
    <3>2. CASE q = r
      <4>1. PICK i \in DOMAIN invoices : RequestMoves(r, "update", o, c, i, invoices[i].addr)
                                         /\ c = invoices[i].coin
        BY <1>1, <2>3, <3>2, RequestEffect DEF Asks, RequestMoves, Holding, IsAt
      <4> QED BY <3>2, <4>1 DEF RequestMoves, Own, RowOf
    <3> QED BY <3>1, <3>2
  <2> QED BY <2>1, <2>2, <2>3
<1>2. ASSUME NEW r \in Clients, Attach(r) \/ Interrupt(r)
      PROVE  Issued' \subseteq Issued /\ minted' = minted
  <2>1. /\ UNCHANGED <<invoices, minted>>
        /\ addresses' \subseteq addresses \cup {Own(q) : q \in Holding}
        /\ answered' \subseteq answered \cup {Own(q) : q \in Holding}
    BY <1>2 DEF Attach, Interrupt, Holding
  <2>2. {RowOf(i) : i \in DOMAIN invoices}' = {RowOf(i) : i \in DOMAIN invoices}
    BY <2>1 DEF RowOf
  <2>3. {Own(q) : q \in Holding}' \subseteq {Own(q) : q \in Holding}
    BY <1>2, EndMoves DEF Attach, Interrupt, RequestMoves, Own, Holding, IsAt
  <2> QED BY <2>1, <2>2, <2>3
<1>3. ASSUME NEW r \in Clients, Switch(r)
      PROVE  Issued' \subseteq Issued /\ minted' = minted
  <2>1. UNCHANGED <<addresses, answered, invoices, minted>>
    BY <1>3 DEF Switch
  <2>2. {RowOf(i) : i \in DOMAIN invoices}' = {RowOf(i) : i \in DOMAIN invoices}
    BY <2>1 DEF RowOf
  <2>3. ASSUME NEW q \in Holding' PROVE Own(q)' \in addresses \cup {Own(p) : p \in Holding}
    <3>1. CASE q # r
      BY <1>3, <2>3, <3>1, SwitchEffect DEF Switches, RequestMoves, Own, Holding, IsAt
    <3>2. CASE q = r
      <4>1. PICK a \in addresses :
              /\ a.inv = client[r].inv /\ a.coin = client[r].coin
              /\ RequestMoves(r, "update", client[r].order, client[r].coin, client[r].inv, a.addr)
        BY <1>3, <2>3, <3>2, SwitchEffect DEF Switches, RequestMoves, Holding, IsAt
      <4>2. a = [inv |-> a.inv, coin |-> a.coin, addr |-> a.addr]
        BY DEF RequestTypes, Issue
      <4> QED BY <3>2, <4>1, <4>2 DEF RequestMoves, Own
    <3> QED BY <3>1, <3>2
  <2> QED BY <2>1, <2>2, <2>3
<1>4. ASSUME NEW r \in Clients, Update(r)
      PROVE  Issued' \subseteq Issued /\ minted' = minted
  <2>1. /\ UNCHANGED <<addresses, minted>> /\ r \in Holding
        /\ answered' = answered \cup {Own(r)}
    BY <1>4 DEF Update, Holding
  <2>2. Updates(r) /\ DOMAIN invoices' = 1..Len(invoices)
    BY <1>4, UpdateEffect, LenProperties DEF Updates
  <2>3. ASSUME NEW i \in DOMAIN invoices'
        PROVE  RowOf(i)' \in {RowOf(j) : j \in DOMAIN invoices} \cup {Own(r)}
    BY <1>0, <2>2 DEF Updates, RowOf, Own
  <2>4. {Own(q) : q \in Holding}' \subseteq {Own(q) : q \in Holding}
    BY <1>4, EndMoves DEF Update, RequestMoves, Own, Holding, IsAt
  <2> QED BY <2>1, <2>3, <2>4
<1>5. CASE UNCHANGED requestVars
  BY <1>5 DEF requestVars, RowOf, Own, Holding, IsAt
<1> QED BY <1>1, <1>2, <1>3, <1>4, <1>5 DEF RequestsNext

(* Creating issues one, not issued before.                                 *)
LEMMA IssuedCreated ==
  ASSUME RequestTypes, RequestsAreOwn, NEW r \in Clients, Create(r)
  PROVE  /\ Issued' \subseteq Issued \cup {Fresh(Len(invoices) + 1, client[r].coin)}
         /\ minted' = minted + 1
<1> DEFINE f == Fresh(Len(invoices) + 1, client[r].coin)
<1> USE DEF Issued, Fresh
<1>1. /\ UNCHANGED <<addresses, answered>>
      /\ Creates(r) /\ DOMAIN invoices' = 1..(Len(invoices) + 1)
  BY CreateEffect, LenProperties DEF Create, Creates
<1>2. ASSUME NEW i \in DOMAIN invoices'
      PROVE  RowOf(i)' \in {RowOf(j) : j \in DOMAIN invoices} \cup {f}
  BY <1>1, TableOfRows DEF Creates, RowOf
<1>3. ASSUME NEW q \in Holding' PROVE Own(q)' \in {Own(p) : p \in Holding} \cup {f}
  BY <1>1, <1>3 DEF Creates, RequestMoves, Own, Holding, IsAt
<1>4. Issued' \subseteq Issued \cup {f}
  BY <1>1, <1>2, <1>3
<1>5. minted' = minted + 1
  BY <1>1 DEF Creates
<1> QED BY <1>4, <1>5

(* So does minting.                                                        *)
LEMMA IssuedMinted ==
  ASSUME RequestTypes, RequestsAreOwn, NEW r \in Clients, Mint(r)
  PROVE  /\ Issued' \subseteq Issued \cup {Fresh(client[r].inv, client[r].coin)}
         /\ minted' = minted + 1
<1> DEFINE f == Fresh(client[r].inv, client[r].coin)
<1> USE DEF Issued, Fresh
<1>1. UNCHANGED <<answered, invoices>> /\ Mints(r)
  BY MintEffect DEF Mint
<1>2. {RowOf(i) : i \in DOMAIN invoices}' = {RowOf(i) : i \in DOMAIN invoices}
  BY <1>1 DEF RowOf
<1>3. ASSUME NEW q \in Holding' PROVE Own(q)' \in {Own(p) : p \in Holding} \cup {f}
  BY <1>1, <1>3 DEF Mints, RequestMoves, Own, Holding, IsAt
<1>4. Issued' \subseteq Issued \cup {f}
  BY <1>1, <1>2, <1>3 DEF Mints
<1>5. minted' = minted + 1
  BY <1>1 DEF Mints
<1> QED BY <1>4, <1>5

(* Addresses stay unique.                                                  *)
LEMMA NextUnique ==
  ASSUME RequestTypes, RequestsAreOwn, AddressesAreUnique, [RequestsNext]_requestVars
  PROVE  AddressesAreUnique'
<1>0. minted \in Nat
  BY DEF RequestTypes
<1>1. CASE ~ \E r \in Clients : Create(r) \/ Mint(r)
  BY <1>1, IssuedKeeps DEF AddressesAreUnique
<1>2. CASE \E r \in Clients : Create(r) \/ Mint(r)
  <2>1. PICK i, c : Issued' \subseteq Issued \cup {Fresh(i, c)} /\ minted' = minted + 1
    BY <1>2, IssuedCreated, IssuedMinted
  <2>2. Fresh(i, c).addr = minted + 1
    BY DEF Fresh
  <2> QED BY <1>0, <2>1, <2>2 DEF AddressesAreUnique
<1> QED BY <1>1, <1>2

(* What ties an address to an invoice stays backed.                        *)
BackedBy(a) ==
  \/ a \in addresses \/ a.inv \in torn
  \/ \E r \in Clients : IsAt(r, "attach") /\ Own(r) = a

(* An address that has its row, or a reason why not, keeps it.             *)
LEMMA BackedStays ==
  ASSUME RequestTypes, RequestsAreOwn, [RequestsNext]_requestVars, NEW a, BackedBy(a)
  PROVE  BackedBy(a)'
<1>1. addresses \subseteq addresses' /\ torn \subseteq torn'
  BY DEF RequestsNext, Request, Create, Attach, Switch, Mint, Update, Interrupt, requestVars
<1>2. ASSUME NEW q \in Clients, IsAt(q, "attach"), Own(q) = a PROVE BackedBy(a)'
  <2>1. CASE client'[q] = client[q]
    BY <1>2, <2>1 DEF BackedBy, IsAt, Own
  <2>2. CASE client'[q] # client[q]
    <3>1. ASSUME NEW r \in Clients \ {q}, NEW at, NEW o, NEW c, NEW i, NEW b,
                 RequestMoves(r, at, o, c, i, b)
          PROVE  FALSE
      BY <2>2, <3>1 DEF RequestMoves
    <3>2. ASSUME NEW r \in Clients, NEW o \in Orders, NEW c \in Coins, Request(r, o, c)
          PROVE  r = q
      BY <3>1, <3>2, RequestEffect DEF Asks
    <3>3. ASSUME NEW r \in Clients,
                 Create(r) \/ Attach(r) \/ Switch(r) \/ Mint(r) \/ Update(r) \/ Interrupt(r)
          PROVE  r = q
      BY <3>1, <3>3, CreateEffect, SwitchEffect, MintEffect, EndMoves
         DEF Creates, Switches, Mints, Attach, Update, Interrupt
    <3>4. PICK r \in Clients :
            \/ \E o \in Orders, c \in Coins : Request(r, o, c)
            \/ Create(r) \/ Attach(r) \/ Switch(r) \/ Mint(r) \/ Update(r) \/ Interrupt(r)
      BY <2>2 DEF RequestsNext, requestVars
    <3>5. r = q
      BY <3>2, <3>3, <3>4
    <3>6. Attach(q) \/ Interrupt(q)
      BY <1>2, <3>4, <3>5 DEF Request, Create, Switch, Mint, Update, IsAt
    <3> QED BY <1>2, <3>6 DEF Attach, Interrupt, BackedBy, Own
  <2> QED BY <2>1, <2>2
<1> QED BY <1>1, <1>2 DEF BackedBy

(* So does every address, and a new one gets it.                           *)
LEMMA NextBacked ==
  ASSUME RequestTypes, RequestsAreOwn, IssuesAreBacked, [RequestsNext]_requestVars
  PROVE  IssuesAreBacked'
<1>1. \A a \in Issued : BackedBy(a)'
  BY BackedStays DEF IssuesAreBacked, BackedBy
<1>2. CASE ~ \E r \in Clients : Create(r) \/ Mint(r)
  BY <1>1, <1>2, IssuedKeeps DEF IssuesAreBacked, BackedBy
<1>3. ASSUME NEW r \in Clients, Create(r) PROVE IssuesAreBacked'
  <2>0. PICK f : f = Fresh(Len(invoices) + 1, client[r].coin)
    OBVIOUS
  <2>1. Issued' \subseteq Issued \cup {f}
    BY <1>3, <2>0, IssuedCreated
  <2>2. BackedBy(f)'
    BY <1>3, <2>0, CreateEffect DEF Creates, RequestMoves, BackedBy, IsAt, Own, Fresh
  <2> QED BY <1>1, <2>1, <2>2 DEF IssuesAreBacked, BackedBy
<1>4. ASSUME NEW r \in Clients, Mint(r) PROVE IssuesAreBacked'
  <2>0. PICK f : f = Fresh(client[r].inv, client[r].coin)
    OBVIOUS
  <2>1. Issued' \subseteq Issued \cup {f}
    BY <1>4, <2>0, IssuedMinted
  <2>2. BackedBy(f)'
    BY <1>4, <2>0, MintEffect DEF Mints, BackedBy, Fresh
  <2> QED BY <1>1, <2>1, <2>2 DEF IssuesAreBacked, BackedBy
<1> QED BY <1>2, <1>3, <1>4

-----------------------------------------------------------------------------
(* The invariant holds in every reachable state.                           *)
LEMMA RequestsAreInductive == RequestsSpec => [](RequestTypes /\ RequestInv)
<1>1. RequestsInit => RequestTypes /\ RequestInv
  BY RequestsBegin
<1>2. RequestTypes /\ RequestInv /\ [RequestsNext]_requestVars => (RequestTypes /\ RequestInv)'
  BY NextRequestTypes, NextOwn, NextMisses, NextTwins, NextUnique, NextBacked DEF RequestInv
<1> QED BY <1>1, <1>2, PTL DEF RequestsSpec

(* Tables and requests have their types.                                   *)
THEOREM RequestsAreTyped == RequestsSpec => []RequestTypes
BY RequestsAreInductive, PTL

(* Two invoices of one order come from requests that overlapped.           *)
THEOREM TwinsAreRaces == RequestsSpec => []TwinsOverlapped
<1>1. RequestTypes /\ RequestInv => TwinsOverlapped
  BY DEF RequestInv
<1> QED BY <1>1, RequestsAreInductive, PTL

(* An address that a merchant was given leads to its invoice alone, unless *)
(* the request that created the invoice stopped before its last statement  *)
(* or has yet to execute it.                                               *)
THEOREM AddressesLeadBack == RequestsSpec => []AnsweredAddressIsFound
<1>1. RequestTypes /\ RequestInv => AnsweredAddressIsFound
  <2> SUFFICES ASSUME RequestTypes, RequestInv, NEW a \in answered, a.inv \notin torn \cup Unfinished
               PROVE  Lookup(a.coin, a.addr) = {a.inv}
    BY DEF AnsweredAddressIsFound
  <2>1. a \in addresses
    BY DEF RequestInv, IssuesAreBacked, Issued, Unfinished, Own
  <2>2. {b \in addresses : b.coin = a.coin /\ b.addr = a.addr} = {a}
    BY <2>1 DEF RequestInv, AddressesAreUnique, Issued
  <2> QED BY <2>2 DEF Lookup
<1> QED BY <1>1, RequestsAreInductive, PTL

-----------------------------------------------------------------------------
(***************************************************************************)
(* OrderDetails: what an order's page shows.                               *)
(***************************************************************************)
(* What one query may find, and what a reader has collected.               *)
AnswerRows == SUBSET (Payments \cup {"IN_PROGRESS", "SENT", "SUCCESS", "txid"})
Answers  == [queries : 0..5, shown : [1..5 -> AnswerRows]]

(* What a reader saw is what is there, or what was there when a later      *)
(* query had not been made yet.                                            *)
ViewsGrow ==
  \A r \in Readers :
    /\ view[r].queries >= 1 => view[r].shown[1] \subseteq recorded
    /\ view[r].queries >= 2 => view[r].shown[1] \subseteq view[r].shown[2]
    /\ view[r].queries >= 4 /\ "SUCCESS" \in view[r].shown[4] => payout = "SUCCESS"
    /\ view[r].queries >= 5 /\ "SUCCESS" \in view[r].shown[4] => view[r].shown[5] # {}

DetailsInv ==
  /\ view \in [Readers -> Answers]
  /\ recorded \subseteq Payments /\ pending \subseteq Payments
  /\ credited \subseteq recorded
  /\ payout \in {"IN_PROGRESS", "SENT", "SUCCESS"}
  /\ ViewsGrow

(* The five queries, in their order.                                       *)
LEMMA Queries ==
  /\ Len(QueryOrder) = 5 /\ DOMAIN QueryOrder = 1..5
  /\ \A k \in 1..5 : Rows(QueryOrder[k]) =
       CASE k = 1 -> credited [] k = 2 -> recorded [] k = 3 -> pending
         [] k = 4 -> {payout} [] k = 5 -> PayoutTxsByPayoutIDs
<1>1. Len(QueryOrder) = 5 /\ DOMAIN QueryOrder = 1..5
  BY DEF QueryOrder
<1>2. /\ Rows("invoices") = credited /\ Rows("transactions") = recorded
      /\ Rows("unconfirmed") = pending /\ Rows("payouts") = {payout}
      /\ Rows("payout_txs") = PayoutTxsByPayoutIDs
  BY DEF Rows, InvoicesByExternalIDs, InvoiceTransactionsByInvoiceIDs,
         InvoiceUnconfirmedTransactionsByInvoiceIDs, PayoutsByExternalIDs
<1>3. /\ QueryOrder[1] = "invoices" /\ QueryOrder[2] = "transactions"
      /\ QueryOrder[3] = "unconfirmed" /\ QueryOrder[4] = "payouts"
      /\ QueryOrder[5] = "payout_txs"
  BY DEF QueryOrder
<1> QED BY <1>1, <1>2, <1>3

(* Every step keeps what the answer has read explained.                    *)
LEMMA DetailsStep == DetailsInv /\ [DetailsNext]_detailVars => DetailsInv'
<1> SUFFICES ASSUME DetailsInv, [DetailsNext]_detailVars PROVE DetailsInv'
  OBVIOUS
<1> USE DEF DetailsInv
<1>1. ASSUME NEW x \in Payments, Pay(x) PROVE DetailsInv'
  BY <1>1 DEF Pay, ViewsGrow
<1>2. CASE Settle
  BY <1>2 DEF Settle, ViewsGrow
<1>3. ASSUME NEW r \in Readers, Query(r) PROVE DetailsInv'
  <2> DEFINE n == view[r].queries + 1
  <2> DEFINE given == Rows(QueryOrder[n])
  <2>1. n \in 1..5 /\ UNCHANGED <<pending, recorded, credited, payout>>
    BY <1>3, Queries DEF Query, Answers
  <2>2. view' = [view EXCEPT ![r].queries = n, ![r].shown[n] = given]
    BY <1>3 DEF Query
  <2>3. /\ n = 1 => given = credited
        /\ n = 2 => given = recorded
        /\ n = 3 => given = pending
        /\ n = 4 => given = {payout}
        /\ n = 5 => given = PayoutTxsByPayoutIDs
    BY <2>1, Queries
  <2> HIDE DEF n, given
  <2>4. /\ view'[r].queries = n /\ view'[r].shown = [view[r].shown EXCEPT ![n] = given]
        /\ \A q \in Readers \ {r} : view'[q] = view[q]
    BY <2>2
  <2>5. given \in AnswerRows
    BY <2>1, <2>3 DEF PayoutTxsByPayoutIDs, AnswerRows
  <2>6. view'[r] \in Answers
    <3>1. view[r].shown \in [1..5 -> AnswerRows]
      BY DEF Answers
    <3>2. [view[r].shown EXCEPT ![n] = given] \in [1..5 -> AnswerRows]
      BY <3>1, <2>5
    <3>3. view'[r] = [queries |-> n, shown |-> [view[r].shown EXCEPT ![n] = given]]
      BY <2>2 DEF Answers
    <3> QED BY <3>2, <3>3, <2>1 DEF Answers
  <2>6a. view' \in [Readers -> Answers]
    BY <2>2, <2>6
  <2>7. n = view[r].queries + 1
    BY DEF n
  <2>8. ViewsGrow'
    <3> SUFFICES ASSUME NEW q \in Readers
                 PROVE  /\ view'[q].queries >= 1 => view'[q].shown[1] \subseteq recorded
                        /\ view'[q].queries >= 2 => view'[q].shown[1] \subseteq view'[q].shown[2]
                        /\ view'[q].queries >= 4 /\ "SUCCESS" \in view'[q].shown[4] => payout = "SUCCESS"
                        /\ view'[q].queries >= 5 /\ "SUCCESS" \in view'[q].shown[4] => view'[q].shown[5] # {}
      BY <2>1 DEF ViewsGrow
    <3>1. CASE q # r
      BY <3>1, <2>4 DEF ViewsGrow
    <3>2. CASE q = r
      BY <3>2, <2>1, <2>3, <2>4, <2>7 DEF ViewsGrow, Answers, PayoutTxsByPayoutIDs
    <3> QED BY <3>1, <3>2
  <2> QED BY <2>1, <2>6a, <2>8
<1>4. CASE UNCHANGED detailVars
  BY <1>4 DEF detailVars, ViewsGrow
<1> QED BY <1>1, <1>2, <1>3, <1>4 DEF DetailsNext

(* However payments are recorded between the queries of an answer, each    *)
(* payment of the balance it shows is among its transactions, and a        *)
(* successful payout comes with one.  (InvoiceDetails,                     *)
(* PayoutsByExternalIDs)                                                   *)
THEOREM AnswersAreExplained == DetailsSpec => []AnswersExplainThemselves
<1>1. DetailsInit => DetailsInv
  BY Queries DEF DetailsInit, DetailsInv, ViewsGrow, Answers, AnswerRows
<1>2. DetailsInv => AnswersExplainThemselves
  <2> SUFFICES ASSUME DetailsInv, NEW r \in Readers, view[r].queries = 5
               PROVE  /\ Shown(r, "invoices") \subseteq Shown(r, "transactions")
                      /\ "SUCCESS" \in Shown(r, "payouts") => Shown(r, "payout_txs") # {}
    BY Queries DEF AnswersExplainThemselves
  <2>1. /\ Shown(r, "invoices") = view[r].shown[1] /\ Shown(r, "transactions") = view[r].shown[2]
        /\ Shown(r, "payouts") = view[r].shown[4] /\ Shown(r, "payout_txs") = view[r].shown[5]
    BY DEF Shown, QueryOrder
  <2> QED BY <2>1 DEF DetailsInv, ViewsGrow
<1> QED BY <1>1, <1>2, DetailsStep, PTL DEF DetailsSpec

-----------------------------------------------------------------------------
(***************************************************************************)
(* OrderIndex: the times in the index, and the pages that are read from it.*)
(***************************************************************************)
(* A finite set that a strict order ranks has an element none precedes.    *)
LEMMA FirstExists ==
  ASSUME NEW S, IsFiniteSet(S), S # {}, NEW R,
         \A x \in S : <<x, x>> \notin R,
         \A x, y, z \in S : <<x, y>> \in R /\ <<y, z>> \in R => <<x, z>> \in R
  PROVE  \E x \in S : \A y \in S : <<y, x>> \notin R
<1> DEFINE before(x) == {y \in S : <<y, x>> \in R}
           T == {before(x) : x \in S}
<1>1. T \subseteq FiniteSubsetsOf(S) /\ T # {}
  <2>1. FiniteSubsetsOf(S) = SUBSET S
    BY FS_FiniteSubsetsOfFinite
  <2>2. \A x \in S : before(x) \in SUBSET S /\ before(x) \in T
    OBVIOUS
  <2>3. ASSUME NEW u \in T PROVE u \in SUBSET S
    <3>1. PICK x \in S : u = before(x)
      OBVIOUS
    <3> QED BY <2>2, <3>1
  <2>4. T # {}
    <3>1. PICK x : x \in S
      OBVIOUS
    <3> QED BY <2>2, <3>1
  <2> HIDE DEF T
  <2> QED BY <2>1, <2>3, <2>4
<1>2. PICK t \in T : \A u \in T : <<u, t>> \notin StrictSubsetOrdering(S)
  BY <1>1, WFMin, FS_StrictSubsetOrderingWellFounded
<1>3. PICK x \in S : t = before(x)
  OBVIOUS
<1>4. ASSUME NEW y \in S, <<y, x>> \in R PROVE FALSE
  <2>1. before(y) \subseteq before(x) /\ y \in before(x) /\ y \notin before(y)
    BY <1>4
  <2>2. <<before(y), before(x)>> \in StrictSubsetOrdering(S)
    BY <2>1 DEF StrictSubsetOrdering
  <2> QED BY <1>2, <1>3, <2>2
<1> QED BY <1>4

(* The greater one of two times.                                           *)
LEMMA MaxOfTwo ==
  ASSUME NEW a \in Nat, NEW b \in Nat
  PROVE  Max({a, b}) = IF a >= b THEN a ELSE b
<1> DEFINE m == IF a >= b THEN a ELSE b
<1>1. m \in {a, b} /\ \A y \in {a, b} : m >= y
  OBVIOUS
<1>2. \A x \in {a, b} : (\A y \in {a, b} : x >= y) => x = m
  OBVIOUS
<1> QED BY <1>1, <1>2 DEF Max

Scans ==
  [on : BOOLEAN, after : Nat \X Nat, owed : SUBSET IndexedOrders,
   listed : SUBSET IndexedOrders, twice : SUBSET IndexedOrders, shaken : BOOLEAN]

IndexTypes ==
  /\ changed \in [Tables -> [IndexedOrders -> Nat]]
  /\ passing \subseteq IndexedOrders
  /\ now \in Nat
  /\ writing \in [Writers -> IndexedOrders \cup {0}]
  /\ index \in [IndexedOrders -> Nat]
  /\ rebuild \in {"none", "invoice", "payout"}
  /\ stale \subseteq IndexedOrders
  /\ scan \in Scans

Awaited(o) == \E w \in Writers : writing[w] = o

(* The index runs behind the tables and never ahead of them.               *)
IndexFollows ==
  \A o \in IndexedOrders :
    /\ \A t \in Tables : changed[t][o] <= now
    /\ index[o] <= LastChange(o)

(* What is neither stale nor about to be refreshed is current, or becomes  *)
(* so by the statements a rebuild has still to execute.                    *)
IndexCatchesUp ==
  \A o \in IndexedOrders : ~Awaited(o) /\ o \notin stale =>
    /\ rebuild = "none" => index[o] = LastChange(o)
    /\ rebuild = "payout" => changed["invoice"][o] <= index[o]

IndexInv == IndexFollows /\ IndexCatchesUp

(* The last change of an order is the later one of its two tables.         *)
LEMMA Latest ==
  ASSUME IndexTypes, NEW o \in IndexedOrders
  PROVE  /\ changed["invoice"][o] \in Nat /\ changed["payout"][o] \in Nat
         /\ LastChange(o) = IF changed["invoice"][o] >= changed["payout"][o]
                            THEN changed["invoice"][o] ELSE changed["payout"][o]
         /\ LastChange(o) \in Nat
<1>1. changed["invoice"][o] \in Nat /\ changed["payout"][o] \in Nat
  BY DEF IndexTypes, Tables
<1>2. LastChange(o) = Max({changed["invoice"][o], changed["payout"][o]})
  BY DEF LastChange, Tables
<1> QED BY <1>1, <1>2, MaxOfTwo

(* What a step of the tables or the index makes of a scan.                 *)
LEMMA WatchEffect ==
  ASSUME IndexTypes, Watch
  PROVE  /\ scan' \in Scans
         /\ scan'.on = scan.on /\ scan'.after = scan.after
         /\ scan'.listed = scan.listed /\ scan'.twice = scan.twice
         /\ scan'.owed \subseteq scan.owed
         /\ scan.on => \A o \in scan'.owed : index'[o] = index[o] /\ o \in passing'
         /\ scan.on => scan'.shaken = (scan.shaken \/ rebuild' # "none")
         /\ ~scan.on => scan' = scan
<1>1. scan \in Scans
  BY DEF IndexTypes
<1>2. CASE ~scan.on
  BY <1>1, <1>2 DEF Watch
<1>3. CASE scan.on
  <2> DEFINE still == {o \in scan.owed : index'[o] = index[o] /\ o \in passing'}
             shaken == scan.shaken \/ rebuild' # "none"
  <2>1. scan' = [scan EXCEPT !.owed = still, !.shaken = shaken]
    BY <1>3 DEF Watch
  <2>2. still \in SUBSET scan.owed /\ shaken \in BOOLEAN
    OBVIOUS
  <2>3. \A o \in still : index'[o] = index[o] /\ o \in passing'
    OBVIOUS
  <2>4. shaken = (scan.shaken \/ rebuild' # "none")
    OBVIOUS
  <2> HIDE DEF still, shaken
  <2>5. still \in SUBSET IndexedOrders
    BY <1>1, <2>2 DEF Scans
  <2>6. scan' = [on |-> scan.on, after |-> scan.after, owed |-> still, listed |-> scan.listed,
                 twice |-> scan.twice, shaken |-> shaken]
    BY <1>1, <2>1 DEF Scans
  <2>7. scan' \in Scans
    BY <1>1, <2>2, <2>5, <2>6 DEF Scans
  <2> QED BY <1>3, <2>2, <2>3, <2>4, <2>6, <2>7
<1> QED BY <1>2, <1>3

(* Orders with a row in one of the tables; only they can be on a page.     *)
Written == {o \in IndexedOrders : LastChange(o) > 0}

(* The order of the pages is total and strict.                             *)
LEMMA PrecedesIsStrict ==
  ASSUME IndexTypes
  PROVE  /\ \A o, p \in IndexedOrders :
              o # p => (Precedes(SortKey(o), SortKey(p)) <=> ~Precedes(SortKey(p), SortKey(o)))
         /\ \A o \in IndexedOrders : ~Precedes(SortKey(o), SortKey(o))
         /\ \A o, p \in IndexedOrders, k \in Nat \X Nat :
              Precedes(SortKey(o), SortKey(p)) /\ Precedes(SortKey(p), k) => Precedes(SortKey(o), k)
         /\ \A o \in IndexedOrders : SortKey(o) \in Nat \X Nat /\ SortKey(o) # <<0, 0>>
BY IndexAssumption DEF IndexTypes, SortKey, Precedes

(* A page holds the first rows of what remains; what it leaves comes after *)
(* its last row, which is the next cursor.                                 *)
LEMMA PageIsFirst ==
  ASSUME IndexTypes, NEW rest, rest \subseteq IndexedOrders, IsFiniteSet(rest),
         NEW page, page = FirstOf(rest), rest # page
  PROVE  LET last == CHOOSE o \in page : \A p \in page : ~Precedes(SortKey(p), SortKey(o))
         IN  /\ last \in page
             /\ \A p \in page : ~Precedes(SortKey(p), SortKey(last))
             /\ \A o \in rest \ page : Precedes(SortKey(o), SortKey(last))
<1> DEFINE last == CHOOSE o \in page : \A p \in page : ~Precedes(SortKey(p), SortKey(o))
           above(o) == {p \in rest : Precedes(SortKey(o), SortKey(p))}
<1>1. page \subseteq rest /\ \A o \in rest : o \in page <=> Cardinality(above(o)) < Limit
  BY DEF FirstOf
<1>2. IsFiniteSet(page) /\ \A o \in rest : IsFiniteSet(above(o)) /\ Cardinality(above(o)) \in Nat
  BY <1>1, FS_Subset, FS_CardinalityType
<1>3. page # {}
  <2> DEFINE R == {pr \in rest \X rest : Precedes(SortKey(pr[2]), SortKey(pr[1]))}
  <2>1. \A x \in rest : <<x, x>> \notin R
    BY PrecedesIsStrict
  <2>2. \A x, y, z \in rest : <<x, y>> \in R /\ <<y, z>> \in R => <<x, z>> \in R
    BY PrecedesIsStrict
  <2>3. rest # {}
    BY <1>1
  <2> HIDE DEF R
  <2>4. PICK x \in rest : \A y \in rest : <<y, x>> \notin R
    BY <2>1, <2>2, <2>3, FirstExists
  <2>5. above(x) = {}
    BY <2>4 DEF R
  <2> QED BY <1>1, <2>5, FS_EmptySet, IndexAssumption
<1>4. \E o \in page : \A p \in page : ~Precedes(SortKey(p), SortKey(o))
  <2> DEFINE R == {pr \in page \X page : Precedes(SortKey(pr[1]), SortKey(pr[2]))}
  <2>1. \A x \in page : <<x, x>> \notin R
    BY <1>1, PrecedesIsStrict
  <2>2. \A x, y, z \in page : <<x, y>> \in R /\ <<y, z>> \in R => <<x, z>> \in R
    BY <1>1, PrecedesIsStrict
  <2> HIDE DEF R
  <2>3. PICK x \in page : \A y \in page : <<y, x>> \notin R
    BY <1>2, <1>3, <2>1, <2>2, FirstExists
  <2> QED BY <2>3 DEF R
<1>5. last \in page /\ \A p \in page : ~Precedes(SortKey(p), SortKey(last))
  BY <1>4
<1> HIDE DEF last
<1>6. ASSUME NEW o \in rest \ page PROVE Precedes(SortKey(o), SortKey(last))
  <2> SUFFICES ASSUME ~Precedes(SortKey(o), SortKey(last)) PROVE FALSE
    OBVIOUS
  <2>1. Precedes(SortKey(last), SortKey(o)) /\ last \in rest
    BY <1>1, <1>5, PrecedesIsStrict
  <2>2. above(o) \subseteq above(last)
    BY <2>1, PrecedesIsStrict
  <2>3. Cardinality(above(o)) <= Cardinality(above(last))
    BY <1>2, <2>1, <2>2, FS_Subset
  <2> QED BY <1>1, <1>2, <1>5, <2>1, <2>3, IndexAssumption
<1> QED BY <1>5, <1>6 DEF last

(* The tables change by writes only, which no row forgets.                 *)
WrittenIsFinite == IsFiniteSet(Written)

(* Finitely many orders remain to be listed.                               *)
LEMMA RemainingIsFinite ==
  ASSUME IndexTypes, IndexFollows, WrittenIsFinite, NEW after
  PROVE  Remaining(after) \subseteq IndexedOrders /\ IsFiniteSet(Remaining(after))
<1>1. Remaining(after) \subseteq Written
  BY Latest DEF Remaining, Written, IndexFollows, IndexTypes
<1> QED BY <1>1, FS_Subset DEF WrittenIsFinite, Written

(* Every step keeps the types.                                             *)
LEMMA IndexStepTypes ==
  IndexTypes /\ IndexFollows /\ WrittenIsFinite /\ [OrdersNext]_orderVars => IndexTypes'
<1> SUFFICES ASSUME IndexTypes, IndexFollows, WrittenIsFinite, [OrdersNext]_orderVars
             PROVE  IndexTypes'
  OBVIOUS
<1> USE IndexAssumption
<1> DEFINE Tabled == /\ changed \in [Tables -> [IndexedOrders -> Nat]]
                     /\ passing \subseteq IndexedOrders
                     /\ now \in Nat
                     /\ writing \in [Writers -> IndexedOrders \cup {0}]
                     /\ index \in [IndexedOrders -> Nat]
                     /\ rebuild \in {"none", "invoice", "payout"}
                     /\ stale \subseteq IndexedOrders
<1>1. Tabled /\ scan \in Scans /\ (Tabled' /\ scan' \in Scans => IndexTypes')
  BY DEF IndexTypes
<1>2. Watch => scan' \in Scans
  BY WatchEffect
<1>3. ASSUME NEW w \in Writers, NEW t \in Tables, NEW o \in IndexedOrders, Write(w, t, o)
      PROVE  Tabled'
  <2>1. now' \in Nat
    BY <1>1, <1>3 DEF Write
  <2> QED BY <1>1, <1>3, <2>1 DEF Write
<1>4. ASSUME NEW w \in Writers, Refresh(w) PROVE Tabled'
  <2>1. LastChange(writing[w]) \in Nat /\ writing[w] \in IndexedOrders
    BY <1>1, <1>4, Latest DEF Refresh, RefreshFrom
  <2> QED BY <1>1, <1>4, <2>1 DEF Refresh, RefreshFrom
<1>5. ASSUME NEW w \in Writers, RefreshFails(w) PROVE Tabled'
  BY <1>1, <1>5 DEF RefreshFails
<1>6. ASSUME RebuildDelete PROVE Tabled'
  <2>1. index' = [o \in IndexedOrders |-> 0] /\ rebuild' = "invoice" /\ stale' = stale
    BY <1>6 DEF RebuildDelete
  <2>2. UNCHANGED <<changed, passing, now, writing>>
    BY <1>6 DEF RebuildDelete, tableVars
  <2> QED BY <1>1, <2>1, <2>2
<1>7. ASSUME RebuildInsert PROVE Tabled'
  <2>1. rebuild \in Tables
    BY <1>1, <1>7 DEF RebuildInsert, Tables
  <2>2. ASSUME NEW o \in IndexedOrders PROVE InsertGreatest(o, changed[rebuild][o]) \in Nat
    BY <1>1, <2>1, MaxOfTwo DEF InsertGreatest
  <2>3. index' \in [IndexedOrders -> Nat]
    BY <1>7, <2>2 DEF RebuildInsert
  <2>4. UNCHANGED <<changed, passing, now, writing>>
    BY <1>7 DEF RebuildInsert, tableVars
  <2>5. rebuild' \in {"none", "invoice", "payout"} /\ (stale' = {} \/ stale' = stale)
    BY <1>1, <1>7 DEF RebuildInsert
  <2> QED BY <1>1, <2>3, <2>4, <2>5
<1>8. ASSUME RebuildFails PROVE Tabled'
  <2>1. index' = index /\ rebuild' = "none" /\ stale' = IndexedOrders
    BY <1>8 DEF RebuildFails
  <2>2. UNCHANGED <<changed, passing, now, writing>>
    BY <1>8 DEF RebuildFails, tableVars
  <2> QED BY <1>1, <2>1, <2>2
<1>9. ASSUME Restart PROVE Tabled'
  <2>1. index' = index /\ rebuild' = "invoice" /\ stale' = stale
    BY <1>9 DEF Restart
  <2>2. UNCHANGED <<changed, passing, now, writing>>
    BY <1>9 DEF Restart, tableVars
  <2> QED BY <1>1, <2>1, <2>2
<1>10. CASE ScanStart
  <2>1. Remaining(<<0, 0>>) \subseteq IndexedOrders
    BY RemainingIsFinite
  <2>2. scan' = [NoScan EXCEPT !.on = TRUE, !.owed = Remaining(<<0, 0>>), !.shaken = rebuild # "none"]
    BY <1>10 DEF ScanStart
  <2>3. scan' \in Scans
    BY <2>1, <2>2 DEF NoScan, Scans
  <2>4. UNCHANGED <<changed, passing, now, writing, index, rebuild, rebuilds, stale>>
    BY <1>10 DEF ScanStart, indexVars, tableVars
  <2> QED BY <1>1, <2>3, <2>4
<1>11. CASE ScanPage
  <2> DEFINE rest == Remaining(scan.after)
             page == FirstOf(rest)
             last == CHOOSE o \in page : \A p \in page : ~Precedes(SortKey(p), SortKey(o))
  <2>1. page \subseteq IndexedOrders /\ rest \subseteq IndexedOrders
    BY <1>1 DEF Remaining, FirstOf
  <2>2. (IF rest = page THEN scan.after ELSE SortKey(last)) \in Nat \X Nat
    <3>1. scan.after \in Nat \X Nat
      BY <1>1 DEF Scans
    <3>2. CASE rest # page
      <4>1. last \in page
        BY <2>1, <3>2, RemainingIsFinite, PageIsFirst
      <4>2. last \in IndexedOrders
        BY <2>1, <4>1
      <4> HIDE DEF last
      <4> QED BY <3>2, <4>2, PrecedesIsStrict
    <3> QED BY <3>1, <3>2
  <2>3. scan' = [scan EXCEPT !.owed = @ \ page, !.listed = @ \cup page,
                             !.twice = @ \cup (scan.listed \cap page),
                             !.after = IF rest = page THEN @ ELSE SortKey(last),
                             !.on = rest # page]
    BY <1>11 DEF ScanPage
  <2> HIDE DEF rest, page, last
  <2>4. scan' \in Scans
    BY <1>1, <2>1, <2>2, <2>3 DEF Scans
  <2>5. UNCHANGED <<changed, passing, now, writing, index, rebuild, rebuilds, stale>>
    BY <1>11 DEF ScanPage, indexVars, tableVars
  <2> QED BY <1>1, <2>4, <2>5
<1>12. CASE ScanEnd
  BY <1>1, <1>12 DEF ScanEnd, indexVars, tableVars, NoScan, Scans
<1>13. CASE UNCHANGED orderVars
  BY <1>1, <1>13 DEF orderVars, indexVars, tableVars
<1> QED
  BY <1>1, <1>2, <1>3, <1>4, <1>5, <1>6, <1>7, <1>8, <1>9, <1>10, <1>11, <1>12, <1>13
  DEF OrdersNext

(* The last change of an order after a step.                               *)
LEMMA LatestNext ==
  ASSUME IndexTypes', NEW o \in IndexedOrders
  PROVE  /\ changed'["invoice"][o] \in Nat /\ changed'["payout"][o] \in Nat
         /\ LastChange(o)' = IF changed'["invoice"][o] >= changed'["payout"][o]
                             THEN changed'["invoice"][o] ELSE changed'["payout"][o]
         /\ LastChange(o)' \in Nat
<1>1. changed'["invoice"][o] \in Nat /\ changed'["payout"][o] \in Nat
  BY DEF IndexTypes, Tables
<1>2. LastChange(o)' = Max({changed'["invoice"][o], changed'["payout"][o]})
  BY DEF LastChange, Tables
<1> QED BY <1>1, <1>2, MaxOfTwo

IndexStep ==
  \/ \E w \in Writers : \/ \E t \in Tables, o \in IndexedOrders : Write(w, t, o)
                        \/ Refresh(w) \/ RefreshFails(w)
  \/ RebuildDelete \/ RebuildInsert \/ RebuildFails \/ Restart

(* Without a rebuild times in the index only grow.                         *)
IndexGrows ==
  rebuild = "none" /\ rebuild' = "none" => \A o \in IndexedOrders : index[o] <= index'[o]

(* With tables as they were, orders wait for what they waited for.         *)
LEMMA SameTables ==
  ASSUME IndexTypes, IndexTypes', IndexFollows, WrittenIsFinite, UNCHANGED tableVars
  PROVE  /\ \A o \in IndexedOrders : LastChange(o)' = LastChange(o) /\ Awaited(o)' = Awaited(o)
         /\ \A o \in IndexedOrders, t \in Tables : changed'[t][o] <= now'
         /\ WrittenIsFinite'
<1>1. UNCHANGED <<changed, passing, now, writing>>
  BY DEF tableVars
<1>2. \A o \in IndexedOrders : LastChange(o)' = LastChange(o) /\ Awaited(o)' = Awaited(o)
  BY <1>1 DEF LastChange, Awaited
<1>3. Written' = Written
  BY <1>2 DEF Written
<1> QED BY <1>1, <1>2, <1>3 DEF WrittenIsFinite, IndexFollows

(* Writing the index keeps it current.                                     *)
LEMMA IndexStepKeeps ==
  ASSUME IndexTypes, IndexTypes', IndexInv, WrittenIsFinite, IndexStep
  PROVE  IndexInv' /\ WrittenIsFinite' /\ IndexGrows
<1> USE IndexAssumption
<1>1. ASSUME NEW w \in Writers, NEW t \in Tables, NEW o \in IndexedOrders, Write(w, t, o)
      PROVE  IndexInv' /\ WrittenIsFinite' /\ IndexGrows
  <2>1. /\ writing' = [writing EXCEPT ![w] = o] /\ writing[w] = 0
        /\ changed' = [changed EXCEPT ![t] = [changed[t] EXCEPT ![o] = now']]
        /\ now' \in {now, now + 1}
        /\ UNCHANGED <<index, rebuild, rebuilds, stale>>
    BY <1>1 DEF Write
  <2>2. /\ \A u \in Tables, p \in IndexedOrders \ {o} : changed'[u][p] = changed[u][p]
        /\ changed'[t][o] = now' /\ \A u \in Tables \ {t} : changed'[u][o] = changed[u][o]
    BY <2>1 DEF IndexTypes
  <2>3. Awaited(o)' /\ \A p \in IndexedOrders : Awaited(p) => Awaited(p)'
    <3>1. Awaited(o)'
      BY <2>1 DEF Awaited, IndexTypes
    <3>2. ASSUME NEW p \in IndexedOrders, NEW v \in Writers, writing[v] = p PROVE writing'[v] = p
      BY <2>1, <3>2 DEF IndexTypes
    <3> QED BY <3>1, <3>2 DEF Awaited
  <2>4. \A p \in IndexedOrders \ {o} : LastChange(p)' = LastChange(p)
    <3> SUFFICES ASSUME NEW p \in IndexedOrders \ {o} PROVE LastChange(p)' = LastChange(p)
      OBVIOUS
    <3>1. changed'["invoice"][p] = changed["invoice"][p] /\ changed'["payout"][p] = changed["payout"][p]
      BY <2>2 DEF Tables
    <3> QED BY <3>1, Latest, LatestNext
  <2>5. now \in Nat /\ now <= now' /\ index[o] \in Nat
    BY <2>1 DEF IndexTypes
  <2>6. \A u \in Tables : changed'[u][o] <= now' /\ LastChange(o)' >= changed'[u][o]
    <3> SUFFICES ASSUME NEW u \in Tables
                 PROVE  changed'[u][o] <= now' /\ LastChange(o)' >= changed'[u][o]
      OBVIOUS
    <3>1. u = "invoice" \/ u = "payout"
      BY DEF Tables
    <3>2. LastChange(o)' >= changed'[u][o]
      BY <3>1, LatestNext
    <3>3. changed[u][o] <= now /\ changed[u][o] \in Nat
      BY <3>1, Latest DEF IndexInv, IndexFollows
    <3>4. changed'[u][o] = now' \/ changed'[u][o] = changed[u][o]
      BY <2>2
    <3>5. now' \in Nat
      BY <2>1, <2>5
    <3> QED BY <2>5, <3>2, <3>3, <3>4, <3>5
  <2>7. index'[o] <= LastChange(o)'
    <3>1. index[o] <= now
      <4>1. /\ changed["invoice"][o] <= now /\ changed["payout"][o] <= now
            /\ index[o] <= LastChange(o)
        BY DEF IndexInv, IndexFollows, Tables
      <4>2. LastChange(o) = changed["invoice"][o] \/ LastChange(o) = changed["payout"][o]
        BY Latest
      <4>3. LastChange(o) \in Nat
        BY Latest
      <4> QED BY <2>5, <4>1, <4>2, <4>3
    <3> QED BY <3>1, <2>1, <2>2, <2>5, <2>6, LatestNext
  <2>8. IndexFollows'
    BY <2>1, <2>2, <2>4, <2>5, <2>6, <2>7, Latest DEF IndexInv, IndexFollows, IndexTypes, Tables
  <2>9. IndexCatchesUp'
    <3> SUFFICES ASSUME NEW p \in IndexedOrders, ~Awaited(p)', p \notin stale'
                 PROVE  /\ rebuild' = "none" => index'[p] = LastChange(p)'
                        /\ rebuild' = "payout" => changed'["invoice"][p] <= index'[p]
      BY DEF IndexCatchesUp
    <3>1. p # o /\ ~Awaited(p) /\ p \notin stale
      BY <2>1, <2>3
    <3> QED BY <2>1, <2>2, <2>4, <3>1 DEF IndexInv, IndexCatchesUp, Tables
  <2>10. WrittenIsFinite'
    <3>1. Written' \subseteq Written \cup {o}
      BY <2>4 DEF Written
    <3> QED BY <3>1, FS_AddElement, FS_Subset DEF WrittenIsFinite
  <2>11. IndexGrows
    BY <2>1 DEF IndexGrows, IndexTypes
  <2> QED BY <2>8, <2>9, <2>10, <2>11 DEF IndexInv
<1>2. ASSUME NEW w \in Writers, Refresh(w) \/ RefreshFails(w)
      PROVE  IndexInv' /\ WrittenIsFinite' /\ IndexGrows
  <2> DEFINE o == writing[w]
  <2>1. /\ o \in IndexedOrders /\ UNCHANGED <<changed, now, rebuild>>
        /\ writing' = [writing EXCEPT ![w] = 0]
        /\ \/ index' = [index EXCEPT ![o] = LastChange(o)] /\ stale' = stale \ {o}
           \/ index' = index /\ stale' = stale \cup {o}
    BY <1>2 DEF Refresh, RefreshFrom, RefreshFails, IndexTypes
  <2> HIDE DEF o
  <2>2. /\ \A p \in IndexedOrders : LastChange(p)' = LastChange(p)
        /\ \A p \in IndexedOrders \ {o} : Awaited(p) => Awaited(p)'
    <3>1. \A p \in IndexedOrders : LastChange(p)' = LastChange(p)
      BY <2>1 DEF LastChange
    <3>2. ASSUME NEW p \in IndexedOrders \ {o}, NEW v \in Writers, writing[v] = p
          PROVE  writing'[v] = p
      BY <2>1, <3>2 DEF o, IndexTypes
    <3> QED BY <3>1, <3>2 DEF Awaited
  <2>3. WrittenIsFinite'
    BY <2>2 DEF WrittenIsFinite, Written
  <2>4. ASSUME NEW p \in IndexedOrders
        PROVE  /\ p # o => index'[p] = index[p] /\ (p \in stale' <=> p \in stale)
               /\ p = o => \/ index'[p] = LastChange(p)
                           \/ index'[p] = index[p] /\ p \in stale'
               /\ index[p] <= LastChange(p) /\ index[p] \in Nat /\ LastChange(p) \in Nat
    BY <2>1, Latest DEF IndexTypes, IndexInv, IndexFollows
  <2>5. IndexFollows' /\ IndexGrows
    BY <2>1, <2>2, <2>4 DEF IndexInv, IndexFollows, IndexGrows
  <2>6. IndexCatchesUp'
    <3> SUFFICES ASSUME NEW p \in IndexedOrders, ~Awaited(p)', p \notin stale'
                 PROVE  /\ rebuild' = "none" => index'[p] = LastChange(p)'
                        /\ rebuild' = "payout" => changed'["invoice"][p] <= index'[p]
      BY DEF IndexCatchesUp
    <3>1. CASE p = o
      BY <3>1, <2>1, <2>2, <2>4, Latest
    <3>2. CASE p # o
      BY <3>2, <2>1, <2>2, <2>4 DEF IndexInv, IndexCatchesUp
    <3> QED BY <3>1, <3>2
  <2> QED BY <2>3, <2>5, <2>6 DEF IndexInv
<1>3. CASE RebuildDelete
  <2>1. /\ index' = [o \in IndexedOrders |-> 0] /\ rebuild = "none" /\ rebuild' = "invoice"
        /\ UNCHANGED tableVars
    BY <1>3 DEF RebuildDelete, tableVars
  <2> QED BY <2>1, SameTables, Latest
          DEF IndexInv, IndexFollows, IndexCatchesUp, IndexGrows
<1>4. CASE RebuildInsert
  <2>1. /\ \A o \in IndexedOrders : index'[o] = Max({changed[rebuild][o], index[o]})
        /\ rebuild # "none" /\ rebuild' = IF rebuild = "invoice" THEN "payout" ELSE "none"
        /\ stale' = IF rebuild = "invoice" THEN {} ELSE stale
        /\ UNCHANGED tableVars
    BY <1>4 DEF RebuildInsert, InsertGreatest, tableVars
  <2>2. UNCHANGED changed
    BY <2>1 DEF tableVars
  <2>3. ASSUME NEW o \in IndexedOrders
        PROVE  /\ index[o] \in Nat /\ changed[rebuild][o] \in Nat
               /\ index'[o] = IF changed[rebuild][o] >= index[o] THEN changed[rebuild][o] ELSE index[o]
               /\ index[o] <= LastChange(o) /\ changed[rebuild][o] <= LastChange(o)
    <3>1. rebuild = "invoice" \/ rebuild = "payout"
      BY <2>1 DEF IndexTypes
    <3>2. index[o] \in Nat /\ changed[rebuild][o] \in Nat
      BY <3>1, Latest DEF IndexTypes
    <3>3. changed[rebuild][o] <= LastChange(o)
      <4>1. LastChange(o) >= changed["invoice"][o] /\ LastChange(o) >= changed["payout"][o]
        BY Latest
      <4> QED BY <3>1, <3>2, <4>1, Latest
    <3>4. index[o] <= LastChange(o)
      BY DEF IndexInv, IndexFollows
    <3> HIDE DEF IndexInv
    <3> QED BY <2>1, <3>2, <3>3, <3>4, MaxOfTwo
  <2>4. IndexFollows'
    BY <2>1, <2>3, SameTables, Latest DEF IndexInv, IndexFollows
  <2>5. IndexCatchesUp'
    <3> SUFFICES ASSUME NEW p \in IndexedOrders, ~Awaited(p)', p \notin stale'
                 PROVE  /\ rebuild' = "none" => index'[p] = LastChange(p)'
                        /\ rebuild' = "payout" => changed'["invoice"][p] <= index'[p]
      BY DEF IndexCatchesUp
    <3>1. CASE rebuild = "invoice"
      BY <3>1, <2>1, <2>2, <2>3
    <3>2. CASE rebuild = "payout"
      <4>1. ~Awaited(p) /\ p \notin stale
        BY <2>1, <3>2, SameTables DEF IndexInv
      <4>2. changed["invoice"][p] <= index[p]
        BY <3>2, <4>1 DEF IndexInv, IndexCatchesUp
      <4>3. LastChange(p)' = LastChange(p)
        BY <2>1, SameTables DEF IndexInv
      <4>4. /\ changed["invoice"][p] \in Nat /\ changed["payout"][p] \in Nat
            /\ LastChange(p) = IF changed["invoice"][p] >= changed["payout"][p]
                               THEN changed["invoice"][p] ELSE changed["payout"][p]
        BY Latest
      <4>5. index'[p] = IF changed["payout"][p] >= index[p] THEN changed["payout"][p] ELSE index[p]
        BY <3>2, <2>3
      <4>6. index[p] \in Nat /\ index[p] <= LastChange(p)
        BY <2>3
      <4>7. index'[p] = LastChange(p)
        BY <4>2, <4>4, <4>5, <4>6
      <4> QED BY <3>2, <4>3, <4>7, <2>1
    <3> QED BY <3>1, <3>2, <2>1 DEF IndexTypes
  <2> QED BY <2>1, <2>4, <2>5, SameTables DEF IndexInv, IndexGrows
<1>5. CASE RebuildFails
  <2>1. index' = index /\ rebuild # "none" /\ stale' = IndexedOrders /\ UNCHANGED tableVars
    BY <1>5 DEF RebuildFails, tableVars
  <2> QED BY <2>1, SameTables DEF IndexInv, IndexFollows, IndexCatchesUp, IndexGrows
<1>6. CASE Restart
  <2>1. index' = index /\ rebuild' = "invoice" /\ UNCHANGED tableVars
    BY <1>6 DEF Restart, tableVars
  <2> QED BY <2>1, SameTables DEF IndexInv, IndexFollows, IndexCatchesUp, IndexGrows
<1> QED BY <1>1, <1>2, <1>3, <1>4, <1>5, <1>6 DEF IndexStep

(* What a client is owed lies behind its cursor.  Without a rebuild nothing*)
(* it was shown does, because times only grow.                             *)
ScanInOrder ==
  /\ scan.on => scan.owed \subseteq Remaining(scan.after)
  /\ scan.on /\ ~scan.shaken =>
       /\ rebuild = "none"
       /\ \A o \in scan.listed :
            scan.after # <<0, 0>> /\ ~Precedes(SortKey(o), scan.after)

(* Changes beside a scan keep it faithful.                                 *)
LEMMA TableStepKeepsScan ==
  ASSUME IndexTypes, IndexTypes', IndexGrows, ScanInOrder, ScanIsFaithful, Watch
  PROVE  ScanInOrder' /\ ScanIsFaithful'
<1>1. scan \in Scans /\ scan' \in Scans
  BY DEF IndexTypes
<1>2. CASE ~scan.on
  <2>1. scan' = scan
    BY <1>2, WatchEffect
  <2> QED BY <1>2, <2>1 DEF ScanInOrder, ScanIsFaithful
<1>3. CASE scan.on
  <2>1. /\ scan'.on /\ scan'.after = scan.after /\ scan'.listed = scan.listed
        /\ scan'.twice = scan.twice /\ scan'.owed \subseteq scan.owed
        /\ \A o \in scan'.owed : index'[o] = index[o] /\ o \in passing'
        /\ scan'.shaken = (scan.shaken \/ rebuild' # "none")
    BY <1>3, WatchEffect
  <2>2. scan'.owed \subseteq Remaining(scan.after)'
    BY <1>3, <2>1 DEF ScanInOrder, Remaining, SortKey
  <2>3. ASSUME ~scan'.shaken
        PROVE  /\ rebuild' = "none" /\ ~scan.shaken
               /\ \A o \in scan.listed : scan.after # <<0, 0>> /\ ~Precedes(SortKey(o)', scan.after)
    <3>1. rebuild' = "none" /\ ~scan.shaken
      BY <2>1, <2>3
    <3>2. ASSUME NEW o \in scan.listed
          PROVE  scan.after # <<0, 0>> /\ ~Precedes(SortKey(o)', scan.after)
      <4>1. rebuild = "none" /\ scan.after # <<0, 0>> /\ ~Precedes(SortKey(o), scan.after)
        BY <1>3, <3>1 DEF ScanInOrder
      <4>2. o \in IndexedOrders /\ scan.after \in Nat \X Nat
        BY <1>1 DEF Scans
      <4>3. index[o] <= index'[o] /\ index[o] \in Nat /\ index'[o] \in Nat /\ o \in Nat
        BY <3>1, <4>1, <4>2, IndexAssumption DEF IndexGrows, IndexTypes
      <4> QED BY <4>1, <4>2, <4>3 DEF Precedes, SortKey
    <3> QED BY <3>1, <3>2
  <2> QED BY <1>3, <2>1, <2>2, <2>3 DEF ScanInOrder, ScanIsFaithful, Precedes, SortKey
<1> QED BY <1>2, <1>3

(* So does the next page.                                                  *)
LEMMA PageKeepsScan ==
  ASSUME IndexTypes, IndexFollows, WrittenIsFinite, ScanInOrder, ScanIsFaithful, ScanPage
  PROVE  ScanInOrder' /\ ScanIsFaithful'
<1> DEFINE rest == Remaining(scan.after)
           page == FirstOf(rest)
           last == CHOOSE o \in page : \A p \in page : ~Precedes(SortKey(p), SortKey(o))
<1>1. /\ scan.on
      /\ scan' = [scan EXCEPT !.owed = @ \ page, !.listed = @ \cup page,
                              !.twice = @ \cup (scan.listed \cap page),
                              !.after = IF rest = page THEN @ ELSE SortKey(last),
                              !.on = rest # page]
  BY DEF ScanPage
<1>2. UNCHANGED <<passing, index, rebuild>>
  BY DEF ScanPage, indexVars, tableVars
<1>3. rest \subseteq IndexedOrders /\ page \subseteq rest
  BY RemainingIsFinite DEF FirstOf
<1>4. rest # page =>
        /\ last \in page
        /\ \A p \in page : ~Precedes(SortKey(p), SortKey(last))
        /\ \A o \in rest \ page : Precedes(SortKey(o), SortKey(last))
  BY RemainingIsFinite, PageIsFirst
<1>5. \A o \in rest : o \in passing /\ index[o] > 0
                      /\ (scan.after # <<0, 0>> => Precedes(SortKey(o), scan.after))
  BY DEF Remaining
<1>6. scan.owed \subseteq rest
  BY <1>1 DEF ScanInOrder
<1> HIDE DEF rest, page, last
<1>7. scan \in Scans
  BY DEF IndexTypes
<1>8. /\ scan'.owed = scan.owed \ page /\ scan'.listed = scan.listed \cup page
      /\ scan'.twice = scan.twice \cup (scan.listed \cap page)
      /\ scan'.on = (rest # page) /\ scan'.shaken = scan.shaken
      /\ rest # page => scan'.after = SortKey(last)
  BY <1>1, <1>7 DEF Scans
<1>9. scan'.on => scan'.owed \subseteq Remaining(scan.after)'
  <2> SUFFICES ASSUME scan'.on, NEW o \in scan'.owed
               PROVE  o \in passing' /\ index'[o] > 0 /\ Precedes(SortKey(o)', scan'.after)
    BY DEF Remaining
  <2>1. o \in rest \ page
    BY <1>6, <1>8
  <2>2. SortKey(o)' = SortKey(o)
    BY <1>2 DEF SortKey
  <2> QED BY <1>2, <1>4, <1>5, <1>8, <2>1, <2>2
<1>10. ASSUME ~scan.shaken
       PROVE  /\ rebuild = "none"
              /\ \A o \in scan.listed : o \notin page
              /\ scan'.on => \A o \in scan'.listed :
                   scan'.after # <<0, 0>> /\ ~Precedes(SortKey(o)', scan'.after)
  <2>1. rebuild = "none" /\ \A o \in scan.listed :
          scan.after # <<0, 0>> /\ ~Precedes(SortKey(o), scan.after)
    BY <1>1, <1>10 DEF ScanInOrder
  <2>2. \A o \in scan.listed : o \notin page
    BY <1>3, <1>5, <2>1
  <2>3. ASSUME scan'.on, NEW o \in scan'.listed
        PROVE  scan'.after # <<0, 0>> /\ ~Precedes(SortKey(o)', scan'.after)
    <3>1. scan'.after = SortKey(last) /\ SortKey(o)' = SortKey(o) /\ last \in page
      BY <1>2, <1>4, <1>8, <2>3 DEF SortKey
    <3>2. last \in IndexedOrders /\ o \in IndexedOrders
      BY <1>3, <1>7, <1>8, <3>1 DEF Scans
    <3>3. SortKey(last) # <<0, 0>>
      BY <3>2, PrecedesIsStrict
    <3>4. CASE o \in page
      BY <1>4, <1>8, <2>3, <3>1, <3>3, <3>4
    <3>5. CASE o \notin page
      <4>1. scan.after # <<0, 0>> /\ ~Precedes(SortKey(o), scan.after)
        BY <1>8, <2>1, <2>3, <3>5
      <4>2. Precedes(SortKey(last), scan.after) /\ scan.after \in Nat \X Nat
        BY <1>3, <1>5, <1>7, <3>1, <4>1 DEF Scans
      <4> QED BY <3>1, <3>2, <3>3, <4>1, <4>2, PrecedesIsStrict
    <3> QED BY <3>4, <3>5
  <2> QED BY <2>1, <2>2, <2>3
<1>11. ScanIsFaithful'
  <2>1. ~scan'.on => scan'.owed = {}
    BY <1>6, <1>8
  <2>2. ~scan'.shaken => scan'.twice = {}
    BY <1>8, <1>10 DEF ScanIsFaithful
  <2> QED BY <2>1, <2>2 DEF ScanIsFaithful
<1> QED BY <1>2, <1>8, <1>9, <1>10, <1>11 DEF ScanInOrder, Precedes, SortKey

OrdersInv == IndexTypes /\ IndexInv /\ WrittenIsFinite /\ ScanInOrder /\ ScanIsFaithful

(* Every step keeps the invariant.                                         *)
LEMMA OrdersStep == OrdersInv /\ [OrdersNext]_orderVars => OrdersInv'
<1> SUFFICES ASSUME OrdersInv, [OrdersNext]_orderVars PROVE OrdersInv'
  OBVIOUS
<1>1. IndexTypes /\ IndexTypes' /\ IndexInv /\ WrittenIsFinite /\ ScanInOrder /\ ScanIsFaithful
  BY IndexStepTypes DEF OrdersInv, IndexInv
<1>2. CASE IndexStep /\ Watch
  BY <1>1, <1>2, IndexStepKeeps, TableStepKeepsScan DEF OrdersInv
<1>3. UNCHANGED indexVars => IndexInv' /\ WrittenIsFinite'
  BY <1>1, SameTables
  DEF indexVars, tableVars, IndexInv, IndexFollows, IndexCatchesUp, WrittenIsFinite, Written
<1>4. CASE ScanStart
  <2>1. /\ scan' = [NoScan EXCEPT !.on = TRUE, !.owed = Remaining(<<0, 0>>), !.shaken = rebuild # "none"]
        /\ UNCHANGED indexVars
    BY <1>4 DEF ScanStart
  <2>2. /\ scan'.on /\ scan'.owed = Remaining(<<0, 0>>) /\ scan'.after = <<0, 0>>
        /\ scan'.listed = {} /\ scan'.twice = {} /\ scan'.shaken = (rebuild # "none")
    BY <2>1 DEF NoScan
  <2>3. UNCHANGED <<passing, index, rebuild>>
    BY <2>1 DEF indexVars, tableVars
  <2>4. Remaining(<<0, 0>>)' = Remaining(<<0, 0>>)
    BY <2>3 DEF Remaining, SortKey
  <2> QED BY <1>1, <1>3, <2>1, <2>2, <2>3, <2>4 DEF OrdersInv, ScanInOrder, ScanIsFaithful
<1>5. CASE ScanPage
  BY <1>1, <1>3, <1>5, PageKeepsScan DEF OrdersInv, IndexInv, ScanPage
<1>6. CASE ScanEnd
  <2>1. scan' = NoScan /\ UNCHANGED indexVars
    BY <1>6 DEF ScanEnd
  <2> QED BY <1>1, <1>3, <2>1 DEF OrdersInv, ScanInOrder, ScanIsFaithful, NoScan
<1>7. CASE UNCHANGED orderVars
  <2>1. UNCHANGED <<scan, indexVars>> /\ UNCHANGED <<passing, index, rebuild>>
    BY <1>7 DEF orderVars, indexVars, tableVars
  <2> QED BY <1>1, <1>3, <2>1 DEF OrdersInv, ScanInOrder, ScanIsFaithful, Remaining, SortKey
<1> QED BY <1>2, <1>4, <1>5, <1>6, <1>7 DEF OrdersNext, IndexStep

(* It holds of empty tables.                                               *)
LEMMA OrdersBegin == IndexInit => OrdersInv
<1> SUFFICES ASSUME IndexInit PROVE OrdersInv
  OBVIOUS
<1>1. scan \in Scans /\ ~scan.on /\ scan.owed = {} /\ scan.twice = {}
  BY DEF IndexInit, NoScan, Scans
<1>2. IndexTypes
  BY <1>1 DEF IndexInit, IndexTypes, Tables
<1>3. \A o \in IndexedOrders : LastChange(o) = 0 /\ index[o] = 0
  BY <1>2, Latest DEF IndexInit, Tables
<1>4. IndexInv
  BY <1>2, <1>3 DEF IndexInit, IndexInv, IndexFollows, IndexCatchesUp
<1>5. WrittenIsFinite
  <2>1. Written = {}
    BY <1>3 DEF Written
  <2> QED BY <2>1, FS_EmptySet DEF WrittenIsFinite
<1> QED BY <1>1, <1>2, <1>4, <1>5 DEF OrdersInv, ScanInOrder, ScanIsFaithful

(* With nothing under way the index has the last change of every order, in *)
(* whatever order refreshes and a rebuild read and wrote, unless one of    *)
(* them failed.  (refreshOrderIndexForExternalID, RebuildOrderIndex)       *)
THEOREM IndexCatchesUpAlways == OrdersSpec => []IndexIsCurrent
<1>1. OrdersInv => IndexIsCurrent
  BY IndexAssumption DEF OrdersInv, IndexInv, IndexCatchesUp, IndexIsCurrent, Awaited
<1> QED BY <1>1, OrdersBegin, OrdersStep, PTL DEF OrdersSpec

(* A client that follows the cursor sees every order that was not changed  *)
(* meanwhile, and none twice unless the index was rebuilt, for any times   *)
(* of the orders.  (ListOrderExternalIDRows)                               *)
THEOREM ScansAreFaithful == OrdersSpec => []ScanIsFaithful
BY OrdersBegin, OrdersStep, PTL DEF OrdersSpec, OrdersInv

-----------------------------------------------------------------------------
(***************************************************************************)
(* Autopayout: what a tick knows of the payouts before its own.            *)
(***************************************************************************)
Measurement(stages) ==
  [at : stages, row : Policies, due : Nat, seen : Nat, attempt : Int, amount : Int, reserve : Int]
Ticks ==
  {Waiting} \cup [at : {"wallet"}, row : Policies, last : Int]
  \cup [at : {"asking"}, row : Policies, due : Nat] \cup [at : {"created"}, payout : Nat]
  \cup Measurement({"measured", "attempted"})
SentPayout ==
  [by : Measurement({"attempted"}) \cup {<<>>}, amount : Int, status : {"IN_PROGRESS", "FAIL"},
   task : {"none", "waiting", "landed", "refused"}, before : Int, left : Int]

AutopayoutTypes ==
  /\ wallet \in Policies /\ lastAttempt \in Int /\ clock \in Nat /\ funds \in Int /\ landings \in Nat
  /\ tick \in Ticks
  /\ sent \in Seq(SentPayout)

(* A measurement is older than every landing after it, and until another   *)
(* transfer lands the balance still covers its amount and its reserve.     *)
StillCovered(m) == m.seen <= landings /\ (m.seen = landings => funds >= m.amount + m.reserve)

MeasurementsHold ==
  /\ tick.at \in {"measured", "attempted"} => StillCovered(tick)
  /\ \A i \in Automatic : StillCovered(sent[i].by) /\ sent[i].amount = sent[i].by.amount

(* Every attempt of an automatic payout is recorded, in the wallet's row   *)
(* and in the copy of it that a tick has loaded.                           *)
AttemptsAreRecorded ==
  /\ lastAttempt <= clock
  /\ tick.at = "attempted" => tick.attempt \in 0..lastAttempt
  /\ \A i \in Automatic :
       /\ sent[i].by.attempt \in 0..lastAttempt
       /\ tick.at = "wallet" => sent[i].by.attempt <= tick.last

(* A tick that found its wallet due waited for the interval.               *)
Waited(m, i) ==
  m.row.policy = "scheduled" /\ m.row.cond > 0 => sent[i].by.attempt + m.row.cond < m.due

TicksWaited ==
  tick.at \in {"asking", "measured", "attempted"} => \A i \in Automatic : Waited(tick, i)

AutopayoutInv ==
  /\ MeasurementsHold /\ AttemptsAreRecorded /\ TicksWaited /\ AutopayoutsAreMeasured

(* Payouts sent are a sequence; automatic ones were attempted.             *)
LEMMA SentPayouts ==
  ASSUME AutopayoutTypes
  PROVE  /\ Len(sent) \in Nat /\ DOMAIN sent = 1..Len(sent)
         /\ \A i \in 1..Len(sent) : sent[i] \in SentPayout
         /\ \A i \in Automatic : i \in 1..Len(sent) /\ sent[i].by \in Measurement({"attempted"})
<1>1. /\ Len(sent) \in Nat /\ DOMAIN sent = 1..Len(sent)
      /\ \A i \in 1..Len(sent) : sent[i] \in SentPayout
  BY LenProperties, ElementOfSeq DEF AutopayoutTypes
<1> QED BY <1>1 DEF Automatic, SentPayout

(* A payout that lands is still one that was sent.                         *)
LEMMA LandedPayout ==
  ASSUME NEW row \in SentPayout, NEW left \in Int, NEW before \in Int
  PROVE  [row EXCEPT !.task = "landed", !.left = left, !.before = before] \in SentPayout
BY DEF SentPayout

(* The amount and the reserve of a policy make up the balance.             *)
LEMMA Amounts ==
  ASSUME NEW row \in Policies, NEW balance \in Int
  PROVE  /\ Reserve(row, balance) \in Int /\ autopayoutAmount(row, balance) \in Int
         /\ balance = autopayoutAmount(row, balance) + Reserve(row, balance)
<1>1. row.presamount \in Int
  BY PoliciesAssumption
<1>2. (balance * (100 - row.presamount)) \div 100 \in Int
  BY <1>1
<1>3. Reserve(row, balance) \in Int
  BY <1>1, <1>2 DEF Reserve
<1> QED BY <1>3 DEF autopayoutAmount

(* Steps that neither send nor move funds keep what is known of payouts.   *)
LEMMA SameSent ==
  ASSUME AutopayoutTypes, AutopayoutInv, UNCHANGED <<funds, sent, landings>>,
         lastAttempt' \in Int, lastAttempt <= lastAttempt'
  PROVE  /\ Automatic' = Automatic
         /\ \A i \in Automatic : /\ StillCovered(sent[i].by)' /\ sent'[i].amount = sent'[i].by.amount
                                 /\ sent'[i].by.attempt \in 0..lastAttempt'
         /\ AutopayoutsAreMeasured'
<1>1. Automatic' = Automatic
  BY DEF Automatic
<1>2. AutopayoutsAreMeasured'
  BY <1>1 DEF AutopayoutsAreMeasured, AutopayoutInv
<1>3. ASSUME NEW i \in Automatic
      PROVE  /\ StillCovered(sent[i].by)' /\ sent'[i].amount = sent'[i].by.amount
             /\ sent'[i].by.attempt \in 0..lastAttempt'
  BY <1>3, SentPayouts
     DEF AutopayoutInv, MeasurementsHold, AttemptsAreRecorded, StillCovered, AutopayoutTypes, Measurement
<1> QED BY <1>1, <1>2, <1>3

(* Without a tick at work there is nothing to know of it.                  *)
LEMMA TickRests ==
  ASSUME AutopayoutTypes, AutopayoutInv, UNCHANGED <<clock, funds, sent, landings, lastAttempt>>,
         tick' = Waiting
  PROVE  AutopayoutInv'
BY SameSent DEF AutopayoutInv, MeasurementsHold, AttemptsAreRecorded, TicksWaited, Waiting,
                AutopayoutTypes

(* Every step keeps the types.                                             *)
LEMMA AutopayoutStepTypes ==
  AutopayoutTypes /\ [AutopayoutNext]_autopayoutVars => AutopayoutTypes'
<1> SUFFICES ASSUME AutopayoutTypes, [AutopayoutNext]_autopayoutVars PROVE AutopayoutTypes'
  OBVIOUS
<1> USE PoliciesAssumption DEF AutopayoutTypes
<1>1. CASE Load
  BY <1>1 DEF Load, Ticks
<1>2. CASE Consider
  <2>1. tick' = Waiting \/ tick' = [at |-> "asking", row |-> tick.row, due |-> clock]
    BY <1>2 DEF Consider
  <2>2. tick.row \in Policies
    BY <1>2 DEF Consider, Ticks, Waiting, Measurement
  <2> QED BY <1>2, <2>1, <2>2 DEF Consider, Ticks
<1>3. CASE BalanceFails
  BY <1>3 DEF BalanceFails, Ticks
<1>4. CASE Balance
  <2>1. tick.row \in Policies /\ tick.due \in Nat
    BY <1>4 DEF Balance, Ticks, Waiting, Measurement
  <2>2. \/ tick' = Waiting
        \/ tick' = [at |-> "measured", row |-> tick.row, due |-> tick.due, seen |-> landings,
                    attempt |-> Never, amount |-> autopayoutAmount(tick.row, funds),
                    reserve |-> Reserve(tick.row, funds)]
    BY <1>4 DEF Balance
  <2>3. tick' \in Ticks
    <3>1. autopayoutAmount(tick.row, funds) \in Int /\ Reserve(tick.row, funds) \in Int /\ Never \in Int
      <4>1. funds \in Int /\ tick.row \in Policies
        BY <2>1
      <4>2. autopayoutAmount(tick.row, funds) \in Int /\ Reserve(tick.row, funds) \in Int
        BY ONLY <4>1, Amounts
      <4> QED BY <4>2 DEF Never
    <3>2. CASE tick' # Waiting
      <4>1. tick' \in Measurement({"measured", "attempted"})
        BY <2>1, <2>2, <3>1, <3>2 DEF Measurement
      <4> QED BY <4>1 DEF Ticks
    <3> QED BY <3>2 DEF Ticks
  <2> QED BY <1>4, <2>3 DEF Balance
<1>5. CASE Attempt
  <2>1. tick \in Measurement({"measured", "attempted"})
    BY <1>5 DEF Attempt, Ticks, Waiting
  <2>2. [tick EXCEPT !.at = "attempted", !.attempt = clock] \in Measurement({"measured", "attempted"})
    <3>1. tick.at \in {"measured", "attempted"} /\ clock \in Int
      BY <2>1 DEF Measurement
    <3> QED BY <2>1, <3>1 DEF Measurement
  <2> QED BY <1>5, <2>2 DEF Attempt, Ticks
<1>6. CASE CreatePayout
  <2>1. tick \in Measurement({"attempted"})
    BY <1>6 DEF CreatePayout, Ticks, Waiting, Measurement
  <2>2. NewPayout(tick, tick.amount) \in SentPayout
    BY <2>1 DEF NewPayout, SentPayout, Measurement
  <2>3. Append(sent, NewPayout(tick, tick.amount)) \in Seq(SentPayout)
    BY <2>2, AppendProperties
  <2>4. Len(sent) + 1 \in Nat
    BY LenProperties
  <2>5. tick' \in Ticks
    BY <1>6, <2>4 DEF CreatePayout, Ticks
  <2>6. sent' \in Seq(SentPayout)
    BY <1>6, <2>3 DEF CreatePayout
  <2> QED BY <1>6, <2>5, <2>6 DEF CreatePayout
<1>7. CASE Payout
  <2>1. PICK task \in {"waiting", "none"}, fate \in {"IN_PROGRESS", "FAIL"} :
          sent' = [sent EXCEPT ![tick.payout].task = task, ![tick.payout].status = fate]
    BY <1>7 DEF Payout
  <2>2. ASSUME NEW i \in 1..Len(sent)
        PROVE  [sent[i] EXCEPT !.task = task, !.status = fate] \in SentPayout
    BY SentPayouts DEF SentPayout
  <2>3. sent' \in Seq(SentPayout)
    <3>1. CASE tick.payout \in 1..Len(sent)
      <4>1. sent' = [sent EXCEPT ![tick.payout] = [sent[tick.payout] EXCEPT !.task = task, !.status = fate]]
        BY <2>1
      <4>2. [sent[tick.payout] EXCEPT !.task = task, !.status = fate] \in SentPayout
        BY <3>1, <2>2
      <4> HIDE DEF SentPayout
      <4> QED BY <4>1, <4>2, <3>1, ExceptSeq
    <3>2. CASE tick.payout \notin 1..Len(sent)
      <4>1. sent' = sent
        BY <2>1, <3>2, SentPayouts
      <4> QED BY <4>1
    <3> QED BY <3>1, <3>2
  <2> QED BY <1>7, <2>3 DEF Payout, Ticks
<1>8. ASSUME NEW amount \in 1..MaxFunds, PayoutByHand(amount) PROVE AutopayoutTypes'
  <2>1. [NewPayout(<<>>, amount) EXCEPT !.task = "waiting"] \in SentPayout
    BY DEF NewPayout, SentPayout
  <2> QED BY <1>8, <2>1, AppendProperties DEF PayoutByHand
<1>9. ASSUME NEW i \in DOMAIN sent, Transfer(i) PROVE AutopayoutTypes'
  <2>1. i \in 1..Len(sent) /\ sent[i] \in SentPayout
    BY SentPayouts
  <2>2. sent[i].amount \in Int
    BY <2>1 DEF SentPayout
  <2>3. CASE sent[i].amount <= funds
    <3>1. /\ funds' = funds - sent[i].amount /\ landings' = landings + 1
          /\ sent' = [sent EXCEPT ![i] = [sent[i] EXCEPT !.task = "landed", !.left = funds', !.before = landings]]
      BY <1>9, <2>3 DEF Transfer
    <3>2. [sent[i] EXCEPT !.task = "landed", !.left = funds', !.before = landings] \in SentPayout
      <4>1. funds' \in Int
        BY <2>2, <3>1
      <4>2. landings \in Int /\ sent[i] \in SentPayout
        BY <2>1
      <4> HIDE DEF SentPayout
      <4> QED BY ONLY <4>1, <4>2, LandedPayout
    <3> QED BY <1>9, <2>1, <2>2, <3>1, <3>2, ExceptSeq DEF Transfer
  <2>4. CASE ~(sent[i].amount <= funds)
    <3>1. /\ UNCHANGED <<funds, landings>>
          /\ sent' = [sent EXCEPT ![i] = [sent[i] EXCEPT !.task = "refused"]]
      BY <1>9, <2>4 DEF Transfer
    <3>2. [sent[i] EXCEPT !.task = "refused"] \in SentPayout
      BY <2>1 DEF SentPayout
    <3> QED BY <1>9, <2>1, <3>1, <3>2, ExceptSeq DEF Transfer
  <2> QED BY <2>3, <2>4
<1>10. ASSUME NEW settings \in Policies, apiAutopayout(settings) PROVE AutopayoutTypes'
  BY <1>10 DEF apiAutopayout
<1>11. CASE Deposited
  BY <1>11 DEF Deposited
<1>12. CASE Minute
  BY <1>12 DEF Minute
<1>13. CASE RestartScheduler
  BY <1>13 DEF RestartScheduler, Ticks
<1>14. CASE UNCHANGED autopayoutVars
  BY <1>14 DEF autopayoutVars
<1> QED
  BY <1>1, <1>2, <1>3, <1>4, <1>5, <1>6, <1>7, <1>8, <1>9, <1>10, <1>11, <1>12, <1>13, <1>14
  DEF AutopayoutNext

(* A step that appends a payout adds it to the automatic ones if a         *)
(* measurement is behind it.                                               *)
LEMMA AppendedPayout ==
  ASSUME AutopayoutTypes, NEW row, sent' = Append(sent, row)
  PROVE  /\ \A i \in 1..Len(sent) : sent'[i] = sent[i]
         /\ sent'[Len(sent) + 1] = row
         /\ Automatic' = Automatic \cup (IF row.by # <<>> THEN {Len(sent) + 1} ELSE {})
<1>1. /\ DOMAIN sent' = 1..(Len(sent) + 1) /\ \A i \in 1..Len(sent) : sent'[i] = sent[i]
      /\ sent'[Len(sent) + 1] = row
  BY SentPayouts, AppendProperties DEF AutopayoutTypes
<1> QED BY <1>1, SentPayouts DEF Automatic

(* Every step keeps the invariant.                                         *)
LEMMA AutopayoutStep ==
  AutopayoutTypes /\ AutopayoutInv /\ [AutopayoutNext]_autopayoutVars => AutopayoutInv'
<1> SUFFICES ASSUME AutopayoutTypes, AutopayoutInv, [AutopayoutNext]_autopayoutVars
             PROVE  AutopayoutInv'
  OBVIOUS
<1>0. lastAttempt \in Int /\ clock \in Nat /\ funds \in Int /\ landings \in Nat
  BY DEF AutopayoutTypes
<1>1. CASE Load
  <2>1. /\ tick' = [at |-> "wallet", row |-> wallet, last |-> lastAttempt]
        /\ UNCHANGED <<lastAttempt, clock, funds, sent, landings>>
    BY <1>1 DEF Load
  <2> QED BY <2>1, <1>0, SameSent DEF AutopayoutInv, MeasurementsHold, AttemptsAreRecorded, TicksWaited
<1>2. CASE Consider
  <2>1. tick \in [at : {"wallet"}, row : Policies, last : Int]
    BY <1>2 DEF Consider, AutopayoutTypes, Ticks, Measurement, Waiting
  <2>2. UNCHANGED <<lastAttempt, clock, funds, sent, landings>>
    BY <1>2 DEF Consider
  <2>3. CASE tick' = Waiting
    BY <2>2, <2>3, TickRests
  <2>4. CASE /\ tick' = [at |-> "asking", row |-> tick.row, due |-> clock]
             /\ autopayoutDue(tick.row, tick.last, clock)
    <3>1. ASSUME NEW i \in Automatic PROVE Waited(tick, i)'
      <4> SUFFICES ASSUME tick.row.policy = "scheduled", tick.row.cond > 0
                   PROVE  sent[i].by.attempt + tick.row.cond < clock
        BY <2>2, <2>4 DEF Waited
      <4>1. sent[i].by.attempt \in 0..lastAttempt /\ sent[i].by.attempt <= tick.last
        BY <2>1 DEF AutopayoutInv, AttemptsAreRecorded
      <4>2. tick.last = Never \/ tick.last + tick.row.cond < clock
        BY <2>4, PoliciesAssumption, <2>1 DEF autopayoutDue
      <4>3. tick.row.cond \in Int /\ tick.last \in Int
        BY <2>1, PoliciesAssumption
      <4> QED BY <1>0, <4>1, <4>2, <4>3 DEF Never
    <3> QED BY <2>2, <2>4, <3>1, <1>0, SameSent
            DEF AutopayoutInv, MeasurementsHold, AttemptsAreRecorded, TicksWaited
  <2> QED BY <1>2, <2>3, <2>4 DEF Consider
<1>3. CASE BalanceFails
  BY <1>3, TickRests DEF BalanceFails
<1>4. CASE Balance
  <2>1. tick \in [at : {"asking"}, row : Policies, due : Nat]
    BY <1>4 DEF Balance, AutopayoutTypes, Ticks, Measurement, Waiting
  <2>2. UNCHANGED <<lastAttempt, clock, funds, sent, landings>>
    BY <1>4 DEF Balance
  <2>3. CASE tick' = Waiting
    BY <2>2, <2>3, TickRests
  <2>4. CASE tick' = [at |-> "measured", row |-> tick.row, due |-> tick.due, seen |-> landings,
                      attempt |-> Never, amount |-> autopayoutAmount(tick.row, funds),
                      reserve |-> Reserve(tick.row, funds)]
    <3>1. funds = autopayoutAmount(tick.row, funds) + Reserve(tick.row, funds)
      BY <1>0, <2>1, Amounts
    <3>2. StillCovered(tick)'
      BY <1>0, <2>1, <2>2, <2>4, <3>1, Amounts DEF StillCovered
    <3>3. \A i \in Automatic : Waited(tick, i)'
      BY <2>1, <2>2, <2>4 DEF AutopayoutInv, TicksWaited, Waited
    <3> QED BY <2>2, <2>4, <3>2, <3>3, <1>0, SameSent
            DEF AutopayoutInv, MeasurementsHold, AttemptsAreRecorded, TicksWaited
  <2> QED BY <1>4, <2>3, <2>4 DEF Balance
<1>5. CASE Attempt
  <2>1. tick \in Measurement({"measured"})
    BY <1>5 DEF Attempt, AutopayoutTypes, Ticks, Measurement, Waiting
  <2>2. UNCHANGED <<clock, funds, sent, landings>>
    BY <1>5 DEF Attempt
  <2>3. CASE tick' = Waiting /\ UNCHANGED lastAttempt
    BY <2>2, <2>3, TickRests
  <2>4. CASE /\ lastAttempt' = clock
             /\ tick' = [tick EXCEPT !.at = "attempted", !.attempt = clock]
    <3>1. /\ tick'.at = "attempted" /\ tick'.attempt = clock /\ tick'.row = tick.row
          /\ tick'.due = tick.due /\ tick'.seen = tick.seen /\ tick'.amount = tick.amount
          /\ tick'.reserve = tick.reserve
      BY <2>1, <2>4 DEF Measurement
    <3>2. StillCovered(tick)'
      BY <2>1, <2>2, <3>1 DEF AutopayoutInv, MeasurementsHold, StillCovered, Measurement
    <3>3. \A i \in Automatic : Waited(tick, i)'
      BY <2>1, <2>2, <3>1 DEF AutopayoutInv, TicksWaited, Waited, Measurement
    <3>4. lastAttempt <= lastAttempt'
      BY <2>4, <1>0 DEF AutopayoutInv, AttemptsAreRecorded
    <3> QED BY <1>0, <2>2, <2>4, <3>1, <3>2, <3>3, <3>4, SameSent
            DEF AutopayoutInv, MeasurementsHold, AttemptsAreRecorded, TicksWaited
  <2> QED BY <1>5, <2>3, <2>4 DEF Attempt
<1>6. CASE CreatePayout
  <2>1. tick \in Measurement({"attempted"})
    BY <1>6 DEF CreatePayout, AutopayoutTypes, Ticks, Measurement, Waiting
  <2>2. UNCHANGED <<lastAttempt, clock, funds, landings>>
    BY <1>6 DEF CreatePayout
  <2>3. CASE tick' = Waiting /\ UNCHANGED sent
    BY <2>2, <2>3, TickRests
  <2>4. CASE /\ sent' = Append(sent, NewPayout(tick, tick.amount))
             /\ tick' = [at |-> "created", payout |-> Len(sent) + 1]
    <3> DEFINE new == Len(sent) + 1
    <3>1. /\ \A i \in 1..Len(sent) : sent'[i] = sent[i]
          /\ sent'[new] = NewPayout(tick, tick.amount)
          /\ Automatic' \subseteq Automatic \cup {new}
      BY <2>4, AppendedPayout
    <3>2. Automatic \subseteq 1..Len(sent) /\ Len(sent) \in Nat
      BY SentPayouts
    <3>3. sent'[new].by = tick /\ sent'[new].amount = tick.amount /\ sent'[new].task = "none"
      BY <3>1 DEF NewPayout
    <3>4. StillCovered(tick) /\ tick.attempt \in 0..lastAttempt /\ \A i \in Automatic : Waited(tick, i)
      BY <2>1 DEF AutopayoutInv, MeasurementsHold, AttemptsAreRecorded, TicksWaited, Measurement
    <3> HIDE DEF new
    <3>5. MeasurementsHold'
      BY <2>2, <2>4, <3>1, <3>2, <3>3, <3>4 DEF AutopayoutInv, MeasurementsHold, StillCovered
    <3>6. AttemptsAreRecorded'
      BY <2>2, <2>4, <3>1, <3>2, <3>3, <3>4 DEF AutopayoutInv, AttemptsAreRecorded
    <3>7. AutopayoutsAreMeasured'
      <4>1. ASSUME NEW j \in Automatic', NEW i \in Automatic', i < j,
                   sent'[j].by.row.policy = "scheduled", sent'[j].by.row.cond > 0
            PROVE  sent'[i].by.attempt + sent'[j].by.row.cond < sent'[j].by.due
        <5>1. CASE j = new
          BY <4>1, <5>1, <3>1, <3>2, <3>3, <3>4 DEF Waited
        <5>2. CASE j # new
          <6>1. j \in Automatic /\ i \in 1..Len(sent) /\ j \in 1..Len(sent)
            BY <4>1, <5>2, <3>1, <3>2 DEF new
          <6>2. i \in Automatic
            BY <4>1, <6>1, <3>1, <3>2 DEF new
          <6>3. sent'[i] = sent[i] /\ sent'[j] = sent[j]
            BY <6>1, <3>1
          <6> QED BY <4>1, <6>1, <6>2, <6>3 DEF AutopayoutInv, AutopayoutsAreMeasured
        <5> QED BY <5>1, <5>2
      <4>2. ASSUME NEW i \in Automatic', sent'[i].task = "landed",
                   sent'[i].left < sent'[i].by.reserve
            PROVE  sent'[i].before > sent'[i].by.seen
        BY <4>2, <3>1, <3>2, <3>3 DEF AutopayoutInv, AutopayoutsAreMeasured
      <4> QED BY <4>1, <4>2 DEF AutopayoutsAreMeasured
    <3>8. TicksWaited'
      BY <2>4 DEF TicksWaited
    <3> QED BY <3>5, <3>6, <3>7, <3>8 DEF AutopayoutInv
  <2> QED BY <1>6, <2>3, <2>4 DEF CreatePayout
<1>7. CASE Payout
  <2>1. PICK task \in {"waiting", "none"}, fate \in {"IN_PROGRESS", "FAIL"} :
          sent' = [sent EXCEPT ![tick.payout].task = task, ![tick.payout].status = fate]
    BY <1>7 DEF Payout
  <2>2. UNCHANGED <<lastAttempt, clock, funds, landings>> /\ tick' = Waiting
    BY <1>7 DEF Payout
  <2>3. \A i \in 1..Len(sent) : sent[i] \in SentPayout
    BY SentPayouts
  <2>4. /\ DOMAIN sent' = DOMAIN sent
        /\ \A i \in DOMAIN sent : /\ sent'[i].by = sent[i].by /\ sent'[i].amount = sent[i].amount
                                  /\ sent'[i].before = sent[i].before /\ sent'[i].left = sent[i].left
                                  /\ sent'[i].task = "landed" => sent[i].task = "landed"
    <3>1. DOMAIN sent' = DOMAIN sent
      BY <2>1
    <3>2. ASSUME NEW i \in DOMAIN sent
          PROVE  sent'[i] = sent[i] \/ sent'[i] = [sent[i] EXCEPT !.task = task, !.status = fate]
      BY <2>1
    <3> SUFFICES ASSUME NEW i \in DOMAIN sent
                 PROVE  /\ sent'[i].by = sent[i].by /\ sent'[i].amount = sent[i].amount
                        /\ sent'[i].before = sent[i].before /\ sent'[i].left = sent[i].left
                        /\ sent'[i].task = "landed" => sent[i].task = "landed"
      BY <3>1
    <3>3. sent[i] \in SentPayout
      BY <2>3, SentPayouts
    <3> QED BY <3>2, <3>3 DEF SentPayout
  <2>5. Automatic' = Automatic
    BY <2>4 DEF Automatic
  <2>6. Automatic \subseteq DOMAIN sent
    BY DEF Automatic
  <2>7. MeasurementsHold' /\ AttemptsAreRecorded' /\ TicksWaited'
    BY <2>2, <2>4, <2>5, <2>6
    DEF AutopayoutInv, MeasurementsHold, AttemptsAreRecorded, TicksWaited, StillCovered, Waiting
  <2>8. AutopayoutsAreMeasured'
    BY <2>4, <2>5, <2>6 DEF AutopayoutInv, AutopayoutsAreMeasured
  <2> QED BY <2>7, <2>8 DEF AutopayoutInv
<1>8. ASSUME NEW amount \in 1..MaxFunds, PayoutByHand(amount) PROVE AutopayoutInv'
  <2> DEFINE row == [NewPayout(<<>>, amount) EXCEPT !.task = "waiting"]
  <2>1. sent' = Append(sent, row) /\ UNCHANGED <<lastAttempt, tick, clock, funds, landings>>
    BY <1>8 DEF PayoutByHand
  <2>2. row.by = <<>>
    BY DEF NewPayout
  <2> HIDE DEF row
  <2>3. Automatic' = Automatic /\ \A i \in Automatic : sent'[i] = sent[i]
    BY <2>1, <2>2, AppendedPayout, SentPayouts
  <2>4. MeasurementsHold' /\ AttemptsAreRecorded' /\ TicksWaited'
    BY <2>1, <2>3
    DEF AutopayoutInv, MeasurementsHold, AttemptsAreRecorded, TicksWaited, StillCovered, Waited
  <2>5. AutopayoutsAreMeasured'
    BY <2>3 DEF AutopayoutInv, AutopayoutsAreMeasured
  <2> QED BY <2>4, <2>5 DEF AutopayoutInv
<1>9. ASSUME NEW k \in DOMAIN sent, Transfer(k) PROVE AutopayoutInv'
  <2>1. k \in 1..Len(sent) /\ sent[k] \in SentPayout /\ DOMAIN sent = 1..Len(sent)
    BY SentPayouts
  <2>2. sent[k].amount \in Int /\ UNCHANGED <<lastAttempt, tick, clock>> /\ sent[k].task = "waiting"
    BY <1>9, <2>1 DEF SentPayout, Transfer
  <2>3. /\ landings <= landings' /\ landings' \in Nat /\ (landings' = landings => funds' = funds)
        /\ DOMAIN sent' = DOMAIN sent /\ \A i \in DOMAIN sent \ {k} : sent'[i] = sent[i]
        /\ sent'[k].by = sent[k].by /\ sent'[k].amount = sent[k].amount
        /\ sent'[k].task = "landed" =>
             sent'[k].left = funds - sent[k].amount /\ sent'[k].before = landings
    <3>1. CASE sent[k].amount <= funds
      BY <1>0, <1>9, <2>1, <3>1 DEF Transfer, SentPayout
    <3>2. CASE ~(sent[k].amount <= funds)
      BY <1>0, <1>9, <2>1, <3>2 DEF Transfer, SentPayout
    <3> QED BY <3>1, <3>2
  <2>4. Automatic' = Automatic /\ \A i \in Automatic : sent'[i].by = sent[i].by /\ sent'[i].amount = sent[i].amount
    BY <2>3 DEF Automatic
  <2>5. MeasurementsHold'
    <3>1. ASSUME NEW m, m.seen \in Nat, StillCovered(m) PROVE m.seen <= landings' /\ (m.seen = landings' => funds' >= m.amount + m.reserve)
      BY <3>1, <1>0, <2>3 DEF StillCovered
    <3>2. ASSUME NEW i \in Automatic PROVE StillCovered(sent[i].by)' /\ sent'[i].amount = sent'[i].by.amount
      <4>1. sent[i].by.seen \in Nat /\ StillCovered(sent[i].by) /\ sent[i].amount = sent[i].by.amount
        BY SentPayouts DEF AutopayoutInv, MeasurementsHold, Measurement
      <4> QED BY <3>1, <4>1, <2>4 DEF StillCovered
    <3>3. ASSUME tick.at \in {"measured", "attempted"} PROVE StillCovered(tick)'
      <4>1. tick.seen \in Nat /\ StillCovered(tick)
        BY <3>3 DEF AutopayoutInv, MeasurementsHold, Measurement, AutopayoutTypes, Ticks, Waiting
      <4> QED BY <3>1, <4>1, <2>2 DEF StillCovered
    <3> QED BY <3>2, <3>3, <2>2, <2>4 DEF MeasurementsHold
  <2>6. AttemptsAreRecorded' /\ TicksWaited'
    BY <2>2, <2>4 DEF AutopayoutInv, AttemptsAreRecorded, TicksWaited, Waited
  <2>7. AutopayoutsAreMeasured'
    <3>1. ASSUME NEW i \in Automatic, sent'[i].task = "landed", sent'[i].left < sent'[i].by.reserve
          PROVE  sent'[i].before > sent'[i].by.seen
      <4>1. CASE i # k
        BY <4>1, <3>1, <2>3 DEF AutopayoutInv, AutopayoutsAreMeasured, Automatic
      <4>2. CASE i = k
        <5>1. /\ StillCovered(sent[k].by) /\ sent[k].amount = sent[k].by.amount
              /\ sent[k].by.seen \in Nat /\ sent[k].by.reserve \in Int
          BY <4>2, SentPayouts DEF AutopayoutInv, MeasurementsHold, Measurement
        <5> QED BY <5>1, <4>2, <3>1, <2>2, <2>3, <1>0 DEF StillCovered
      <4> QED BY <4>1, <4>2
    <3> QED BY <3>1, <2>4 DEF AutopayoutInv, AutopayoutsAreMeasured
  <2> QED BY <2>5, <2>6, <2>7 DEF AutopayoutInv
<1>10. ASSUME NEW settings \in Policies, apiAutopayout(settings) PROVE AutopayoutInv'
  BY <1>10 DEF apiAutopayout, AutopayoutInv, MeasurementsHold, AttemptsAreRecorded, TicksWaited,
               AutopayoutsAreMeasured, Automatic, StillCovered, Waited
<1>11. CASE Deposited
  <2>1. /\ funds' \in Int /\ funds' > funds /\ UNCHANGED <<lastAttempt, tick, clock, sent, landings>>
    BY <1>11, <1>0, PoliciesAssumption DEF Deposited
  <2>2. Automatic' = Automatic
    BY <2>1 DEF Automatic
  <2>3. ASSUME NEW m, m.amount \in Int, m.reserve \in Int, StillCovered(m)
        PROVE  m.seen <= landings' /\ (m.seen = landings' => funds' >= m.amount + m.reserve)
    BY <2>1, <2>3, <1>0 DEF StillCovered
  <2>4. MeasurementsHold'
    <3>1. ASSUME NEW i \in Automatic PROVE StillCovered(sent[i].by)'
      <4>1. /\ sent[i].by.amount \in Int /\ sent[i].by.reserve \in Int /\ StillCovered(sent[i].by)
        BY SentPayouts DEF AutopayoutInv, MeasurementsHold, Measurement
      <4> QED BY <2>1, <2>3, <4>1 DEF StillCovered
    <3>2. ASSUME tick.at \in {"measured", "attempted"} PROVE StillCovered(tick)'
      <4>1. tick.amount \in Int /\ tick.reserve \in Int /\ StillCovered(tick)
        BY <3>2 DEF AutopayoutInv, MeasurementsHold, Measurement, AutopayoutTypes, Ticks, Waiting
      <4> QED BY <2>1, <2>3, <4>1 DEF StillCovered
    <3> QED BY <3>1, <3>2, <2>1, <2>2 DEF AutopayoutInv, MeasurementsHold
  <2> QED BY <2>1, <2>2, <2>4
          DEF AutopayoutInv, AttemptsAreRecorded, TicksWaited, Waited, AutopayoutsAreMeasured
<1>12. CASE Minute
  BY <1>12, <1>0 DEF Minute, AutopayoutInv, MeasurementsHold, AttemptsAreRecorded, TicksWaited,
               AutopayoutsAreMeasured, Automatic, StillCovered, Waited
<1>13. CASE RestartScheduler
  BY <1>13, TickRests DEF RestartScheduler
<1>14. CASE UNCHANGED autopayoutVars
  BY <1>14 DEF autopayoutVars, AutopayoutInv, MeasurementsHold, AttemptsAreRecorded, TicksWaited,
               AutopayoutsAreMeasured, Automatic, StillCovered, Waited
<1> QED
  BY <1>1, <1>2, <1>3, <1>4, <1>5, <1>6, <1>7, <1>8, <1>9, <1>10, <1>11, <1>12, <1>13, <1>14
  DEF AutopayoutNext

(* An automatic payout waits for its interval after every earlier one, and *)
(* one that leaves less than the reserve was overtaken by another that     *)
(* reached the chain after the balance was read.  (processAutopayouts,     *)
(* dispatchAutopayout)                                                     *)
THEOREM AutopayoutsWait == AutopayoutSpec => []AutopayoutsAreMeasured
<1>1. AutopayoutInit => AutopayoutTypes /\ AutopayoutInv
  <2> SUFFICES ASSUME AutopayoutInit PROVE AutopayoutTypes /\ AutopayoutInv
    OBVIOUS
  <2>1. Automatic = {} /\ sent \in Seq(SentPayout)
    BY EmptySeq DEF AutopayoutInit, Automatic
  <2> QED BY <2>1 DEF AutopayoutInit, AutopayoutTypes, AutopayoutInv, MeasurementsHold, Ticks,
                     AttemptsAreRecorded, TicksWaited, AutopayoutsAreMeasured, Waiting, Never
<1> QED BY <1>1, AutopayoutStepTypes, AutopayoutStep, PTL DEF AutopayoutSpec, AutopayoutInv

-----------------------------------------------------------------------------
EventStatuses == {"none", "PENDING", "IN_PROGRESS", "FAILED", "DELIVERED", "DEAD"}

PipelineTypes ==
  /\ status \in [Events -> EventStatuses]
  /\ calling \in [Dispatchers -> SUBSET Events]
  /\ marking \in [Dispatchers -> SUBSET [event : Events, ok : BOOLEAN]]
  /\ serves \in [Requests -> [by : Dispatchers, event : Events] \cup {NoCall}]

(* The transfers of an event are in the table.                             *)
IsRecorded(e) == \A t \in Transfers : t.tx = TxOf[e] => Key(t) \in table

(* A request that has left nothing out has recorded what it is through     *)
(* with.                                                                   *)
ServesFully(r) ==
  /\ pc[r] # "announce"
  /\ pc[r] \in {"credit", "clear", "recorded"} => Key(cur[r]) \in table
  /\ \A t \in Transfers : t.tx = TxOf[serves[r].event] => t \in todo[r] \/ Key(t) \in table

ServedIsRecorded ==
  \A r \in Requests \ slighted : serves[r] # NoCall => ServesFully(r)

Delivers(d, e) == [event |-> e, ok |-> TRUE] \in marking[d]

(* An event with a good answer, marked or still to be marked, is recorded. *)
AnsweredIsRecorded ==
  \A e \in Events \ excused :
    status[e] = "DELIVERED" \/ (\E d \in Dispatchers : Delivers(d, e)) => IsRecorded(e)

PipelineInv ==
  /\ TypeOK /\ Safety /\ PipelineTypes
  /\ ServedIsRecorded /\ AnsweredIsRecorded

-----------------------------------------------------------------------------
(* The ledger's side of a step is a step of the ledger.                    *)
LEMMA LedgerMoves ==
  ASSUME [PipelineNext]_pipelineVars
  PROVE  [Next]_vars
<1>1. ASSUME NEW d \in Dispatchers, NEW e \in Events, Call(d, e) PROVE [Next]_vars
  <2>1. ASSUME NEW r \in Requests, WalletNotify(r, TxOf[e]) PROVE Next
    BY <2>1, PipelineAssumption DEF Next, Start
  <2> QED BY <1>1, <2>1 DEF Call
<1>2. ASSUME NEW r \in Requests, AnswerCall(r) \/ Handle(r) PROVE [Next]_vars
  BY <1>2 DEF AnswerCall, Handle, Next, Proceed
<1>3. CASE Worker \/ CrashOfService \/ Confirmed \/ UNCHANGED pipelineVars
  BY <1>3 DEF Worker, CrashOfService, Confirmed, Next, pipelineVars
<1>4. ASSUME NEW d \in Dispatchers, NEW e \in Events, Ignored(d, e) PROVE [Next]_vars
  BY <1>4 DEF Ignored
<1> QED BY <1>1, <1>2, <1>3, <1>4 DEF PipelineNext

(* Rows are for ever.                                                      *)
LEMMA TableGrows ==
  ASSUME [Next]_vars
  PROVE  table \subseteq table'
<1>1. ASSUME NEW r \in Requests, InsertRow(r) PROVE table \subseteq table'
  BY <1>1 DEF InsertRow
<1> QED BY <1>1, RowsAreInserted

(* What is recorded of an event stays recorded.                            *)
LEMMA StaysRecorded ==
  ASSUME [PipelineNext]_pipelineVars, NEW e, IsRecorded(e)
  PROVE  IsRecorded(e)'
BY LedgerMoves, TableGrows DEF IsRecorded, Key

-----------------------------------------------------------------------------
(* The queue's side of a step.                                             *)
QueueStep ==
  \/ \E e \in Events : Queue!Insert(e) \/ Queue!Time(e)
  \/ \E d \in Dispatchers :
       \/ Queue!Claim(d) \/ Queue!ReadClaimed(d) \/ Queue!EndTick(d) \/ Queue!Stop(d)
       \/ \E e \in Events :
            \/ Queue!Notify(d, e) \/ Queue!NotAnswered(d, e) \/ Queue!Answered(d, e)
            \/ Queue!MarkDelivered(d, e) \/ Queue!MarkFailed(d, e) \/ Queue!MarkLost(d, e)
  \/ UNCHANGED queueVars

(* A step of the pipeline is one of the queue or leaves it alone.          *)
LEMMA QueueMoves ==
  ASSUME PipelineTypes, [PipelineNext]_pipelineVars
  PROVE  QueueStep
<1>1. ASSUME NEW r \in Requests, AnswerCall(r) PROVE QueueStep
  <2>1. CASE serves[r] = NoCall
    BY <1>1, <2>1 DEF AnswerCall, QueueStep
  <2>2. CASE serves[r] # NoCall
    <3>1. serves[r].by \in Dispatchers /\ serves[r].event \in Events
      BY <2>2 DEF PipelineTypes
    <3>2. Queue!Answered(serves[r].by, serves[r].event)
      BY <1>1, <2>2 DEF AnswerCall
    <3> QED BY <3>1, <3>2 DEF QueueStep
  <2> QED BY <2>1, <2>2
<1>2. ASSUME NEW r \in Requests, Handle(r) PROVE QueueStep
  BY <1>2 DEF Handle, QueueStep
<1>3. ASSUME NEW d \in Dispatchers, NEW e \in Events, Call(d, e) \/ Ignored(d, e) PROVE QueueStep
  BY <1>3 DEF Call, Ignored, QueueStep
<1>4. CASE Worker
  BY <1>4 DEF Worker, QueueStep
<1>5. CASE CrashOfService \/ Confirmed \/ UNCHANGED pipelineVars
  BY <1>5 DEF CrashOfService, Confirmed, pipelineVars, QueueStep
<1> QED BY <1>1, <1>2, <1>3, <1>4, <1>5 DEF PipelineNext

(* Steps of the queue keep its types.                                      *)
LEMMA QueueTypesStay ==
  ASSUME PipelineTypes, QueueStep
  PROVE  /\ status' \in [Events -> EventStatuses]
         /\ calling' \in [Dispatchers -> SUBSET Events]
         /\ marking' \in [Dispatchers -> SUBSET [event : Events, ok : BOOLEAN]]
<1> USE DEF PipelineTypes
<1>1. ASSUME NEW e \in Events, Queue!Insert(e) \/ Queue!Time(e)
      PROVE  status' \in [Events -> EventStatuses] /\ UNCHANGED <<calling, marking>>
  BY <1>1 DEF Queue!Insert, Queue!Time, Queue!BecomeDue, Queue!Expire, Queue!tickVars, EventStatuses
<1>2. ASSUME NEW d \in Dispatchers, Queue!Claim(d)
      PROVE  status' \in [Events -> EventStatuses] /\ UNCHANGED <<calling, marking>>
  BY <1>2 DEF Queue!Claim, EventStatuses
<1>3. ASSUME NEW d \in Dispatchers, Queue!ReadClaimed(d) \/ Queue!EndTick(d)
      PROVE  UNCHANGED <<status, calling, marking>>
  BY <1>3 DEF Queue!ReadClaimed, Queue!EndTick, Queue!rowVars
<1>4. ASSUME NEW d \in Dispatchers, Queue!Stop(d)
      PROVE  /\ UNCHANGED status
             /\ calling' = [calling EXCEPT ![d] = {}] /\ marking' = [marking EXCEPT ![d] = {}]
  BY <1>4 DEF Queue!Stop
<1>5. ASSUME NEW d \in Dispatchers, NEW e \in Events, Queue!Notify(d, e)
      PROVE  UNCHANGED <<status, marking>> /\ calling' = [calling EXCEPT ![d] = @ \cup {e}]
  BY <1>5 DEF Queue!Notify, Queue!rowVars
<1>6. ASSUME NEW d \in Dispatchers, NEW e \in Events, Queue!NotAnswered(d, e) \/ Queue!Answered(d, e)
      PROVE  /\ UNCHANGED status
             /\ calling' = [calling EXCEPT ![d] = @ \ {e}]
             /\ \E ok \in BOOLEAN :
                  marking' = [marking EXCEPT ![d] = @ \cup {[event |-> e, ok |-> ok]}]
  BY <1>6 DEF Queue!NotAnswered, Queue!Answered, Queue!Outcome, Queue!rowVars
<1>7. ASSUME NEW d \in Dispatchers, NEW e \in Events,
             Queue!MarkDelivered(d, e) \/ Queue!MarkFailed(d, e) \/ Queue!MarkLost(d, e)
      PROVE  /\ UNCHANGED calling
             /\ UNCHANGED status \/ \E s \in EventStatuses : status' = [status EXCEPT ![e] = s]
             /\ \E m : marking' = [marking EXCEPT ![d] = @ \ {m}]
  BY <1>7 DEF Queue!MarkDelivered, Queue!MarkFailed, Queue!MarkLost, Queue!rowVars,
       Queue!FailedStatus, EventStatuses
<1>8. ASSUME UNCHANGED queueVars PROVE UNCHANGED <<status, calling, marking>>
  BY <1>8 DEF queueVars
<1>9. ASSUME NEW d \in Dispatchers, NEW e \in Events, NEW ok \in BOOLEAN,
             marking' = [marking EXCEPT ![d] = @ \cup {[event |-> e, ok |-> ok]}]
      PROVE  marking' \in [Dispatchers -> SUBSET [event : Events, ok : BOOLEAN]]
  BY <1>9
<1> QED BY <1>1, <1>2, <1>3, <1>4, <1>5, <1>6, <1>7, <1>8, <1>9 DEF QueueStep

(* A delivered event was to be marked so, and that only after an answer.   *)
LEMMA DeliveryIsMarked ==
  ASSUME PipelineTypes, QueueStep, NEW e \in Events
  PROVE  /\ status'[e] = "DELIVERED" =>
              status[e] = "DELIVERED" \/ \E d \in Dispatchers : Delivers(d, e)
         /\ \A d \in Dispatchers :
              Delivers(d, e)' => Delivers(d, e) \/ Queue!Answered(d, e)
<1> USE DEF PipelineTypes, Delivers
<1>1. ASSUME NEW f \in Events, Queue!Insert(f) \/ Queue!Time(f)
      PROVE  UNCHANGED marking /\ (status'[e] = status[e] \/ status'[e] # "DELIVERED")
  BY <1>1 DEF Queue!Insert, Queue!Time, Queue!BecomeDue, Queue!Expire, Queue!tickVars
<1>2. ASSUME NEW d \in Dispatchers, Queue!Claim(d)
      PROVE  UNCHANGED marking /\ (status'[e] = status[e] \/ status'[e] # "DELIVERED")
  BY <1>2 DEF Queue!Claim
<1>3. ASSUME NEW d \in Dispatchers, Queue!ReadClaimed(d) \/ Queue!EndTick(d)
      PROVE  UNCHANGED <<status, marking>>
  BY <1>3 DEF Queue!ReadClaimed, Queue!EndTick, Queue!rowVars
<1>4. ASSUME NEW d \in Dispatchers, Queue!Stop(d)
      PROVE  UNCHANGED status /\ \A b \in Dispatchers : marking'[b] \subseteq marking[b]
  BY <1>4 DEF Queue!Stop
<1>5. ASSUME NEW d \in Dispatchers, NEW f \in Events, Queue!Notify(d, f)
      PROVE  UNCHANGED <<status, marking>>
  BY <1>5 DEF Queue!Notify, Queue!rowVars
<1>6. ASSUME NEW d \in Dispatchers, NEW f \in Events, Queue!NotAnswered(d, f)
      PROVE  UNCHANGED status /\ \A b \in Dispatchers : Delivers(b, e)' => Delivers(b, e)
  BY <1>6 DEF Queue!NotAnswered, Queue!Outcome, Queue!rowVars
<1>7. ASSUME NEW d \in Dispatchers, NEW f \in Events, Queue!Answered(d, f)
      PROVE  /\ UNCHANGED status
             /\ \A b \in Dispatchers : Delivers(b, e)' => Delivers(b, e) \/ Queue!Answered(b, e)
  <2>1. marking' = [marking EXCEPT ![d] = @ \cup {[event |-> f, ok |-> TRUE]}] /\ UNCHANGED status
    BY <1>7 DEF Queue!Answered, Queue!Outcome, Queue!rowVars
  <2>2. ASSUME NEW b \in Dispatchers, Delivers(b, e)', ~Delivers(b, e) PROVE b = d /\ e = f
    BY <2>1, <2>2
  <2> QED BY <1>7, <2>1, <2>2
<1>8. ASSUME NEW d \in Dispatchers, NEW f \in Events,
             Queue!MarkDelivered(d, f) \/ Queue!MarkFailed(d, f) \/ Queue!MarkLost(d, f)
      PROVE  /\ \A b \in Dispatchers : Delivers(b, e)' => Delivers(b, e)
             /\ status'[e] = "DELIVERED" => status[e] = "DELIVERED" \/ Delivers(d, e)
  <2>1. CASE Queue!MarkDelivered(d, f)
    <3>1. /\ status' = [status EXCEPT ![f] = "DELIVERED"] /\ Delivers(d, f)
          /\ marking' = [marking EXCEPT ![d] = @ \ {[event |-> f, ok |-> TRUE]}]
      BY <2>1 DEF Queue!MarkDelivered
    <3> QED BY <3>1
  <2>2. CASE Queue!MarkFailed(d, f)
    <3>1. PICK s \in {"DEAD", "FAILED"} : status' = [status EXCEPT ![f] = s]
      BY <2>2 DEF Queue!MarkFailed, Queue!FailedStatus
    <3>2. marking' = [marking EXCEPT ![d] = @ \ {[event |-> f, ok |-> FALSE]}]
      BY <2>2 DEF Queue!MarkFailed
    <3> QED BY <3>1, <3>2
  <2>3. CASE Queue!MarkLost(d, f)
    BY <2>3 DEF Queue!MarkLost, Queue!rowVars
  <2> QED BY <1>8, <2>1, <2>2, <2>3
<1>9. ASSUME UNCHANGED queueVars PROVE UNCHANGED <<status, marking>>
  BY <1>9 DEF queueVars
<1> QED BY <1>1, <1>2, <1>3, <1>4, <1>5, <1>6, <1>7, <1>8, <1>9 DEF QueueStep

-----------------------------------------------------------------------------
(* Requests do not touch each other's locals.                              *)
LEMMA OwnLocals ==
  ASSUME TypeOK, NEW r \in Requests, NEW s \in Requests, s # r,
         Start(s) \/ Proceed(s) \/ Break(s)
  PROVE  pc'[r] = pc[r] /\ cur'[r] = cur[r] /\ todo'[r] = todo[r]
BY DEF Start, WalletNotify, VerifiedTransaction, Proceed, SeeUnconfirmed, Book, ReadInvoice,
     CheckExisting, InsertRow, Credit, ClearUnconfirmed, Return, Reply, Break, Fail, Skip,
     Finish, Goto, reqVars, TypeOK

(* Booking a transfer puts its row into the table before it drops it.      *)
LEMMA BookingServes ==
  ASSUME TypeOK, NEW r \in Requests, ServesFully(r), serves'[r] = serves[r],
         Book(r) \/ Return(r)
  PROVE  ServesFully(r)'
<1> USE DEF Goto
<1> DEFINE Due(t) == t.tx = TxOf[serves[r].event]
<1>0. table \subseteq table'
  BY TableGrows DEF Next, Proceed
<1>1. ASSUME UNCHANGED todo, pc'[r] # "announce",
             pc'[r] \in {"credit", "clear", "recorded"} => Key(cur'[r]) \in table'
      PROVE  ServesFully(r)'
  BY <1>0, <1>1 DEF ServesFully, Key
<1>2. ASSUME NEW t \in todo[r], ReadInvoice(r, t) PROVE ServesFully(r)'
  BY <1>1, <1>2 DEF ReadInvoice, TypeOK
<1>3. CASE CheckExisting(r)
  BY <1>1, <1>3 DEF CheckExisting, tables, TypeOK
<1>4. CASE InsertRow(r)
  BY <1>1, <1>4 DEF InsertRow, TypeOK
<1>5. CASE Credit(r) \/ ClearUnconfirmed(r)
  <2>1. /\ pc[r] \in {"credit", "clear"} /\ pc'[r] \in {"clear", "recorded"}
        /\ cur'[r] = cur[r] /\ UNCHANGED <<todo, table>>
    BY <1>5 DEF Credit, ClearUnconfirmed, TypeOK
  <2> QED BY <1>1, <2>1 DEF ServesFully
<1>6. CASE Return(r)
  <2>1. /\ pc[r] = "recorded" /\ pc'[r] = "next" /\ todo'[r] = todo[r] \ {cur[r]}
        /\ UNCHANGED table
    BY <1>6 DEF Return, Finish, ServesFully, tables, TypeOK
  <2> QED BY <2>1 DEF ServesFully, Key
<1> QED BY <1>2, <1>3, <1>4, <1>5, <1>6 DEF Book

(* What served calls have brought to the ledger stays there.               *)
LEMMA KeepsServed ==
  ASSUME PipelineInv, [PipelineNext]_pipelineVars
  PROVE  ServedIsRecorded'
<1> USE DEF PipelineInv
<1> SUFFICES ASSUME NEW r \in Requests, r \notin slighted', serves'[r] # NoCall
             PROVE  ServesFully(r)'
  BY DEF ServedIsRecorded
<1>0. table \subseteq table'
  BY LedgerMoves, TableGrows
<1>1. ASSUME serves'[r] = serves[r], r \notin slighted,
             pc'[r] = pc[r], cur'[r] = cur[r], todo'[r] = todo[r]
      PROVE  ServesFully(r)'
  BY <1>0, <1>1 DEF ServedIsRecorded, ServesFully, Key
<1>2. CASE Worker
  <2>1. serves'[r] = serves[r] /\ UNCHANGED <<vars, slighted>>
    BY <1>2 DEF Worker, StillServed
  <2> QED BY <1>1, <2>1 DEF vars, reqVars
<1>3. ASSUME NEW d \in Dispatchers, NEW e \in Events, Call(d, e) PROVE ServesFully(r)'
  <2>1. CASE UNCHANGED <<vars, serves>>
    BY <1>1, <1>3, <2>1 DEF Call, vars, reqVars
  <2>2. ASSUME NEW s \in Requests, WalletNotify(s, TxOf[e]),
               serves' = [serves EXCEPT ![s] = [by |-> d, event |-> e]]
        PROVE  ServesFully(r)'
    <3>1. CASE s # r
      <4>1. Start(s)
        BY <2>2, PipelineAssumption DEF Start
      <4>2. pc'[r] = pc[r] /\ cur'[r] = cur[r] /\ todo'[r] = todo[r]
        BY <3>1, <4>1, OwnLocals
      <4>3. serves'[r] = serves[r] /\ UNCHANGED slighted
        BY <1>3, <2>2, <3>1 DEF Call, PipelineTypes
      <4> QED BY <1>1, <4>2, <4>3
    <3>2. CASE s = r
      <4>1. /\ pc'[r] = "next" /\ todo'[r] = {t \in Transfers : t.tx = TxOf[e]}
            /\ serves'[r].event = e
        BY <2>2, <3>2 DEF WalletNotify, Goto, TypeOK, PipelineTypes
      <4> QED BY <4>1 DEF ServesFully
    <3> QED BY <3>1, <3>2
  <2> QED BY <1>3, <2>1, <2>2 DEF Call
<1>4. ASSUME NEW d \in Dispatchers, NEW e \in Events, Ignored(d, e) PROVE ServesFully(r)'
  BY <1>1, <1>4 DEF Ignored, vars, reqVars
<1>5. ASSUME NEW s \in Requests, AnswerCall(s) PROVE ServesFully(r)'
  <2>1. s # r /\ serves'[r] = serves[r] /\ r \notin slighted
    BY <1>5 DEF AnswerCall, PipelineTypes
  <2>2. pc'[r] = pc[r] /\ cur'[r] = cur[r] /\ todo'[r] = todo[r]
    BY <1>5, <2>1, OwnLocals DEF AnswerCall, Proceed
  <2> QED BY <1>1, <2>1, <2>2
<1>6. ASSUME NEW s \in Requests, Handle(s) PROVE ServesFully(r)'
  <2>1. serves'[r] = serves[r] /\ r \notin slighted
    BY <1>6 DEF Handle
  <2>2. CASE s # r
    <3>1. pc'[r] = pc[r] /\ cur'[r] = cur[r] /\ todo'[r] = todo[r]
      BY <1>6, <2>2, OwnLocals DEF Handle, Proceed
    <3> QED BY <1>1, <2>1, <3>1
  <2>3. CASE s = r
    <3>1. Book(r) \/ Return(r)
      BY <1>6, <2>3 DEF Handle
    <3>2. ServesFully(r)
      BY <2>1 DEF ServedIsRecorded
    <3> QED BY <2>1, <3>1, <3>2, BookingServes
  <2> QED BY <2>2, <2>3
<1>7. ~CrashOfService
  BY DEF CrashOfService
<1>8. CASE Confirmed \/ UNCHANGED pipelineVars
  <2>1. UNCHANGED <<serves, slighted, pc, cur, todo>>
    BY <1>8 DEF Confirmed, Mine, pipelineVars, vars, reqVars
  <2> QED BY <1>1, <2>1
<1> QED BY <1>2, <1>3, <1>4, <1>5, <1>6, <1>7, <1>8 DEF PipelineNext

(* A good answer that does not excuse its event comes from a request that  *)
(* has recorded all of it.                                                 *)
LEMMA AnswersAreHonest ==
  ASSUME PipelineInv, [PipelineNext]_pipelineVars, NEW d \in Dispatchers, NEW e \in Events,
         Queue!Answered(d, e), ~Delivers(d, e), Delivers(d, e)', e \notin excused'
  PROVE  IsRecorded(e)
<1> USE DEF PipelineInv
<1>1. ASSUME UNCHANGED marking PROVE FALSE
  BY <1>1 DEF Delivers
<1>2. ASSUME NEW b \in Dispatchers, NEW f \in Events, Queue!Answered(b, f) PROVE b = d /\ f = e
  <2>1. marking' = [marking EXCEPT ![b] = @ \cup {[event |-> f, ok |-> TRUE]}]
    BY <1>2 DEF Queue!Answered, Queue!Outcome
  <2> QED BY <2>1 DEF Delivers, PipelineTypes
<1>3. ASSUME NEW b \in Dispatchers, NEW f \in Events, Ignored(b, f) PROVE FALSE
  BY <1>2, <1>3 DEF Ignored
<1>4. ASSUME NEW b \in Dispatchers, NEW f \in Events, Call(b, f) PROVE FALSE
  BY <1>1, <1>4 DEF Call, Queue!Notify
<1>5. ASSUME NEW r \in Requests, AnswerCall(r) PROVE IsRecorded(e)
  <2>1. serves[r] # NoCall
    BY <1>1, <1>5 DEF AnswerCall, queueVars
  <2>2. serves[r].event = e
    <3>1. serves[r].by \in Dispatchers /\ serves[r].event \in Events
      BY <2>1 DEF PipelineTypes
    <3> QED BY <1>2, <1>5, <2>1, <3>1 DEF AnswerCall
  <2>3. r \notin slighted
    BY <1>5, <2>1, <2>2 DEF AnswerCall
  <2>4. ServesFully(r) /\ todo[r] = {}
    BY <1>5, <2>1, <2>3 DEF ServedIsRecorded, AnswerCall, Reply
  <2> QED BY <2>2, <2>4 DEF ServesFully, IsRecorded
<1>6. CASE Worker
  <2>1. ASSUME NEW b \in Dispatchers, NEW f \in Events, Queue!NotAnswered(b, f) PROVE FALSE
    <3>1. marking' = [marking EXCEPT ![b] = @ \cup {[event |-> f, ok |-> FALSE]}]
      BY <2>1 DEF Queue!NotAnswered, Queue!Outcome
    <3> QED BY <3>1 DEF Delivers, PipelineTypes
  <2>2. ASSUME NEW b \in Dispatchers, NEW f \in Events,
               Queue!MarkDelivered(b, f) \/ Queue!MarkFailed(b, f) \/ Queue!MarkLost(b, f)
        PROVE  FALSE
    <3>1. \E m : marking' = [marking EXCEPT ![b] = @ \ {m}]
      BY <2>2 DEF Queue!MarkDelivered, Queue!MarkFailed, Queue!MarkLost
    <3> QED BY <3>1 DEF Delivers, PipelineTypes
  <2>3. ASSUME NEW b \in Dispatchers, Queue!Stop(b) PROVE FALSE
    BY <2>3 DEF Queue!Stop, Delivers, PipelineTypes
  <2>4. ASSUME NEW b \in Dispatchers, Queue!Claim(b) \/ Queue!ReadClaimed(b) \/ Queue!EndTick(b)
        PROVE  FALSE
    BY <1>1, <2>4 DEF Queue!Claim, Queue!ReadClaimed, Queue!EndTick
  <2>5. ASSUME NEW f \in Events, Queue!Insert(f) \/ Queue!Time(f) PROVE FALSE
    BY <1>1, <2>5 DEF Queue!Insert, Queue!Time, Queue!BecomeDue, Queue!Expire, Queue!tickVars
  <2> QED BY <1>6, <2>1, <2>2, <2>3, <2>4, <2>5 DEF Worker
<1>7. ASSUME UNCHANGED queueVars PROVE FALSE
  BY <1>1, <1>7 DEF queueVars
<1>8. ASSUME NEW r \in Requests, Handle(r) PROVE FALSE
  BY <1>7, <1>8 DEF Handle
<1>9. ASSUME CrashOfService \/ Confirmed \/ UNCHANGED pipelineVars PROVE FALSE
  BY <1>7, <1>9 DEF CrashOfService, Confirmed, pipelineVars
<1> QED BY <1>3, <1>4, <1>5, <1>6, <1>8, <1>9 DEF PipelineNext

(* Events with a good answer stay recorded.                                *)
LEMMA KeepsAnswered ==
  ASSUME PipelineInv, [PipelineNext]_pipelineVars
  PROVE  AnsweredIsRecorded'
<1> USE DEF PipelineInv
<1> SUFFICES ASSUME NEW e \in Events, e \notin excused',
                    status'[e] = "DELIVERED" \/ \E d \in Dispatchers : Delivers(d, e)'
             PROVE  IsRecorded(e)'
  BY DEF AnsweredIsRecorded, Delivers
<1>1. e \notin excused
  BY DEF PipelineNext, Worker, Call, Ignored, AnswerCall, Handle, CrashOfService, Confirmed,
       pipelineVars
<1>2. ASSUME status[e] = "DELIVERED" \/ \E d \in Dispatchers : Delivers(d, e)
      PROVE  IsRecorded(e)
  BY <1>1, <1>2 DEF AnsweredIsRecorded
<1>3. ASSUME NEW d \in Dispatchers, Queue!Answered(d, e), ~Delivers(d, e), Delivers(d, e)'
      PROVE  IsRecorded(e)
  BY <1>3, AnswersAreHonest
<1>4. IsRecorded(e)
  BY <1>2, <1>3, QueueMoves, DeliveryIsMarked
<1> QED BY <1>4, StaysRecorded

(* Handlers serve calls of the worker.                                     *)
LEMMA KeepsServes ==
  ASSUME PipelineTypes, [PipelineNext]_pipelineVars
  PROVE  serves' \in [Requests -> [by : Dispatchers, event : Events] \cup {NoCall}]
<1> USE DEF PipelineTypes
<1>1. CASE Worker
  BY <1>1 DEF Worker, StillServed
<1>2. ASSUME NEW d \in Dispatchers, NEW e \in Events, Call(d, e)
      PROVE  serves' \in [Requests -> [by : Dispatchers, event : Events] \cup {NoCall}]
  <2>1. [by |-> d, event |-> e] \in [by : Dispatchers, event : Events]
    OBVIOUS
  <2> QED BY <1>2, <2>1 DEF Call
<1>3. ASSUME NEW r \in Requests, AnswerCall(r) \/ Handle(r)
      PROVE  serves' \in [Requests -> [by : Dispatchers, event : Events] \cup {NoCall}]
  BY <1>3 DEF AnswerCall, Handle
<1>4. CASE CrashOfService
  BY <1>4 DEF CrashOfService
<1>5. CASE Confirmed \/ UNCHANGED pipelineVars \/ \E d \in Dispatchers, e \in Events : Ignored(d, e)
  BY <1>5 DEF Confirmed, Ignored, pipelineVars
<1> QED BY <1>1, <1>2, <1>3, <1>4, <1>5 DEF PipelineNext

-----------------------------------------------------------------------------
(* The invariant holds before the first deposit.                           *)
LEMMA InitPipeline == PipelineInit => PipelineInv
<1> SUFFICES ASSUME PipelineInit PROVE PipelineInv
  OBVIOUS
<1>1. TypeOK /\ Safety
  BY InitType, InitSafety DEF PipelineInit
<1>2. PipelineTypes
  BY DEF PipelineInit, Queue!Init, PipelineTypes, EventStatuses
<1>3. ServedIsRecorded
  BY DEF PipelineInit, ServedIsRecorded
<1>4. AnsweredIsRecorded
  BY DEF PipelineInit, Queue!Init, AnsweredIsRecorded, Delivers
<1> QED BY <1>1, <1>2, <1>3, <1>4 DEF PipelineInv

(* Every step keeps it.                                                    *)
LEMMA StepPipeline == PipelineInv /\ [PipelineNext]_pipelineVars => PipelineInv'
<1> SUFFICES ASSUME PipelineInv, [PipelineNext]_pipelineVars PROVE PipelineInv'
  OBVIOUS
<1>1. TypeOK' /\ Safety'
  BY LedgerMoves, StepType, StepSafety DEF PipelineInv
<1>2. PipelineTypes'
  BY QueueMoves, QueueTypesStay, KeepsServes DEF PipelineInv, PipelineTypes, NoCall
<1>3. ServedIsRecorded' /\ AnsweredIsRecorded'
  BY KeepsServed, KeepsAnswered
<1> QED BY <1>1, <1>2, <1>3 DEF PipelineInv

(* What PipelineInv relates, the calls of the worker and the handlers of  *)
(* the service they started, stays related in every reachable state.       *)
THEOREM PipelineIsInductive == PipelineSpec => []PipelineInv
BY InitPipeline, StepPipeline, PTL DEF PipelineSpec

(* Behind the pipeline the ledger behaves as a ledger and the queue as a   *)
(* queue: whatever is called, answered, given up or cut short, each of     *)
(* them takes its own steps only, so what is proved or checked of one      *)
(* alone holds of it here.  (apiWalletNotify, dispatchEVMDepositEvent)     *)
THEOREM LedgerIsALedger == PipelineSpec => Spec
<1>1. PipelineInit => Init
  BY DEF PipelineInit
<1>2. [PipelineNext]_pipelineVars => [Next]_vars
  BY LedgerMoves
<1> QED BY <1>1, <1>2, PTL DEF PipelineSpec, Spec

(* The queue of deposits takes steps of its own only, though its calls are *)
(* answered by the ledger instead of at will.  (dispatchEVMDepositEvent)   *)
THEOREM QueueIsAQueue == PipelineSpec => Queue!Spec
<1>1. PipelineInit => Queue!Init
  BY DEF PipelineInit
<1>2. ASSUME PipelineInv, [PipelineNext]_pipelineVars PROVE Queue!Next \/ UNCHANGED Queue!vars
  <2>1. CASE UNCHANGED queueVars
    BY <2>1 DEF queueVars, Queue!vars, Queue!rowVars, Queue!tickVars
  <2>2. CASE ~ UNCHANGED queueVars
    <3>1. QueueStep
      BY <1>2, QueueMoves DEF PipelineInv
    <3> QED BY ONLY <2>2, <3>1 DEF QueueStep, Queue!Next, Queue!Undisturbed, Queue!Tick, Queue!Work
  <2> QED BY <2>1, <2>2
<1>3. PipelineInv /\ [PipelineNext]_pipelineVars => [Queue!Next]_(Queue!vars)
  BY <1>2
<1> QED BY <1>1, <1>3, PipelineIsInductive, PTL DEF PipelineSpec, Queue!Spec

(* A deposit event closed as delivered is in its invoice's balance, or a   *)
(* request that recorded it is about to add it, however often the call was *)
(* repeated, given up, taken over or cut short by a restart; unless it was *)
(* left out by the request that answered, or its row was lost to the       *)
(* balance.  (dispatchEVMDepositEvent, apiWalletNotify)                    *)
THEOREM DeliveredWasCredited == PipelineSpec => []DeliveredIsCredited
<1>1. ASSUME PipelineInv PROVE DeliveredIsCredited
  <2> SUFFICES ASSUME NEW e \in Events \ excused, status[e] = "DELIVERED",
                      NEW t \in Transfers, t.tx = TxOf[e], clean[t.inv]
               PROVE  \/ Key(t) \in counted[t.inv]
                      \/ \E r \in At("credit") : Key(cur[r]) = Key(t)
    BY DEF DeliveredIsCredited
  <2>1. Key(t) \in table
    BY <1>1 DEF PipelineInv, AnsweredIsRecorded, IsRecorded
  <2>2. t.inv \in Invoices /\ Key(t) \in RowsOf(t.inv)
    BY <2>1, KeyType DEF RowsOf
  <2>3. RowsOf(t.inv) \subseteq counted[t.inv] \cup {Key(cur[r]) : r \in At("credit")}
    BY <1>1, <2>2 DEF PipelineInv, Safety, BalanceIsComplete
  <2> QED BY <2>2, <2>3
<1> QED BY <1>1, PipelineIsInductive, PTL
=============================================================================
