----------------------------- MODULE OrderIndex -----------------------------
(***************************************************************************)
(* The table order_index, one row per order with the time of its last      *)
(* change, and the keyset pages of /api/v1/orders that are read from it.   *)
(* Every write to an invoice or a payout is followed by a refresh of its   *)
(* order in a statement of its own.  A rebuild (an import, or the start of *)
(* a server that finds the table empty) deletes all rows and inserts them  *)
(* in two statements while the others go on.                               *)
(***************************************************************************)
EXTENDS Integers, FiniteSets, FiniteSetsExt

CONSTANTS
  IndexedOrders,   \* external ids, as numbers in the order the database sorts them
  Writers,         \* requests and tasks that write invoices and payouts
  Limit,           \* orders on a page
  MaxTime, Rebuilds   \* bounds: the clock, and rebuilds of an instance

ASSUME IndexAssumption ==
  /\ IndexedOrders \subseteq Nat \ {0}
  /\ Limit \in Nat \ {0} /\ MaxTime \in Nat /\ Rebuilds \in Nat

Tables == {"invoice", "payout"}

VARIABLES
  changed,      \* MAX(updated_at) per table and order, 0 without a row
  passing,      \* orders with a row that the reader's filter accepts
  now,          \* CURRENT_TIMESTAMP of the last write
  writing,      \* the order a writer has still to refresh, or 0
  index,        \* sort_at per order, 0 without a row
  rebuild,      \* the statement the rebuild executes next
  rebuilds,     \* rebuilds begun
  scan,         \* a client that pages through the orders
  stale         \* history: orders whose refresh or rebuild did not happen

tableVars == <<changed, passing, now, writing>>
indexVars == <<tableVars, index, rebuild, rebuilds, stale>>
orderVars == <<indexVars, scan>>

NoScan == [on |-> FALSE, after |-> <<0, 0>>, owed |-> {}, listed |-> {},
           twice |-> {}, shaken |-> FALSE]

IndexInit ==
  /\ changed = [t \in Tables |-> [o \in IndexedOrders |-> 0]]
  /\ passing = {} /\ now = 1 /\ writing = [w \in Writers |-> 0]
  /\ index = [o \in IndexedOrders |-> 0]
  /\ rebuild = "none" /\ rebuilds = 0 /\ scan = NoScan /\ stale = {}

LastChange(o) == Max({changed[t][o] : t \in Tables})

(* CreateInvoice, UpdateInvoicePayment, UpdateInvoiceBalance, CreatePayout,*)
(* MarkPayout..., CompletePayoutSuccess: a row of the order is written,    *)
(* which may change whether the filter accepts the order.                  *)
Write(w, t, o) ==
  /\ writing[w] = 0
  /\ now' \in {now, now + 1} /\ now' <= MaxTime
  /\ changed' = [changed EXCEPT ![t][o] = now']
  /\ passing' \in {passing \cup {o}, passing \ {o}}
  /\ writing' = [writing EXCEPT ![w] = o]
  /\ UNCHANGED <<index, rebuild, rebuilds, stale>>

RefreshFrom(w, sortAt) ==
  /\ writing[w] # 0
  /\ index' = [index EXCEPT ![writing[w]] = sortAt]
  /\ stale' = stale \ {writing[w]}
  /\ writing' = [writing EXCEPT ![w] = 0]
  /\ UNCHANGED <<changed, passing, now, rebuild, rebuilds>>

RefreshOneTable(w) == RefreshFrom(w, changed["invoice"][writing[w]])

(* refreshOrderIndexForExternalID: both tables are read as they are now.   *)
Refresh(w) == RefreshFrom(w, LastChange(writing[w]))

(* The refresh fails, or the server dies before it.                        *)
RefreshFails(w) ==
  /\ writing[w] # 0
  /\ stale' = stale \cup {writing[w]}
  /\ writing' = [writing EXCEPT ![w] = 0]
  /\ UNCHANGED <<changed, passing, now, index, rebuild, rebuilds>>

----------------------------------------------------------------------------
(* RebuildOrderIndex, statement by statement.                              *)
RebuildDelete ==
  /\ rebuild = "none" /\ rebuilds < Rebuilds
  /\ index' = [o \in IndexedOrders |-> 0]
  /\ rebuild' = "invoice" /\ rebuilds' = rebuilds + 1
  /\ UNCHANGED <<tableVars, stale>>

InsertOver(o, sortAt)     == IF sortAt > 0 THEN sortAt ELSE index[o]
InsertGreatest(o, sortAt) == Max({sortAt, index[o]})

RebuildInsert ==
  /\ rebuild # "none"
  /\ index' = [o \in IndexedOrders |-> InsertGreatest(o, changed[rebuild][o])]
  /\ rebuild' = IF rebuild = "invoice" THEN "payout" ELSE "none"
  /\ stale' = IF rebuild = "invoice" THEN {} ELSE stale
  /\ UNCHANGED <<tableVars, rebuilds>>

(* The process dies or a statement fails: the rows are not inserted.       *)
RebuildFails ==
  /\ rebuild # "none"
  /\ rebuild' = "none"
  /\ stale' = IndexedOrders
  /\ UNCHANGED <<tableVars, index, rebuilds>>

(* rebuildOrderIndexIfEmpty, when a server starts.                         *)
Restart ==
  /\ rebuild = "none" /\ stale # {} /\ \A o \in IndexedOrders : index[o] = 0
  /\ rebuild' = "invoice"
  /\ UNCHANGED <<tableVars, index, rebuilds, stale>>

----------------------------------------------------------------------------
SortKey(o) == <<index[o], o>>
Precedes(k, l) == k[1] < l[1] \/ (k[1] = l[1] /\ k[2] < l[2])
PrecedesInTime(k, l) == k[1] < l[1]

(* The rows behind the cursor, which filter and index let through.         *)
RemainingByTime(after) ==
  {o \in passing : index[o] > 0 /\ (after # <<0, 0>> => PrecedesInTime(SortKey(o), after))}

Remaining(after) ==
  {o \in passing : index[o] > 0 /\ (after # <<0, 0>> => Precedes(SortKey(o), after))}

(* ORDER BY sort_at DESC, external_id DESC LIMIT: the first rows of a set. *)
FirstOf(S) == {o \in S : Cardinality({p \in S : Precedes(SortKey(o), SortKey(p))}) < Limit}

ScanStart ==
  /\ scan = NoScan
  /\ scan' = [NoScan EXCEPT !.on = TRUE, !.owed = Remaining(<<0, 0>>),
                            !.shaken = rebuild # "none"]
  /\ UNCHANGED indexVars

(* ListOrdersPage: one row more than the page tells whether another page   *)
(* follows, and the page's last row is the cursor.                         *)
ScanPage ==
  /\ scan.on
  /\ LET rest == Remaining(scan.after)
         page == FirstOf(rest)
         last == CHOOSE o \in page : \A p \in page : ~Precedes(SortKey(p), SortKey(o))
     IN scan' = [scan EXCEPT
          !.owed   = @ \ page,
          !.listed = @ \cup page,
          !.twice  = @ \cup (scan.listed \cap page),
          !.after  = IF rest = page THEN @ ELSE SortKey(last),
          !.on     = rest # page]
  /\ UNCHANGED indexVars

ScanEnd == ~scan.on /\ scan # NoScan /\ scan' = NoScan /\ UNCHANGED indexVars

(* An order that changes while the client turns pages is not owed to it.   *)
Watch ==
  scan' = IF ~scan.on THEN scan ELSE [scan EXCEPT
    !.owed   = {o \in @ : index'[o] = index[o] /\ o \in passing'},
    !.shaken = @ \/ rebuild' # "none"]

OrdersNext ==
  \/ /\ \/ \E w \in Writers :
             \/ \E t \in Tables, o \in IndexedOrders : Write(w, t, o)
             \/ Refresh(w) \/ RefreshFails(w)
        \/ RebuildDelete \/ RebuildInsert \/ RebuildFails \/ Restart
     /\ Watch
  \/ ScanStart \/ ScanPage \/ ScanEnd

OrdersSpec == IndexInit /\ [][OrdersNext]_orderVars

----------------------------------------------------------------------------
(* With nothing under way, the index holds for every order the time of its *)
(* last change, whatever rebuild and refreshes ran beside each other,      *)
(* except for orders whose refresh or rebuild failed.                      *)
(* (refreshOrderIndexForExternalID beside RebuildOrderIndex)               *)
IndexIsCurrent ==
  (rebuild = "none" /\ \A w \in Writers : writing[w] = 0)
    => \A o \in IndexedOrders \ stale : index[o] = LastChange(o)

(* A client that follows the cursor to the end sees every order that was   *)
(* there at the start and not changed meanwhile, orders with equal times   *)
(* included, and without a rebuild none twice.  (ListOrderExternalIDRows)  *)
ScanIsFaithful ==
  /\ ~scan.on => scan.owed = {}
  /\ ~scan.shaken => scan.twice = {}
=============================================================================
