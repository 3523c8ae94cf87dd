----------------------------- MODULE TronBackend -----------------------------
(***************************************************************************)
(* The TRON worker.  Payouts do not ask the chain which account can pay:   *)
(* they take the richest account of a report that refreshes collect one    *)
(* account at a time and store when they are through.  A refresh is run by *)
(* the loop, by a payout or a reader that found the report cold or stale   *)
(* (one at a time), or by a reader who asks for a live balance, all beside *)
(* each other.  One token; amounts are in units of it.  The energy and the *)
(* TRX that a token transfer costs its account nobody looks at: an account *)
(* may lack them at any time.                                              *)
(***************************************************************************)
EXTENDS Naturals, FiniteSets, FiniteSetsExt

CONSTANTS
  Accounts,        \* chain accounts, as numbers in the order they are asked
  Refreshers,      \* "loop", "kicked" and readers with ?live=1
  TronPayouts,     \* payout requests to the worker
  Ask,             \* the amount each of them asks for
  Deposits, LookupFailures   \* bounds of an instance

ASSUME TronAssumption ==
  /\ Accounts = 1..Cardinality(Accounts) /\ Accounts # {}
  /\ {"loop", "kicked"} \subseteq Refreshers
  /\ Ask \in [TronPayouts -> Nat \ {0}]
  /\ Deposits \in Nat /\ LookupFailures \in Nat

VARIABLES
  funds,       \* what each account holds on the chain
  cache,       \* the stored report: its best account, or 0, and that one's balance
  warm,        \* RefreshedAt is set
  refreshing,  \* tronRefreshing: a kicked refresh is under way
  refresh,     \* per refresher: the account it asks next (0: idle) and its report
  pay,         \* per payout: stage, the account it chose
  deposits, failures   \* spent of the bounds

tronVars == <<funds, cache, warm, refreshing, refresh, pay, deposits, failures>>

Unknown == [best |-> 0, has |-> 0, knows |-> {}]
NotRefreshing == [next |-> 0, report |-> Unknown, checked |-> 0]

TronInit ==
  /\ funds = [a \in Accounts |-> 0] /\ cache = Unknown /\ warm = FALSE
  /\ refreshing = FALSE /\ refresh = [r \in Refreshers |-> NotRefreshing]
  /\ pay = [p \in TronPayouts |-> [at |-> "asked", from |-> 0, knows |-> {}]]
  /\ deposits = 0 /\ failures = 0

chainVars == <<funds, deposits>>

Moved == {p \in TronPayouts : pay[p].at \in {"paid", "unanswered"}}

Deposit(a) ==
  /\ deposits < Deposits
  /\ deposits' = deposits + 1 /\ funds' = [funds EXCEPT ![a] = @ + 1]
  /\ UNCHANGED <<cache, warm, refreshing, refresh, pay, failures>>

----------------------------------------------------------------------------
(* A report knows the payouts that had moved when it was begun.            *)
Collecting == [next |-> 1, report |-> [best |-> 0, has |-> 0, knows |-> Moved], checked |-> 0]

(* The ticker of tronSpendableRefreshLoop, and a reader's ?live=1.         *)
BeginRefresh(r) ==
  /\ r # "kicked" /\ refresh[r].next = 0
  /\ refresh' = [refresh EXCEPT ![r] = Collecting]
  /\ UNCHANGED <<chainVars, cache, warm, refreshing, pay, failures>>

(* kickTRONSpendableRefresh, as part of another step.                      *)
Kick ==
  IF refreshing THEN UNCHANGED <<refreshing, refresh>>
  ELSE refreshing' = TRUE /\ refresh' = [refresh EXCEPT !["kicked"] = Collecting]

WithAccount(report, a) ==
  IF funds[a] > report.has THEN [best |-> a, has |-> funds[a], knows |-> report.knows] ELSE report

(* One account: its balance, or a failure that the report passes over.     *)
LookUpAccount(r) ==
  /\ refresh[r].next \in Accounts
  /\ \/ /\ refresh' = [refresh EXCEPT ![r] =
             [next |-> @.next + 1, report |-> WithAccount(@.report, @.next),
              checked |-> @.checked + 1]]
        /\ UNCHANGED failures
     \/ /\ failures < LookupFailures /\ failures' = failures + 1
        /\ refresh' = [refresh EXCEPT ![r] =
             [next |-> @.next + 1, report |-> @.report, checked |-> @.checked]]
  /\ UNCHANGED <<chainVars, cache, warm, refreshing, pay>>

StoreKeepsReport(report) == [report EXCEPT !.best = IF warm THEN cache.best ELSE @,
                                           !.has = IF warm THEN cache.has ELSE @]

(* storeTRONSpendableCache of a report: the last one to finish wins.       *)
StoreReport(report) == report

(* tronSpendable is through.  A report without any answer is an error, and *)
(* the timeout of the refresh is one at any account: the cache then keeps  *)
(* the report it has, or the useless one it never shows.                   *)
Store(r) ==
  /\ \/ /\ refresh[r].next \notin Accounts \cup {0} /\ refresh[r].checked > 0
        /\ cache' = StoreReport(refresh[r].report) /\ warm' = TRUE
        /\ UNCHANGED failures
     \/ /\ refresh[r].next \notin Accounts \cup {0} /\ refresh[r].checked = 0
        /\ UNCHANGED <<cache, warm, failures>>
     \/ /\ refresh[r].next \in Accounts \ {1}
        /\ failures < LookupFailures /\ failures' = failures + 1
        /\ UNCHANGED <<cache, warm>>
  /\ refresh' = [refresh EXCEPT ![r] = NotRefreshing]
  /\ refreshing' = (refreshing /\ r # "kicked")
  /\ UNCHANGED <<chainVars, pay>>

----------------------------------------------------------------------------
(* tronSpendableForPayout and the choice of the account.  A cold cache     *)
(* refuses; a warm one answers at once, and kicks when it is old.          *)
Choose(p) ==
  /\ pay[p].at = "asked"
  /\ \/ ~warm /\ pay' = [pay EXCEPT ![p].at = "refused"] /\ Kick
     \/ /\ warm
        /\ pay' = [pay EXCEPT ![p] =
             [at |-> IF cache.best # 0 /\ cache.has >= Ask[p] THEN "chosen" ELSE "refused",
              from |-> cache.best, knows |-> cache.knows]]
        /\ Kick \/ UNCHANGED <<refreshing, refresh>>
  /\ UNCHANGED <<chainVars, cache, warm, failures>>

(* signAndBroadcastTRON: the node builds the transfer, the worker signs it *)
(* and the node takes it.  A token transfer of more than the account holds *)
(* is taken as well, and reverts on the chain; so does, "starved", one     *)
(* whose account lacks energy and TRX.  The node may refuse, and its answer*)
(* may be lost after it took the transfer.                                 *)
Broadcast(p) ==
  LET a == pay[p].from
      Answered(stage) == pay' = [pay EXCEPT ![p].at = stage]
  IN  /\ pay[p].at = "chosen"
      /\ \/ /\ funds[a] >= Ask[p] /\ funds' = [funds EXCEPT ![a] = @ - Ask[p]]
            /\ Answered("paid") \/ Answered("unanswered")
         \/ funds[a] < Ask[p] /\ Answered("reverted") /\ UNCHANGED funds
         \/ Answered("starved") /\ UNCHANGED funds
         \/ Answered("refused") /\ UNCHANGED funds
      /\ UNCHANGED <<deposits, cache, warm, refreshing, refresh, failures>>

TronNext ==
  \/ \E a \in Accounts : Deposit(a)
  \/ \E r \in Refreshers : BeginRefresh(r) \/ LookUpAccount(r) \/ Store(r)
  \/ \E p \in TronPayouts : Choose(p) \/ Broadcast(p)

TronFairness ==
  WF_tronVars(BeginRefresh("loop")) /\ WF_tronVars(LookUpAccount("loop") \/ Store("loop"))
  /\ \A r \in Refreshers \ {"loop"} : WF_tronVars(LookUpAccount(r) \/ Store(r))

TronSpec == TronInit /\ [][TronNext]_tronVars /\ TronFairness

----------------------------------------------------------------------------
(* A payout that is answered with a transaction which reverts for want of  *)
(* the token was chosen from a report begun before another payout moved    *)
(* the same account's money.  One that reverts for want of energy and TRX  *)
(* needs no other payout: the account is chosen by its token alone.        *)
(* (tronSpendableForPayout, broadcastTRONPayout, createTRC20Transfer)      *)
RevertedWasOverlapped ==
  \A p \in TronPayouts : pay[p].at = "reverted" =>
    \E q \in TronPayouts \ {p} :
      q \in Moved /\ pay[q].from = pay[p].from /\ q \notin pay[p].knows

(* A report that was overtaken is replaced: once payouts and deposits are  *)
(* over, the cache comes to show the richest account and stays so, whatever*)
(* refreshes failed or overwrote each other.  (tronSpendableRefreshLoop)   *)
CacheCatchesUp ==
  <>[](warm /\ cache.has = Max({funds[a] : a \in Accounts}))
=============================================================================
