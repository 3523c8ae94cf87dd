----------------------------- MODULE Autopayout -----------------------------
(***************************************************************************)
(* Automatic payouts of one wallet.  The scheduler's tick loads the        *)
(* wallets, waits for a balance, computes an amount and sends it, while    *)
(* deposits arrive, admins change the policy or pay out by hand, and       *)
(* transfers already handed to the worker reach the chain.                 *)
(***************************************************************************)
EXTENDS Integers, Sequences

CONSTANTS
  Policies,     \* what an admin may save: [payout, policy, cond, prespolicy, presamount]
  MaxFunds, MaxMinutes, MaxSent, Saves   \* bounds: balance, minutes, payouts, changes of policy

(* intFromAny and NewFromString read pcond and presamount as numbers.      *)
ASSUME PoliciesAssumption ==
  /\ \A p \in Policies : p.cond \in Int /\ p.presamount \in Int
  /\ MaxFunds \in Nat

VARIABLES
  wallet,       \* the columns of the wallet's row an admin sets
  lastAttempt,  \* its last_payout_attempt, or Never
  tick,         \* the scheduler's call of processAutopayouts
  clock,        \* minutes
  funds,        \* what the worker reports as balance
  sent,         \* the rows of payout and their transfers, in order
  landings,     \* transfers that reached the chain
  saves         \* changes of the policy so far

autopayoutVars == <<wallet, lastAttempt, tick, clock, funds, sent, landings, saves>>

Never   == -1
Waiting == [at |-> "ticker"]

AutopayoutInit ==
  /\ wallet \in Policies
  /\ lastAttempt = Never /\ tick = Waiting
  /\ clock = 0 /\ funds = 0 /\ sent = <<>> /\ landings = 0 /\ saves = 0

autopayoutDue(row, last, at) ==
  \/ row.policy = "limit"
  \/ /\ row.policy = "scheduled"
     /\ row.cond <= 0 \/ last = Never \/ last + row.cond < at

autopayoutBalanceReached(row, balance) ==
  row.policy = "limit" => row.cond > 0 /\ balance >= row.cond

Reserve(row, balance) ==
  CASE row.prespolicy = "amount"  -> row.presamount
    [] row.prespolicy = "percent" -> balance - (balance * (100 - row.presamount)) \div 100
    [] OTHER -> 0

autopayoutAmount(row, balance) == balance - Reserve(row, balance)

Load ==
  /\ tick = Waiting /\ wallet.payout
  /\ tick' = [at |-> "wallet", row |-> wallet, last |-> lastAttempt]
  /\ UNCHANGED <<wallet, lastAttempt, clock, funds, sent, landings, saves>>

(* The due check; then Balance is asked.                                   *)
Consider ==
  /\ tick.at = "wallet"
  /\ tick' = IF autopayoutDue(tick.row, tick.last, clock)
             THEN [at |-> "asking", row |-> tick.row, due |-> clock] ELSE Waiting
  /\ UNCHANGED <<wallet, lastAttempt, clock, funds, sent, landings, saves>>

BalanceFails ==
  /\ tick.at = "asking" /\ tick' = Waiting
  /\ UNCHANGED <<wallet, lastAttempt, clock, funds, sent, landings, saves>>

Balance ==
  /\ tick.at = "asking"
  /\ tick' = IF /\ funds > 0 /\ autopayoutBalanceReached(tick.row, funds)
                /\ autopayoutAmount(tick.row, funds) > 0
             THEN [at |-> "measured", row |-> tick.row, due |-> tick.due, seen |-> landings,
                   attempt |-> Never, amount |-> autopayoutAmount(tick.row, funds),
                   reserve |-> Reserve(tick.row, funds)]
             ELSE Waiting
  /\ UNCHANGED <<wallet, lastAttempt, clock, funds, sent, landings, saves>>

(* The payout goes on when its attempt could not be recorded.              *)
AttemptUnchecked ==
  /\ tick.at = "measured"
  /\ lastAttempt' \in {clock, lastAttempt}
  /\ tick' = [tick EXCEPT !.at = "attempted", !.attempt = clock]
  /\ UNCHANGED <<wallet, clock, funds, sent, landings, saves>>

(* dispatchAutopayout records the attempt before it creates and sends.     *)
Attempt ==
  /\ tick.at = "measured"
  /\ \/ /\ lastAttempt' = clock
        /\ tick' = [tick EXCEPT !.at = "attempted", !.attempt = clock]
     \/ tick' = Waiting /\ UNCHANGED lastAttempt
  /\ UNCHANGED <<wallet, clock, funds, sent, landings, saves>>

(* by: the measurement it rests on, or <<>> for one by hand; before and    *)
(* left: what had landed before it, and the balance after it.              *)
NewPayout(by, amount) ==
  [by |-> by, amount |-> amount, status |-> "IN_PROGRESS", task |-> "none", before |-> 0, left |-> 0]

CreatePayout ==
  /\ tick.at = "attempted" /\ Len(sent) < MaxSent
  /\ \/ /\ sent' = Append(sent, NewPayout(tick, tick.amount))
        /\ tick' = [at |-> "created", payout |-> Len(sent) + 1]
     \/ tick' = Waiting /\ UNCHANGED sent
  /\ UNCHANGED <<wallet, lastAttempt, clock, funds, landings, saves>>

(* The call may fail with or without the worker having taken the task.     *)
Payout ==
  /\ tick.at = "created"
  /\ \E task \in {"waiting", "none"}, status \in {"IN_PROGRESS", "FAIL"} :
       /\ status = "IN_PROGRESS" => task = "waiting"
       /\ sent' = [sent EXCEPT ![tick.payout].task = task, ![tick.payout].status = status]
  /\ tick' = Waiting
  /\ UNCHANGED <<wallet, lastAttempt, clock, funds, landings, saves>>

(* A payout asked for through the API or the admin's page.                 *)
PayoutByHand(amount) ==
  /\ Len(sent) < MaxSent
  /\ sent' = Append(sent, [NewPayout(<<>>, amount) EXCEPT !.task = "waiting"])
  /\ UNCHANGED <<wallet, lastAttempt, tick, clock, funds, landings, saves>>

Transfer(i) ==
  /\ sent[i].task = "waiting"
  /\ IF sent[i].amount <= funds
     THEN /\ funds' = funds - sent[i].amount /\ landings' = landings + 1
          /\ sent' = [sent EXCEPT ![i].task = "landed", ![i].left = funds', ![i].before = landings]
     ELSE sent' = [sent EXCEPT ![i].task = "refused"] /\ UNCHANGED <<funds, landings>>
  /\ UNCHANGED <<wallet, lastAttempt, tick, clock, saves>>

apiAutopayout(settings) ==
  /\ saves < Saves /\ settings # wallet
  /\ wallet' = settings /\ saves' = saves + 1
  /\ UNCHANGED <<lastAttempt, tick, clock, funds, sent, landings>>

Deposited ==
  /\ funds' \in (funds + 1)..MaxFunds
  /\ UNCHANGED <<wallet, lastAttempt, tick, clock, sent, landings, saves>>

Minute ==
  /\ clock < MaxMinutes /\ clock' = clock + 1
  /\ UNCHANGED <<wallet, lastAttempt, tick, funds, sent, landings, saves>>

(* The process stops anywhere and starts again.                            *)
RestartScheduler ==
  /\ tick' = Waiting
  /\ UNCHANGED <<wallet, lastAttempt, clock, funds, sent, landings, saves>>

AutopayoutNext ==
  \/ Load \/ Consider \/ BalanceFails \/ Balance \/ Attempt \/ CreatePayout \/ Payout
  \/ \E amount \in 1..MaxFunds : PayoutByHand(amount)
  \/ \E i \in DOMAIN sent : Transfer(i)
  \/ \E settings \in Policies : apiAutopayout(settings)
  \/ Deposited \/ Minute \/ RestartScheduler

AutopayoutSpec == AutopayoutInit /\ [][AutopayoutNext]_autopayoutVars

Automatic == {i \in DOMAIN sent : sent[i].by # <<>>}

(* Automatic payouts are measured.  One that the schedule allows is due    *)
(* only when the interval has passed since the attempt of every automatic  *)
(* payout before it, whatever failed or crashed in between; and a transfer *)
(* that leaves less than the reserve was overtaken: another one reached    *)
(* the chain after its balance was read.  (processAutopayouts,             *)
(* dispatchAutopayout)                                                     *)
AutopayoutsAreMeasured ==
  /\ \A j \in Automatic : sent[j].by.row.policy = "scheduled" /\ sent[j].by.row.cond > 0 =>
       \A i \in Automatic : i < j => sent[i].by.attempt + sent[j].by.row.cond < sent[j].by.due
  /\ \A i \in Automatic : sent[i].task = "landed" /\ sent[i].left < sent[i].by.reserve =>
       sent[i].before > sent[i].by.seen
=============================================================================
