---------------------------- MODULE MCAppTasks -------------------------------
(***************************************************************************)
(* The tasks of the app that tell of deposits, payments and payouts, for   *)
(* TLC: one scanner of deposits, and the notification tasks.  The parts    *)
(* share no variable: a behaviour explores one while the others rest.      *)
(***************************************************************************)
EXTENDS MCDepositScanner, Notifications

VARIABLE part

MCInit ==
  /\ part \in {"scanner"} \cup Kinds
  /\ Init /\ NotificationsInit

MCNext ==
  /\ \/ part = "scanner" /\ Next /\ UNCHANGED noticeVars
     \/ part # "scanner" /\ KindNext(part) /\ UNCHANGED vars
  /\ UNCHANGED part

MCVars == <<vars, noticeVars, part>>

(* Fairness of DepositScanner and of Notifications.  The part never        *)
(* changes, so one condition may speak of a step of each.                  *)
Scan == part = "scanner" /\ UNCHANGED <<noticeVars, part>>
Tell == part # "scanner" /\ UNCHANGED <<vars, part>>

Calm == IF part = "scanner" THEN Undisturbed ELSE Steady(part)
Task ==
  \/ Scan /\ \E s \in Scanners : Pass(s)
  \/ Tell /\ Steady(part) /\ Works(part)
Time ==
  \/ Scan /\ Mine({})
  \/ Tell /\ \E n \in early : Passes(n)

MCFairness ==
  /\ <>[][Calm]_MCVars /\ WF_MCVars(Task) /\ WF_MCVars(Time)
  /\ \A n \in Notices \ (Deaf \cup Rateless) : SF_MCVars(Tell /\ AcceptedFor(n))

MCSpec == MCInit /\ [][MCNext]_MCVars /\ MCFairness
=============================================================================
