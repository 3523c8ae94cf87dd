--------------------------- MODULE Notifications ---------------------------
(***************************************************************************)
(* Two tasks of the scheduler that tell merchants something and try again  *)
(* until they answer 202: payouts that succeeded, whose rows count their   *)
(* retries, and payments without confirmations, whose rows go away when    *)
(* the payment is confirmed.  Each task loads the oldest Batch rows that   *)
(* are due and posts them one after the other.                             *)
(***************************************************************************)
EXTENDS Naturals, Sequences, FiniteSets, SequencesExt

CONSTANTS
  Notices,      \* rows of notification and unconfirmed_transaction, in the order of ids
  OfPayout,     \* those of notification
  Deaf,         \* notices whose merchant never answers 202
  Rateless,     \* payout notices without a rate, or whose payout has no txid
  MaxRetries,   \* MAX_RETRIES
  Batch         \* the LIMIT of both queries

ASSUME NotificationsAssumption ==
  /\ Notices = 1..Cardinality(Notices) /\ OfPayout \subseteq Notices
  /\ Deaf \subseteq Notices /\ Rateless \subseteq OfPayout
  /\ MaxRetries \in Nat \ {0} /\ Batch \in Nat \ {0}

Kinds  == {"payout", "unconfirmed"}
Of(k)  == IF k = "payout" THEN OfPayout ELSE Notices \ OfPayout

VARIABLES
  notice,       \* per notice: "none", "due", "told", "removed"
  retries,      \* per notice
  early,        \* payout notices whose delay is not over
  round,        \* per task: the rows it has loaded and not dealt with
  posting       \* per task: what it is doing with the first of them

noticeVars == <<notice, retries, early, round, posting>>

NotificationsInit ==
  /\ notice = [n \in Notices |-> "none"] /\ retries = [n \in Notices |-> 0]
  /\ early = {}
  /\ round = [k \in Kinds |-> <<>>] /\ posting = [k \in Kinds |-> "no"]

(* CompletePayoutSuccess, AddUnconfirmed: the table gives the ids.         *)
Arise(n) ==
  /\ notice[n] = "none"
  /\ \A m \in Notices : m < n /\ (m \in OfPayout <=> n \in OfPayout) => notice[m] # "none"
  /\ notice' = [notice EXCEPT ![n] = "due"]
  /\ early' = early \cup ({n} \cap OfPayout)
  /\ UNCHANGED <<retries, round, posting>>

(* DeleteUnconfirmed, when the payment has been recorded.                  *)
DeleteUnconfirmed(n) ==
  /\ n \notin OfPayout /\ notice[n] \in {"due", "told"}
  /\ notice' = [notice EXCEPT ![n] = "removed"]
  /\ UNCHANGED <<retries, early, round, posting>>

(* (retries + 1)^2 seconds have passed since the row was written.          *)
Passes(n) ==
  /\ n \in early /\ early' = early \ {n}
  /\ UNCHANGED <<notice, retries, round, posting>>

(* A query without "retries < ?".                                          *)
EveryDue(k)  == {n \in Of(k) : notice[n] = "due"}
PendingOf(k) == {n \in Of(k) : notice[n] = "due" /\ (k = "payout" => retries[n] < MaxRetries)}
OldestOf(k) ==
  LET ids == SetToSortSeq(PendingOf(k), <) IN
    SubSeq(ids, 1, IF Len(ids) < Batch THEN Len(ids) ELSE Batch)

(* PendingNotifications, PendingUnconfirmedCallbacks.                      *)
LoadNotices(k) ==
  /\ round[k] = <<>> /\ PendingOf(k) # {}
  /\ round' = [round EXCEPT ![k] = OldestOf(k)]
  /\ UNCHANGED <<notice, retries, early, posting>>

Current(k) == Head(round[k])
Proceed(k) == round' = [round EXCEPT ![k] = Tail(@)] /\ posting' = [posting EXCEPT ![k] = "no"]

TooEarly(k) ==
  /\ round[k] # <<>> /\ posting[k] = "no" /\ Current(k) \in early
  /\ Proceed(k) /\ UNCHANGED <<notice, retries, early>>

(* The payout, its transaction and the rate are read for the message.      *)
Compose(k) ==
  /\ round[k] # <<>> /\ posting[k] = "no" /\ Current(k) \notin early \cup Rateless
  /\ posting' = [posting EXCEPT ![k] = "post"]
  /\ UNCHANGED <<notice, retries, early, round>>

(* Without one of them it stays as it is; no retry is counted.             *)
CannotCompose(k) ==
  /\ round[k] # <<>> /\ posting[k] = "no" /\ Current(k) \notin early
  /\ Proceed(k) /\ UNCHANGED <<notice, retries, early>>

Answered202(k) ==
  /\ posting[k] = "post" /\ Current(k) \notin Deaf
  /\ posting' = [posting EXCEPT ![k] = "mark"]
  /\ UNCHANGED <<notice, retries, early, round>>

NotAccepted(k) ==
  /\ posting[k] = "post"
  /\ IF k = "payout" THEN posting' = [posting EXCEPT ![k] = "count"] /\ UNCHANGED round
                     ELSE Proceed(k)
  /\ UNCHANGED <<notice, retries, early>>

(* IncrementNotificationRetry; the delay is longer now.  Bound: counts     *)
(* above MaxRetries act alike.                                             *)
Count(k) ==
  /\ posting[k] = "count" /\ Proceed(k)
  /\ retries' = [retries EXCEPT ![Current(k)] = IF @ < MaxRetries THEN @ + 1 ELSE @]
  /\ early' \in {early, early \cup {Current(k)}}
  /\ UNCHANGED notice

(* Mark...CallbackConfirmed, by id: nothing when the row is gone.          *)
Mark(k) ==
  /\ posting[k] = "mark" /\ Proceed(k)
  /\ notice' = [notice EXCEPT ![Current(k)] = IF @ = "due" THEN "told" ELSE @]
  /\ UNCHANGED <<retries, early>>

UpdateFails(k) ==
  /\ posting[k] \in {"count", "mark"} /\ Proceed(k)
  /\ UNCHANGED <<notice, retries, early>>

StopAndStart ==
  /\ round' = [k \in Kinds |-> <<>>] /\ posting' = [k \in Kinds |-> "no"]
  /\ UNCHANGED <<notice, retries, early>>

(* The task goes its way; and what may come in between.                    *)
Works(k) ==
  \/ LoadNotices(k) \/ TooEarly(k) \/ Compose(k) \/ CannotCompose(k)
  \/ Answered202(k) \/ NotAccepted(k) \/ Count(k) \/ Mark(k)

Rows(k) == \E n \in Of(k) : Arise(n) \/ DeleteUnconfirmed(n) \/ Passes(n)

KindNext(k) == Works(k) \/ UpdateFails(k) \/ Rows(k) \/ StopAndStart

NotificationsNext == \E k \in Kinds : KindNext(k)

(* A rate can be had for every other coin again, updates succeed, and the  *)
(* process stays up.                                                       *)
Steady(k) ==
  (Works(k) \/ Rows(k)) /\ (CannotCompose(k) => Current(k) \in Rateless)

AcceptedFor(n) == \E k \in Kinds : Answered202(k) /\ Current(k) = n

(* The tasks keep ticking, time passes, and a merchant that is posted to   *)
(* again and again answers 202 at some time, unless it is deaf.            *)
NotificationsFairness ==
  /\ <>[][\E k \in Kinds : Steady(k)]_noticeVars
  /\ \A k \in Kinds : WF_noticeVars(Steady(k) /\ Works(k))
  /\ WF_noticeVars(\E n \in early : Passes(n))
  /\ \A n \in Notices \ (Deaf \cup Rateless) : SF_noticeVars(AcceptedFor(n))

NotificationsSpec ==
  NotificationsInit /\ [][NotificationsNext]_noticeVars /\ NotificationsFairness

----------------------------------------------------------------------------
Ended(n) == notice[n] \in {"told", "removed"} \/ (n \in OfPayout /\ retries[n] >= MaxRetries)

Stuck == Rateless \cup (Deaf \ OfPayout)

(* Every notice that arises ends: it is accepted, its payment confirmed,   *)
(* or MAX_RETRIES refusals are counted, though every page holds only Batch *)
(* rows and a stuck one stays at its head; fewer than Batch rows are       *)
(* stuck.  (sendPayoutCallbacks, sendCallbacks)                            *)
EveryNoticeEnds == \A n \in Notices \ Stuck : (notice[n] = "due") ~> Ended(n)
=============================================================================
