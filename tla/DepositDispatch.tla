--------------------------- MODULE DepositDispatch ---------------------------
(***************************************************************************)
(* The dispatcher of deposit events: an at-least-once queue in a table.    *)
(*                                                                         *)
(* A tick claims up to BatchSize due events with one UPDATE that stamps    *)
(* them with the tick's claim token, reads back the events that carry the  *)
(* token, and notifies the main service of each, Concurrency at a time;    *)
(* the outcome is written BY ID, whoever holds the claim by then.  A claim *)
(* whose lease has run out may be taken over by another tick.              *)
(***************************************************************************)
EXTENDS Integers, FiniteSets, FiniteSetsExt

CONSTANTS
  Dispatchers,   \* workers running evmDepositDispatchLoop for the module
  Events,        \* rows of chain_deposit_event
  BatchSize,     \* cfg.DepositDispatchBatchSize
  Concurrency,   \* depositDispatchConcurrency
  MaxAttempts,   \* depositEventMaxAttempts
  nobody         \* no claim token, or that of a tick that is over

ASSUME DispatchAssumption ==
  /\ BatchSize \in Nat \ {0} /\ Concurrency \in Nat \ {0}
  /\ MaxAttempts \in Nat \ {0}
  /\ nobody \notin Dispatchers

VARIABLES
  status,     \* chain_deposit_event.status; none: no such row yet
  attempts,   \* its attempts
  token,      \* the dispatcher whose current tick stamped it
  due,        \* rows whose next_attempt_at has come
  expired,    \* IN_PROGRESS rows not updated for the length of a lease
  dpc,        \* stage of a dispatcher's tick
  batch,      \* claimed events it has not begun to notify
  calling,    \* events it is notifying
  marking,    \* events whose outcome it has yet to write, with the outcome
  notified,   \* history: events the main service answered below 400 for
  overrun     \* history: events whose claim was taken over by another tick

rowVars  == <<status, attempts, token, due, expired>>
tickVars == <<dpc, batch, calling, marking>>
vars     == <<rowVars, tickVars, notified, overrun>>

Init ==
  /\ status = [e \in Events |-> "none"]
  /\ attempts = [e \in Events |-> 0]
  /\ token = [e \in Events |-> nobody]
  /\ due = {} /\ expired = {}
  /\ dpc = [d \in Dispatchers |-> "idle"]
  /\ batch = [d \in Dispatchers |-> {}]
  /\ calling = [d \in Dispatchers |-> {}]
  /\ marking = [d \in Dispatchers |-> {}]
  /\ notified = {} /\ overrun = {}

InsertQueued(e) ==
  /\ status[e] = "none"
  /\ status' = [status EXCEPT ![e] = "QUEUED"]
  /\ due' = due \cup {e}
  /\ UNCHANGED <<attempts, token, expired, tickVars, notified, overrun>>

(* The indexer inserts an event, PENDING and due at once.                  *)
Insert(e) ==
  /\ status[e] = "none"
  /\ status' = [status EXCEPT ![e] = "PENDING"]
  /\ due' = due \cup {e}
  /\ UNCHANGED <<attempts, token, expired, tickVars, notified, overrun>>

(* Time passes: a retry becomes due, a lease runs out.                     *)
BecomeDue(e) ==
  /\ status[e] # "none" /\ e \notin due
  /\ due' = due \cup {e}
  /\ UNCHANGED <<status, attempts, token, expired, tickVars, notified, overrun>>

Expire(e) ==
  /\ status[e] = "IN_PROGRESS" /\ e \notin expired
  /\ expired' = expired \cup {e}
  /\ UNCHANGED <<status, attempts, token, due, tickVars, notified, overrun>>

----------------------------------------------------------------------------
ClaimableAnyway ==
  {e \in due : /\ attempts[e] < MaxAttempts
               /\ status[e] \in {"PENDING", "FAILED", "IN_PROGRESS"}}

ClaimableDelivered ==
  {e \in due : /\ attempts[e] < MaxAttempts
               /\ status[e] = "IN_PROGRESS" => e \in expired}

ClaimableForgotten ==
  {e \in due : attempts[e] < MaxAttempts /\ status[e] \in {"PENDING", "FAILED"}}

Claimable ==
  {e \in due :
     /\ attempts[e] < MaxAttempts
     /\ \/ status[e] \in {"PENDING", "FAILED"}
        \/ status[e] = "IN_PROGRESS" /\ e \in expired}

Busy(d) == batch[d] \cup calling[d] \cup {m.event : m \in marking[d]}

(* The UPDATE of ClaimPendingDepositEvents.                                *)
Claim(d) ==
  /\ dpc[d] = "idle" /\ Claimable # {}
  /\ \E C \in kSubset(Min({BatchSize, Cardinality(Claimable)}), Claimable) :
       /\ status' = [e \in Events |-> IF e \in C THEN "IN_PROGRESS" ELSE status[e]]
       /\ token' = [e \in Events |-> IF e \in C THEN d ELSE token[e]]
       /\ expired' = expired \ C
       /\ overrun' = overrun \cup {e \in C \cap expired :
                                    \E f \in Dispatchers : e \in Busy(f)}
  /\ dpc' = [dpc EXCEPT ![d] = "claimed"]
  /\ UNCHANGED <<attempts, due, batch, calling, marking, notified>>

(* Its SELECT: the events that carry the token now.                        *)
ReadClaimed(d) ==
  /\ dpc[d] = "claimed"
  /\ batch' = [batch EXCEPT ![d] =
                 {e \in Events : status[e] = "IN_PROGRESS" /\ token[e] = d}]
  /\ dpc' = [dpc EXCEPT ![d] = "dispatch"]
  /\ UNCHANGED <<rowVars, calling, marking, notified, overrun>>

(* A goroutine takes a slot of the semaphore and calls notifyShkeeperWallet. *)
Notify(d, e) ==
  /\ dpc[d] = "dispatch" /\ e \in batch[d]
  /\ Cardinality(Busy(d) \ batch[d]) < Concurrency
  /\ batch' = [batch EXCEPT ![d] = @ \ {e}]
  /\ calling' = [calling EXCEPT ![d] = @ \cup {e}]
  /\ UNCHANGED <<rowVars, dpc, marking, notified, overrun>>

Outcome(d, e, delivered) ==
  /\ e \in calling[d]
  /\ calling' = [calling EXCEPT ![d] = @ \ {e}]
  /\ marking' = [marking EXCEPT ![d] = @ \cup {[event |-> e, ok |-> delivered]}]

(* The main service answers below 400.                                     *)
Answered(d, e) ==
  /\ Outcome(d, e, TRUE)
  /\ notified' = notified \cup {e}
  /\ UNCHANGED <<rowVars, dpc, batch, overrun>>

NotAnsweredDelivers(d, e) ==
  /\ Outcome(d, e, TRUE)
  /\ UNCHANGED <<rowVars, dpc, batch, notified, overrun>>

(* An error, or an answer that got lost on its way.                        *)
NotAnswered(d, e) ==
  /\ Outcome(d, e, FALSE)
  /\ UNCHANGED <<rowVars, dpc, batch, notified, overrun>>

(* MarkDepositEventDelivered.                                              *)
MarkDelivered(d, e) ==
  /\ [event |-> e, ok |-> TRUE] \in marking[d]
  /\ status' = [status EXCEPT ![e] = "DELIVERED"]
  /\ token' = [token EXCEPT ![e] = nobody]
  /\ expired' = expired \ {e}
  /\ marking' = [marking EXCEPT ![d] = @ \ {[event |-> e, ok |-> TRUE]}]
  /\ UNCHANGED <<attempts, due, dpc, batch, calling, notified, overrun>>

FailedStatus(e) == IF attempts[e] + 2 >= MaxAttempts THEN "DEAD" ELSE "FAILED"

(* MarkDepositEventFailed.  The database evaluates the assignments of its  *)
(* UPDATE from left to right: status is computed from the attempts already *)
(* counted up, plus one, so the event is dead one attempt before the last. *)
MarkFailed(d, e) ==
  /\ [event |-> e, ok |-> FALSE] \in marking[d]
  /\ attempts' = [attempts EXCEPT ![e] = @ + 1]
  /\ status' = [status EXCEPT ![e] = FailedStatus(e)]
  /\ token' = [token EXCEPT ![e] = nobody]
  /\ due' = due \ {e}
  /\ expired' = expired \ {e}
  /\ marking' = [marking EXCEPT ![d] = @ \ {[event |-> e, ok |-> FALSE]}]
  /\ UNCHANGED <<dpc, batch, calling, notified, overrun>>

(* The UPDATE fails: the row stays IN_PROGRESS until the lease runs out.   *)
MarkLost(d, e) ==
  /\ \E m \in marking[d] :
       m.event = e /\ marking' = [marking EXCEPT ![d] = @ \ {m}]
  /\ UNCHANGED <<rowVars, dpc, batch, calling, notified, overrun>>

(* The next tick has another token.                                        *)
Disown(d) ==
  token' = [e \in Events |-> IF token[e] = d THEN nobody ELSE token[e]]

(* wg.Wait returns.                                                        *)
EndTick(d) ==
  /\ dpc[d] = "dispatch" /\ Busy(d) = {}
  /\ dpc' = [dpc EXCEPT ![d] = "idle"]
  /\ Disown(d)
  /\ UNCHANGED <<status, attempts, due, expired, batch, calling, marking,
                 notified, overrun>>

(* The worker stops, or ClaimPendingDepositEvents fails half-way.          *)
Stop(d) ==
  /\ dpc[d] # "idle"
  /\ dpc' = [dpc EXCEPT ![d] = "idle"]
  /\ batch' = [batch EXCEPT ![d] = {}]
  /\ calling' = [calling EXCEPT ![d] = {}]
  /\ marking' = [marking EXCEPT ![d] = {}]
  /\ Disown(d)
  /\ UNCHANGED <<status, attempts, due, expired, notified, overrun>>

Work(d, e) ==
  \/ Notify(d, e) \/ Answered(d, e) \/ NotAnswered(d, e)
  \/ MarkDelivered(d, e) \/ MarkFailed(d, e)

Tick(d) ==
  \/ Claim(d) \/ ReadClaimed(d) \/ EndTick(d)
  \/ \E e \in Events : Work(d, e)

Time(e) == BecomeDue(e) \/ Expire(e)

Undisturbed ==
  \/ \E e \in Events : Insert(e) \/ Time(e)
  \/ \E d \in Dispatchers : Tick(d)

Next ==
  \/ Undisturbed
  \/ \E d \in Dispatchers : Stop(d) \/ \E e \in Events : MarkLost(d, e)

Spec == Init /\ [][Next]_vars

(* Only claims of ticks that are over run out of their lease.              *)
LeasesAreHonoured == \A e \in expired' \ expired : token[e] = nobody

(* Ticks go on, time passes, dispatchers stop failing, and at some time    *)
(* ticks get through within a lease: while they do not, two of them can    *)
(* take each other's claims before reading them for ever.                  *)
FairSpec ==
  /\ Spec
  /\ <>[][Undisturbed /\ LeasesAreHonoured]_vars
  /\ \A d \in Dispatchers : WF_vars(Tick(d))
  /\ \A e \in Events : WF_vars(Time(e))

----------------------------------------------------------------------------
(* Rows and ticks have their types.                                        *)
TypeOK ==
  /\ status \in [Events -> {"none", "PENDING", "IN_PROGRESS", "FAILED",
                            "DELIVERED", "DEAD"}]
  /\ attempts \in [Events -> Nat]
  /\ token \in [Events -> Dispatchers \cup {nobody}]
  /\ due \subseteq Events /\ expired \subseteq Events
  /\ dpc \in [Dispatchers -> {"idle", "claimed", "dispatch"}]
  /\ batch \in [Dispatchers -> SUBSET Events]
  /\ calling \in [Dispatchers -> SUBSET Events]
  /\ marking \in [Dispatchers -> SUBSET [event : Events, ok : BOOLEAN]]
  /\ notified \subseteq Events /\ overrun \subseteq Events

(* An event is only closed as delivered after the main service answered.   *)
DeliveredMeansNotified ==
  \A e \in Events : status[e] = "DELIVERED" => e \in notified

(* Unless a claim outlived its lease, an event is in the hands of one      *)
(* dispatcher, which holds the claim.                                      *)
OneOwner ==
  \A e \in Events \ overrun : \A d \in Dispatchers :
    e \in Busy(d) =>
      status[e] = "IN_PROGRESS" /\ token[e] = d
      /\ \A f \in Dispatchers : e \in Busy(f) => f = d

(* Delivered and dead events stay so, unless a claim outlived its lease.   *)
FinalUnlessOverrun ==
  [][\A e \in Events \ overrun :
       status[e] \in {"DELIVERED", "DEAD"} => status'[e] = status[e]]_vars

(* Every event is delivered or given up.                                   *)
EveryEventEnds ==
  \A e \in Events : status[e] # "none" ~> status[e] \in {"DELIVERED", "DEAD"}
=============================================================================
