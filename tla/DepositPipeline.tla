--------------------------- MODULE DepositPipeline ---------------------------
(***************************************************************************)
(* From a deposit event to a balance: the dispatcher of a worker calls     *)
(* apiWalletNotify of the main service, which books the transaction's      *)
(* transfers.  The worker knows the answer only, and a call it has given   *)
(* up may still be served, or be made again beside the first one.          *)
(***************************************************************************)
EXTENDS InvoiceLedger

CONSTANTS
  TxOf,         \* the transaction an event is about
  Dispatchers, Events, BatchSize, Concurrency, MaxAttempts, nobody  \* of DepositDispatch

ASSUME PipelineAssumption == TxOf \in [Events -> TxIDs] /\ "notify" \in Endpoints

VARIABLES
  status, attempts, token, due, expired, dpc, batch, calling, marking, notified,
  overrun,          \* those of DepositDispatch
  serves,           \* per request: the call it answers, or NoCall
  slighted,         \* history: requests that left a transfer out
  excused           \* history: events answered by such a request, or ignored

Queue == INSTANCE DepositDispatch

queueVars    == <<status, attempts, token, due, expired, dpc, batch, calling, marking, notified,
                  overrun>>
pipelineVars == <<vars, queueVars, serves, slighted, excused>>

NoCall == [by |-> nobody, event |-> nobody]

PipelineInit ==
  /\ Init /\ Queue!Init
  /\ serves = [r \in Requests |-> NoCall] /\ slighted = {} /\ excused = {}

(* What the worker still waits for after a step of its own. *)
StillServed ==
  serves' = [r \in Requests |->
    IF serves[r] # NoCall /\ serves[r].event \in calling'[serves[r].by] THEN serves[r] ELSE NoCall]

(* The steps of the dispatcher that do not touch the main service.         *)
Worker ==
  /\ \/ \E e \in Events : Queue!Insert(e) \/ Queue!Time(e)
     \/ \E d \in Dispatchers :
          \/ Queue!Claim(d) \/ Queue!ReadClaimed(d) \/ Queue!EndTick(d) \/ Queue!Stop(d)
          \/ \E e \in Events : Queue!NotAnswered(d, e) \/ Queue!MarkDelivered(d, e)
                               \/ Queue!MarkFailed(d, e) \/ Queue!MarkLost(d, e)
  /\ StillServed
  /\ UNCHANGED <<vars, slighted, excused>>

(* The call arrives and the chain is asked for the transfers, or it fails. *)
Call(d, e) ==
  /\ Queue!Notify(d, e)
  /\ \/ \E r \in Requests :
          /\ WalletNotify(r, TxOf[e])
          /\ serves' = [serves EXCEPT ![r] = [by |-> d, event |-> e]]
     \/ UNCHANGED <<vars, serves>>
  /\ UNCHANGED <<slighted, excused>>

(* A coin that is not enabled is answered with 200 at once.                *)
Ignored(d, e) ==
  /\ Queue!Answered(d, e) /\ \A r \in Requests : serves[r] # [by |-> d, event |-> e]
  /\ excused' = excused \cup {e}
  /\ UNCHANGED <<vars, serves, slighted>>

(* 200, whatever became of the transfers.                                  *)
AnswerCall(r) ==
  /\ Reply(r)
  /\ IF serves[r] = NoCall THEN UNCHANGED <<queueVars, excused>>
     ELSE /\ Queue!Answered(serves[r].by, serves[r].event)
          /\ excused' = excused \cup {serves[r].event : s \in slighted \cap {r}}
  /\ serves' = [serves EXCEPT ![r] = NoCall] /\ slighted' = slighted \ {r}

(* A transfer without confirmations, an unreadable invoice and a failed    *)
(* statement leave a transfer out, and the request goes on.                *)
Handle(r) ==
  /\ \/ /\ Book(r) \/ Return(r)
        /\ UNCHANGED slighted
     \/ /\ Break(r) \/ \E t \in todo[r] : SeeUnconfirmed(r, t)
        /\ slighted' = slighted \cup {r}
  /\ UNCHANGED <<queueVars, serves, excused>>

CrashOfService ==
  /\ Crash
  /\ serves' = [r \in Requests |-> NoCall] /\ slighted' = {}
  /\ UNCHANGED <<queueVars, excused>>

Confirmed ==
  /\ \E x \in TxIDs : Mine(x)
  /\ UNCHANGED <<queueVars, serves, slighted, excused>>

PipelineNext ==
  \/ Worker \/ \E d \in Dispatchers, e \in Events : Call(d, e) \/ Ignored(d, e)
  \/ \E r \in Requests : AnswerCall(r) \/ Handle(r)
  \/ CrashOfService \/ Confirmed

PipelineSpec == PipelineInit /\ [][PipelineNext]_pipelineVars

----------------------------------------------------------------------------
(* The deposit of an event closed as delivered is in its invoice's balance *)
(* or about to be added by a request that recorded it, however often the   *)
(* call was repeated or given up.  Not so only if the request that was     *)
(* answered had left it out (it answers 200 all the same), the coin was    *)
(* ignored, or the balance has lost a row to a failure or another request. *)
(* (dispatchEVMDepositEvent, apiWalletNotify)                              *)
DeliveredIsCredited ==
  \A e \in Events \ excused : status[e] = "DELIVERED" =>
    \A t \in {u \in Transfers : u.tx = TxOf[e]} :
      \/ Key(t) \in counted[t.inv] \/ ~clean[t.inv]
      \/ \E r \in At("credit") : Key(cur[r]) = Key(t)
=============================================================================
