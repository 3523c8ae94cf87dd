----------------------- MODULE DepositDispatch_proof -----------------------
(***************************************************************************)
(* What the dispatcher guarantees for any number of events, workers, slots *)
(* and attempts, whatever leases run out, stops and lost statements: an    *)
(* event is only closed after an answer, and as long as no claim outlived  *)
(* its lease it has one owner and a final state that stays.                *)
(***************************************************************************)
EXTENDS DepositDispatch, TLAPS

(* An event is at one place in a tick, and a tick that has not read its    *)
(* claim holds none.                                                       *)
TicksAreOrderly ==
  \A d \in Dispatchers :
    /\ dpc[d] # "dispatch" => Busy(d) = {}
    /\ batch[d] \cap calling[d] = {}
    /\ \A m \in marking[d] :
         /\ m.event \notin batch[d] \cup calling[d]
         /\ \A n \in marking[d] : n.event = m.event => n = m

(* A stamp is that of a running tick, on a claimed row.                    *)
TokensAreLive ==
  \A e \in Events : token[e] # nobody =>
    status[e] = "IN_PROGRESS" /\ dpc[token[e]] # "idle"

(* An outcome about to be written is the one the main service gave.        *)
MarksAreTrue ==
  \A d \in Dispatchers : \A m \in marking[d] : m.ok => m.event \in notified

Safety ==
  TicksAreOrderly /\ TokensAreLive /\ MarksAreTrue
  /\ DeliveredMeansNotified /\ OneOwner

----------------------------------------------------------------------------
(* Nothing is claimed at the start.                                        *)
LEMMA InitSafe == Init => TypeOK /\ Safety
BY DispatchAssumption DEF Init, TypeOK, Safety, TicksAreOrderly, TokensAreLive,
   MarksAreTrue, DeliveredMeansNotified, OneOwner, Busy

(* A claim takes claimable events only.                                    *)
LEMMA ClaimTakes ==
  ASSUME NEW d \in Dispatchers, Claim(d)
  PROVE  \E C \in SUBSET Claimable :
           /\ status' = [e \in Events |-> IF e \in C THEN "IN_PROGRESS" ELSE status[e]]
           /\ token' = [e \in Events |-> IF e \in C THEN d ELSE token[e]]
           /\ expired' = expired \ C
           /\ overrun' = overrun \cup {e \in C \cap expired :
                                        \E f \in Dispatchers : e \in Busy(f)}
BY DEF Claim, kSubset

(* Every step keeps the types.                                             *)
LEMMA NextType == TypeOK /\ [Next]_vars => TypeOK'
<1> SUFFICES ASSUME TypeOK, [Next]_vars PROVE TypeOK'
  OBVIOUS
<1> USE DispatchAssumption DEF TypeOK, rowVars, tickVars
<1>1. ASSUME NEW e \in Events, Insert(e) PROVE TypeOK'
  BY <1>1 DEF Insert
<1>2. ASSUME NEW e \in Events, Time(e) PROVE TypeOK'
  BY <1>2 DEF Time, BecomeDue, Expire
<1>3. ASSUME NEW d \in Dispatchers, Claim(d) PROVE TypeOK'
  BY <1>3, ClaimTakes DEF Claim, Claimable
<1>4. ASSUME NEW d \in Dispatchers, ReadClaimed(d) PROVE TypeOK'
  BY <1>4 DEF ReadClaimed
<1>5. ASSUME NEW d \in Dispatchers, NEW e \in Events, Notify(d, e) PROVE TypeOK'
  BY <1>5 DEF Notify
<1>6. ASSUME NEW d \in Dispatchers, NEW e \in Events, Answered(d, e) PROVE TypeOK'
  <2>1. [event |-> e, ok |-> TRUE] \in [event : Events, ok : BOOLEAN]
    OBVIOUS
  <2> QED BY <1>6, <2>1 DEF Answered, Outcome
<1>7. ASSUME NEW d \in Dispatchers, NEW e \in Events, NotAnswered(d, e) PROVE TypeOK'
  <2>1. [event |-> e, ok |-> FALSE] \in [event : Events, ok : BOOLEAN]
    OBVIOUS
  <2> QED BY <1>7, <2>1 DEF NotAnswered, Outcome
<1>8. ASSUME NEW d \in Dispatchers, NEW e \in Events, MarkDelivered(d, e) PROVE TypeOK'
  BY <1>8 DEF MarkDelivered
<1>9. ASSUME NEW d \in Dispatchers, NEW e \in Events, MarkFailed(d, e) PROVE TypeOK'
  BY <1>9 DEF MarkFailed, FailedStatus
<1>10. ASSUME NEW d \in Dispatchers, NEW e \in Events, MarkLost(d, e) PROVE TypeOK'
  BY <1>10 DEF MarkLost
<1>11. ASSUME NEW d \in Dispatchers, EndTick(d) PROVE TypeOK'
  BY <1>11 DEF EndTick, Disown
<1>12. ASSUME NEW d \in Dispatchers, Stop(d) PROVE TypeOK'
  BY <1>12 DEF Stop, Disown
<1>13. CASE UNCHANGED vars
  BY <1>13 DEF vars
<1> QED BY <1>1, <1>2, <1>3, <1>4, <1>5, <1>6, <1>7, <1>8, <1>9, <1>10, <1>11, <1>12, <1>13
        DEF Next, Undisturbed, Tick, Work

(* Every step keeps the invariant.                                         *)
LEMMA NextSafe == TypeOK /\ Safety /\ [Next]_vars => Safety'
<1> SUFFICES ASSUME TypeOK, Safety, [Next]_vars PROVE Safety'
  OBVIOUS
<1> USE DispatchAssumption DEF rowVars, tickVars, Busy
<1>0. TypeOK'
  BY NextType
<1>1. ASSUME NEW e \in Events, Insert(e) PROVE Safety'
  <2>1. TicksAreOrderly'
    BY <1>1, <1>0 DEF Insert, TypeOK, Safety, TicksAreOrderly
  <2>2. TokensAreLive'
    BY <1>1, <1>0 DEF Insert, TypeOK, Safety, TokensAreLive
  <2>3. MarksAreTrue'
    BY <1>1, <1>0 DEF Insert, TypeOK, Safety, MarksAreTrue
  <2>4. DeliveredMeansNotified'
    BY <1>1, <1>0 DEF Insert, TypeOK, Safety, DeliveredMeansNotified,
       MarksAreTrue
  <2>5. OneOwner'
    BY <1>1, <1>0 DEF Insert, TypeOK, Safety, OneOwner
  <2> QED BY <2>1, <2>2, <2>3, <2>4, <2>5 DEF Safety
<1>2. ASSUME NEW e \in Events, Time(e) PROVE Safety'
  <2>1. TicksAreOrderly'
    BY <1>2, <1>0 DEF Time, BecomeDue, Expire, TypeOK, Safety,
       TicksAreOrderly
  <2>2. TokensAreLive'
    BY <1>2, <1>0 DEF Time, BecomeDue, Expire, TypeOK, Safety, TokensAreLive
  <2>3. MarksAreTrue'
    BY <1>2, <1>0 DEF Time, BecomeDue, Expire, TypeOK, Safety, MarksAreTrue
  <2>4. DeliveredMeansNotified'
    BY <1>2, <1>0 DEF Time, BecomeDue, Expire, TypeOK, Safety,
       DeliveredMeansNotified, MarksAreTrue
  <2>5. OneOwner'
    BY <1>2, <1>0 DEF Time, BecomeDue, Expire, TypeOK, Safety, OneOwner
  <2> QED BY <2>1, <2>2, <2>3, <2>4, <2>5 DEF Safety
<1>3. ASSUME NEW d \in Dispatchers, Claim(d) PROVE Safety'
  <2>1. TicksAreOrderly'
    BY <1>3, <1>0, ClaimTakes DEF Claim, Claimable, TypeOK, Safety,
       TicksAreOrderly
  <2>2. TokensAreLive'
    BY <1>3, <1>0, ClaimTakes DEF Claim, Claimable, TypeOK, Safety,
       TokensAreLive
  <2>3. MarksAreTrue'
    BY <1>3, <1>0, ClaimTakes DEF Claim, Claimable, TypeOK, Safety,
       MarksAreTrue
  <2>4. DeliveredMeansNotified'
    BY <1>3, <1>0, ClaimTakes DEF Claim, Claimable, TypeOK, Safety,
       DeliveredMeansNotified, MarksAreTrue
  <2>5. OneOwner'
    <3>1. UNCHANGED <<batch, calling, marking>>
      BY <1>3 DEF Claim
    <3>2. PICK C \in SUBSET Claimable :
             /\ status' = [e \in Events |-> IF e \in C THEN "IN_PROGRESS" ELSE status[e]]
             /\ token' = [e \in Events |-> IF e \in C THEN d ELSE token[e]]
             /\ overrun' = overrun \cup {e \in C \cap expired :
                                          \E f \in Dispatchers : e \in Busy(f)}
      BY <1>3, ClaimTakes
    <3>3. ASSUME NEW e \in Events \ overrun', NEW f \in Dispatchers, e \in Busy(f)
          PROVE  e \notin C /\ e \notin overrun
      <4>1. e \notin overrun
        BY <3>2, <3>3
      <4>2. status[e] = "IN_PROGRESS"
        BY <3>3, <4>1 DEF Safety, OneOwner
      <4>3. e \in C => e \in expired
        BY <3>2, <4>2 DEF Claimable
      <4> QED BY <3>2, <3>3, <4>1, <4>3
    <3> QED BY <3>1, <3>2, <3>3 DEF TypeOK, Safety, OneOwner
  <2> QED BY <2>1, <2>2, <2>3, <2>4, <2>5 DEF Safety
<1>4. ASSUME NEW d \in Dispatchers, ReadClaimed(d) PROVE Safety'
  <2>1. TicksAreOrderly'
    BY <1>4, <1>0 DEF ReadClaimed, TypeOK, Safety, TicksAreOrderly
  <2>2. TokensAreLive'
    BY <1>4, <1>0 DEF ReadClaimed, TypeOK, Safety, TokensAreLive
  <2>3. MarksAreTrue'
    BY <1>4, <1>0 DEF ReadClaimed, TypeOK, Safety, MarksAreTrue
  <2>4. DeliveredMeansNotified'
    BY <1>4, <1>0 DEF ReadClaimed, TypeOK, Safety, DeliveredMeansNotified,
       MarksAreTrue
  <2>5. OneOwner'
    BY <1>4, <1>0 DEF ReadClaimed, TypeOK, Safety, OneOwner, TicksAreOrderly
  <2> QED BY <2>1, <2>2, <2>3, <2>4, <2>5 DEF Safety
<1>5. ASSUME NEW d \in Dispatchers, NEW e \in Events, Notify(d, e) PROVE Safety'
  <2>1. TicksAreOrderly'
    BY <1>5, <1>0 DEF Notify, TypeOK, Safety, TicksAreOrderly
  <2>2. TokensAreLive'
    BY <1>5, <1>0 DEF Notify, TypeOK, Safety, TokensAreLive
  <2>3. MarksAreTrue'
    BY <1>5, <1>0 DEF Notify, TypeOK, Safety, MarksAreTrue
  <2>4. DeliveredMeansNotified'
    BY <1>5, <1>0 DEF Notify, TypeOK, Safety, DeliveredMeansNotified,
       MarksAreTrue
  <2>5. OneOwner'
    BY <1>5, <1>0 DEF Notify, TypeOK, Safety, OneOwner
  <2> QED BY <2>1, <2>2, <2>3, <2>4, <2>5 DEF Safety
<1>6. ASSUME NEW d \in Dispatchers, NEW e \in Events, Answered(d, e) PROVE Safety'
  <2>1. TicksAreOrderly'
    BY <1>6, <1>0 DEF Answered, Outcome, TypeOK, Safety, TicksAreOrderly
  <2>2. TokensAreLive'
    BY <1>6, <1>0 DEF Answered, Outcome, TypeOK, Safety, TokensAreLive
  <2>3. MarksAreTrue'
    BY <1>6, <1>0 DEF Answered, Outcome, TypeOK, Safety, MarksAreTrue
  <2>4. DeliveredMeansNotified'
    BY <1>6, <1>0 DEF Answered, Outcome, TypeOK, Safety,
       DeliveredMeansNotified, MarksAreTrue
  <2>5. OneOwner'
    BY <1>6, <1>0 DEF Answered, Outcome, TypeOK, Safety, OneOwner
  <2> QED BY <2>1, <2>2, <2>3, <2>4, <2>5 DEF Safety
<1>7. ASSUME NEW d \in Dispatchers, NEW e \in Events, NotAnswered(d, e) PROVE Safety'
  <2>1. TicksAreOrderly'
    BY <1>7, <1>0 DEF NotAnswered, Outcome, TypeOK, Safety, TicksAreOrderly
  <2>2. TokensAreLive'
    BY <1>7, <1>0 DEF NotAnswered, Outcome, TypeOK, Safety, TokensAreLive
  <2>3. MarksAreTrue'
    BY <1>7, <1>0 DEF NotAnswered, Outcome, TypeOK, Safety, MarksAreTrue
  <2>4. DeliveredMeansNotified'
    BY <1>7, <1>0 DEF NotAnswered, Outcome, TypeOK, Safety,
       DeliveredMeansNotified, MarksAreTrue
  <2>5. OneOwner'
    BY <1>7, <1>0 DEF NotAnswered, Outcome, TypeOK, Safety, OneOwner
  <2> QED BY <2>1, <2>2, <2>3, <2>4, <2>5 DEF Safety
<1>8. ASSUME NEW d \in Dispatchers, NEW e \in Events, MarkDelivered(d, e) PROVE Safety'
  <2>1. TicksAreOrderly'
    BY <1>8, <1>0 DEF MarkDelivered, TypeOK, Safety, TicksAreOrderly
  <2>2. TokensAreLive'
    BY <1>8, <1>0 DEF MarkDelivered, TypeOK, Safety, TokensAreLive,
       TicksAreOrderly
  <2>3. MarksAreTrue'
    BY <1>8, <1>0 DEF MarkDelivered, TypeOK, Safety, MarksAreTrue
  <2>4. DeliveredMeansNotified'
    BY <1>8, <1>0 DEF MarkDelivered, TypeOK, Safety, DeliveredMeansNotified,
       MarksAreTrue
  <2>5. OneOwner'
    BY <1>8, <1>0 DEF MarkDelivered, TypeOK, Safety, OneOwner,
       TicksAreOrderly
  <2> QED BY <2>1, <2>2, <2>3, <2>4, <2>5 DEF Safety
<1>9. ASSUME NEW d \in Dispatchers, NEW e \in Events, MarkFailed(d, e) PROVE Safety'
  <2>1. TicksAreOrderly'
    BY <1>9, <1>0 DEF MarkFailed, FailedStatus, TypeOK, Safety,
       TicksAreOrderly
  <2>2. TokensAreLive'
    BY <1>9, <1>0 DEF MarkFailed, FailedStatus, TypeOK, Safety,
       TokensAreLive, TicksAreOrderly
  <2>3. MarksAreTrue'
    BY <1>9, <1>0 DEF MarkFailed, FailedStatus, TypeOK, Safety, MarksAreTrue
  <2>4. DeliveredMeansNotified'
    BY <1>9, <1>0 DEF MarkFailed, FailedStatus, TypeOK, Safety,
       DeliveredMeansNotified, MarksAreTrue
  <2>5. OneOwner'
    BY <1>9, <1>0 DEF MarkFailed, FailedStatus, TypeOK, Safety, OneOwner,
       TicksAreOrderly
  <2> QED BY <2>1, <2>2, <2>3, <2>4, <2>5 DEF Safety
<1>10. ASSUME NEW d \in Dispatchers, NEW e \in Events, MarkLost(d, e) PROVE Safety'
  <2>1. TicksAreOrderly'
    BY <1>10, <1>0 DEF MarkLost, TypeOK, Safety, TicksAreOrderly
  <2>2. TokensAreLive'
    BY <1>10, <1>0 DEF MarkLost, TypeOK, Safety, TokensAreLive
  <2>3. MarksAreTrue'
    BY <1>10, <1>0 DEF MarkLost, TypeOK, Safety, MarksAreTrue
  <2>4. DeliveredMeansNotified'
    BY <1>10, <1>0 DEF MarkLost, TypeOK, Safety, DeliveredMeansNotified,
       MarksAreTrue
  <2>5. OneOwner'
    BY <1>10, <1>0 DEF MarkLost, TypeOK, Safety, OneOwner
  <2> QED BY <2>1, <2>2, <2>3, <2>4, <2>5 DEF Safety
<1>11. ASSUME NEW d \in Dispatchers, EndTick(d) PROVE Safety'
  <2>1. TicksAreOrderly'
    BY <1>11, <1>0 DEF EndTick, Disown, TypeOK, Safety, TicksAreOrderly
  <2>2. TokensAreLive'
    BY <1>11, <1>0 DEF EndTick, Disown, TypeOK, Safety, TokensAreLive
  <2>3. MarksAreTrue'
    BY <1>11, <1>0 DEF EndTick, Disown, TypeOK, Safety, MarksAreTrue
  <2>4. DeliveredMeansNotified'
    BY <1>11, <1>0 DEF EndTick, Disown, TypeOK, Safety,
       DeliveredMeansNotified, MarksAreTrue
  <2>5. OneOwner'
    BY <1>11, <1>0 DEF EndTick, Disown, TypeOK, Safety, OneOwner
  <2> QED BY <2>1, <2>2, <2>3, <2>4, <2>5 DEF Safety
<1>12. ASSUME NEW d \in Dispatchers, Stop(d) PROVE Safety'
  <2>1. TicksAreOrderly'
    BY <1>12, <1>0 DEF Stop, Disown, TypeOK, Safety, TicksAreOrderly
  <2>2. TokensAreLive'
    BY <1>12, <1>0 DEF Stop, Disown, TypeOK, Safety, TokensAreLive
  <2>3. MarksAreTrue'
    BY <1>12, <1>0 DEF Stop, Disown, TypeOK, Safety, MarksAreTrue
  <2>4. DeliveredMeansNotified'
    BY <1>12, <1>0 DEF Stop, Disown, TypeOK, Safety, DeliveredMeansNotified,
       MarksAreTrue
  <2>5. OneOwner'
    BY <1>12, <1>0 DEF Stop, Disown, TypeOK, Safety, OneOwner
  <2> QED BY <2>1, <2>2, <2>3, <2>4, <2>5 DEF Safety
<1>13. CASE UNCHANGED vars
  <2>1. TicksAreOrderly'
    BY <1>13, <1>0 DEF vars, TypeOK, Safety, TicksAreOrderly
  <2>2. TokensAreLive'
    BY <1>13, <1>0 DEF vars, TypeOK, Safety, TokensAreLive
  <2>3. MarksAreTrue'
    BY <1>13, <1>0 DEF vars, TypeOK, Safety, MarksAreTrue
  <2>4. DeliveredMeansNotified'
    BY <1>13, <1>0 DEF vars, TypeOK, Safety, DeliveredMeansNotified,
       MarksAreTrue
  <2>5. OneOwner'
    BY <1>13, <1>0 DEF vars, TypeOK, Safety, OneOwner
  <2> QED BY <2>1, <2>2, <2>3, <2>4, <2>5 DEF Safety
<1> QED BY <1>1, <1>2, <1>3, <1>4, <1>5, <1>6, <1>7, <1>8, <1>9, <1>10, <1>11, <1>12, <1>13
        DEF Next, Undisturbed, Tick, Work

----------------------------------------------------------------------------
(* The invariant holds in every reachable state.                           *)
LEMMA Inductive == Spec => [](TypeOK /\ Safety)
<1>1. Init => TypeOK /\ Safety
  BY InitSafe
<1>2. TypeOK /\ Safety /\ [Next]_vars => (TypeOK /\ Safety)'
  BY NextType, NextSafe
<1> QED BY <1>1, <1>2, PTL DEF Spec

(* Rows and ticks have their types.                                        *)
THEOREM TypeCorrect == Spec => []TypeOK
BY Inductive, PTL

(* An event is closed as delivered only after the main service answered.   *)
THEOREM DeliveredNotified == Spec => []DeliveredMeansNotified
<1>1. TypeOK /\ Safety => DeliveredMeansNotified
  BY DEF Safety
<1> QED BY <1>1, Inductive, PTL

(* Whoever works on an event whose claim did not outlive its lease holds   *)
(* the claim, and nobody else works on it.                                 *)
THEOREM SingleOwner == Spec => []OneOwner
<1>1. TypeOK /\ Safety => OneOwner
  BY DEF Safety
<1> QED BY <1>1, Inductive, PTL

(* Delivered and dead events stay so, unless a claim outlived its lease.   *)
THEOREM FinalStays == Spec => FinalUnlessOverrun
<1> DEFINE Stays ==
      \A e \in Events \ overrun :
        status[e] \in {"DELIVERED", "DEAD"} => status'[e] = status[e]
<1>1. TypeOK /\ Safety /\ [Next]_vars => Stays
  <2> SUFFICES ASSUME TypeOK, Safety, [Next]_vars PROVE Stays
    OBVIOUS
  <2> USE DispatchAssumption DEF TypeOK
  <2>1. ASSUME NEW e \in Events, Insert(e) PROVE Stays
    BY <2>1 DEF Insert
  <2>2. ASSUME NEW d \in Dispatchers, Claim(d) PROVE Stays
    BY <2>2, ClaimTakes DEF Claimable
  <2>3. ASSUME NEW d \in Dispatchers, NEW e \in Events,
               MarkDelivered(d, e) \/ MarkFailed(d, e)
        PROVE  Stays
    <3>1. e \in Busy(d)
      BY <2>3 DEF MarkDelivered, MarkFailed, Busy
    <3>2. e \notin overrun => status[e] = "IN_PROGRESS"
      BY <3>1 DEF Safety, OneOwner
    <3> QED BY <2>3, <3>2 DEF MarkDelivered, MarkFailed
  <2>4. CASE UNCHANGED status
    BY <2>4
  <2>5. \/ \E e \in Events : Insert(e)
        \/ \E d \in Dispatchers : Claim(d)
        \/ \E d \in Dispatchers, e \in Events : MarkDelivered(d, e) \/ MarkFailed(d, e)
        \/ UNCHANGED status
    BY DEF Next, Undisturbed, Tick, Work, Time, BecomeDue, Expire, ReadClaimed, Notify,
           Answered, NotAnswered, MarkLost, EndTick, Stop, vars, rowVars
  <2> QED BY <2>1, <2>2, <2>3, <2>4, <2>5
<1> QED BY <1>1, Inductive, PTL DEF Spec, FinalUnlessOverrun
=============================================================================
