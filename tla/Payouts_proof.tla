---------------------------- MODULE Payouts_proof ----------------------------
(***************************************************************************)
(* What payouts guarantee for any calls, lists and order ids, whatever is  *)
(* lost, fails or stops in the service and in the worker: an order is paid *)
(* once, a row marked as failed was not paid unless the outcome stayed     *)
(* unknown, rows carry transactions of their own call to their own         *)
(* address, and, if no list holds two payouts to one address, rows get     *)
(* their own transactions and the program implements PayoutSpec.           *)
(***************************************************************************)
EXTENDS Payouts, FiniteSetTheorems, WellFoundedInduction, TLAPS

DistinctDestinations ==
  \A c \in Calls : \A m, n \in DOMAIN CallItems[c] :
    Dest[CallItems[c][m]] = Dest[CallItems[c][n]] => m = n

(* An order id names one row.                                              *)
OrdersAreUnique ==
  \A i, j \in Items :
    SameOrder(i, j) /\ status[i] # None /\ status[j] # None => i = j

(* Until its items are handed over, a call owns their rows: those it has   *)
(* created are in progress, the others do not exist.                       *)
OwnsRows(c) ==
  /\ pc[c] = "idle" => pos[c] = 1 /\ \A i \in ItemsOf(c) : status[i] = None
  /\ pc[c] \in {"create", "cancel"} =>
       /\ pos[c] <= Len(CallItems[c])
       /\ \A n \in 1 .. pos[c] - 1 : status[CallItems[c][n]] = "IN_PROGRESS"
  /\ pc[c] = "create" =>
       \A n \in pos[c] .. Len(CallItems[c]) : status[CallItems[c][n]] = None
  /\ pc[c] \in {"send", "waiting"} =>
       pos[c] = 1 /\ \A i \in ItemsOf(c) : status[i] = "IN_PROGRESS"
  /\ pc[c] = "attach" => pos[c] <= Len(CallItems[c]) /\ reply[c] = "ok"

(* The worker acts on recorded items, after the service has sent them.     *)
WorkIsRecorded(c) ==
  /\ pc[c] \in {"idle", "create", "cancel", "send"} => wpc[c] = "idle"
  /\ wpc[c] # "idle" => \A i \in ItemsOf(c) : status[i] # None

(* Only rows whose call got its reply have a task.                         *)
AttachedHasReply(c) ==
  \A i \in ItemsOf(c) \cap attached :
    pc[c] \in {"attach", "done"} /\ reply[c] = "ok"

(* An item is broadcast once, and the worker remembers what it has sent.   *)
WorkIsRemembered(c) ==
  /\ wpc[c] \in {"idle", "task"} => wpos[c] = 1
  /\ wpc[c] # "over" => reply[c] = None
  /\ \A n \in wpos[c] .. Len(CallItems[c]) :
       CallItems[c][n] \notin chain \cup failed
  /\ \A n \in DOMAIN sent[c] : sent[c][n] \in ItemsOf(c)
  /\ \A i \in ItemsOf(c) \cap chain :
       i \in doubtful \/ \E n \in DOMAIN sent[c] : sent[c][n] = i

(* What the worker reports is what it remembers.                           *)
ReportIsTrue(c) ==
  /\ task[c] \in {"SUCCESS", "PARTIAL", "FAIL"} =>
       wpos[c] > Len(CallItems[c]) /\ task[c] = Outcome(c)
  /\ reply[c] = "ok" => task[c] \in {"SUCCESS", "PARTIAL", "FAIL"}
  /\ reply[c] = "error" => \A i \in ItemsOf(c) \cap chain : i \in doubtful

(* A row marked as failed is none that the worker has paid or will pay.    *)
FailedIsSettled(c) ==
  \A i \in ItemsOf(c) \ doubtful :
    status[i] = "FAIL" => i \notin chain /\ wpc[c] \in {"idle", "over"}

CallSafe(c) ==
  /\ OwnsRows(c) /\ WorkIsRecorded(c) /\ AttachedHasReply(c)
  /\ WorkIsRemembered(c) /\ ReportIsTrue(c) /\ FailedIsSettled(c)

(* The poller is only ever at an attached row in progress.                 *)
PollingIsDue == \A i \in polling : i \in attached /\ status[i] = "IN_PROGRESS"

(* A failed broadcast paid nothing, as far as the worker knows.            *)
FailuresAreHonest == failed \cap chain \subseteq doubtful

Safety ==
  /\ OrdersAreUnique /\ PollingIsDue /\ FailuresAreHonest
  /\ \A c \in Calls : CallSafe(c)

(* A step that concerns one call leaves what the others rely on alone.     *)
Untouched(d) ==
  /\ pc'[d] = pc[d] /\ pos'[d] = pos[d] /\ wpc'[d] = wpc[d] /\ wpos'[d] = wpos[d]
  /\ task'[d] = task[d] /\ sent'[d] = sent[d] /\ reply'[d] = reply[d]
  /\ \A i \in ItemsOf(d) :
       /\ status'[i] = status[i]
       /\ i \in chain' <=> i \in chain
       /\ i \in failed' <=> i \in failed
       /\ i \in attached' <=> i \in attached
       /\ i \in doubtful => i \in doubtful'

----------------------------------------------------------------------------
(* An item belongs to one place of one call.                               *)
LEMMA ItemPlace ==
  /\ \A c \in Calls : ItemsOf(c) \subseteq Items
  /\ \A c, d \in Calls : \A i \in ItemsOf(c) : i \in ItemsOf(d) => c = d
  /\ \A i \in Items : CallOf(i) \in Calls /\ i \in ItemsOf(CallOf(i))
  /\ \A c \in Calls : \A i \in ItemsOf(c) : i \in Items /\ CallOf(i) = c
<1>1. \A c \in Calls : \A i \in ItemsOf(c) :
        \E n \in DOMAIN CallItems[c] : i = CallItems[c][n] /\ i \in Items
  BY CallsAssumption DEF ItemsOf
<1>2. \A c, d \in Calls : \A i \in ItemsOf(c) : i \in ItemsOf(d) => c = d
  BY CallsAssumption DEF ItemsOf
<1>3. \A i \in Items : CallOf(i) \in Calls /\ i \in ItemsOf(CallOf(i))
  BY CallsAssumption DEF CallOf
<1> QED BY <1>1, <1>2, <1>3

(* The places of a call.                                                   *)
LEMMA ItemAt ==
  ASSUME NEW c \in Calls
  PROVE  /\ Len(CallItems[c]) \in Nat \ {0}
         /\ DOMAIN CallItems[c] = 1 .. Len(CallItems[c])
         /\ \A n \in 1 .. Len(CallItems[c]) : CallItems[c][n] \in ItemsOf(c)
         /\ \A i \in ItemsOf(c) : \E n \in 1 .. Len(CallItems[c]) : i = CallItems[c][n]
<1>1. CallItems[c] \in Seq(Items) /\ CallItems[c] # <<>>
  BY CallsAssumption
<1>2. Len(CallItems[c]) \in Nat \ {0} /\ DOMAIN CallItems[c] = 1 .. Len(CallItems[c])
  BY <1>1
<1> QED BY <1>2 DEF ItemsOf

(* Two places of calls hold different items.                               *)
LEMMA ItemsDiffer ==
  ASSUME NEW c \in Calls, NEW d \in Calls,
         NEW m \in 1 .. Len(CallItems[c]), NEW n \in 1 .. Len(CallItems[d]),
         CallItems[c][m] = CallItems[d][n]
  PROVE  c = d /\ m = n
<1>1. m \in DOMAIN CallItems[c] /\ n \in DOMAIN CallItems[d]
  BY ItemAt
<1> QED BY <1>1, CallsAssumption

(* A result for a destination has a first one.                             *)
LEMMA FirstToExists ==
  ASSUME NEW results \in Seq(Items), NEW d, NEW k \in DOMAIN results,
         Dest[results[k]] = d
  PROVE  FirstTo(results, d) # {}
<1> DEFINE S == {n \in DOMAIN results : Dest[results[n]] = d}
<1>1. S \subseteq Nat /\ S # {} /\ DOMAIN results = 1 .. Len(results)
  OBVIOUS
<1>2. PICK x \in S : \A y \in S : ~ (<<y, x>> \in OpToRel(<, Nat))
  <2> HIDE DEF OpToRel, S
  <2> QED BY <1>1, NatLessThanWellFounded, WFMin
<1>3. \A y \in S : ~ (y < x)
  BY <1>1, <1>2 DEF OpToRel
<1>4. x \in FirstTo(results, d)
  BY <1>1, <1>3 DEF FirstTo
<1> QED BY <1>4

(* There is at most one first.                                             *)
LEMMA FirstToIsOne ==
  ASSUME NEW results \in Seq(Items), NEW d
  PROVE  \/ FirstTo(results, d) = {}
         \/ \E n \in 1 .. Len(results) : FirstTo(results, d) = {n}
<1>1. \A m, n \in FirstTo(results, d) : m = n
  BY DEF FirstTo
<1>2. FirstTo(results, d) \subseteq 1 .. Len(results)
  BY DEF FirstTo
<1> QED BY <1>1, <1>2

(* Taking a result away leaves the others in their order.                  *)
LEMMA WithoutType ==
  ASSUME NEW S, NEW results \in Seq(Items), NEW d,
         \A n \in DOMAIN results : results[n] \in S
  PROVE  LET rest == Without(results, FirstTo(results, d))
         IN  /\ S \subseteq Items => rest \in Seq(Items)
             /\ \A n \in DOMAIN rest : rest[n] \in S
<1> DEFINE N    == FirstTo(results, d)
           rest == Without(results, N)
<1>1. CASE N = {}
  <2>1. Cardinality(N) = 0
    BY <1>1, FS_EmptySet
  <2>2. rest = [n \in 1 .. Len(results) |-> results[n]]
    BY <1>1, <2>1 DEF Without
  <2> QED BY <2>2
<1>2. ASSUME NEW m \in 1 .. Len(results), N = {m} PROVE
        /\ S \subseteq Items => rest \in Seq(Items)
        /\ \A n \in DOMAIN rest : rest[n] \in S
  <2>1. Cardinality(N) = 1
    BY <1>2, FS_Singleton
  <2>2. rest = [n \in 1 .. Len(results) - 1 |->
                  IF n >= m THEN results[n + 1] ELSE results[n]]
    BY <1>2, <2>1 DEF Without
  <2>3. \A n \in 1 .. Len(results) - 1 : results[n] \in S /\ results[n + 1] \in S
    OBVIOUS
  <2> QED BY <2>2, <2>3
<1> QED BY <1>1, <1>2, FirstToIsOne

(* A task's results are items.                                             *)
LEMMA FoundItems ==
  ASSUME TypeOK, NEW i \in Items PROVE Found(i) \subseteq Items
<1>1. sent[CallOf(i)] \in Seq(Items)
  BY ItemPlace DEF TypeOK
<1> QED BY <1>1 DEF Found, FirstTo

(* A row is marked or the marking fails; no other row is touched.          *)
LEMMA MarkFailTakes ==
  ASSUME NEW S, MarkPayoutFail(S)
  PROVE  \E F \in SUBSET S :
           status' = [i \in Items |-> IF i \in F THEN "FAIL" ELSE status[i]]
BY DEF MarkPayoutFail

(* The rows a call has created are items of it.                            *)
LEMMA CreatedItems ==
  ASSUME TypeOK, NEW c \in Calls, pos[c] <= Len(CallItems[c])
  PROVE  Created(c) \subseteq ItemsOf(c)
BY ItemAt DEF TypeOK, Created

(* The next item of a call, and where the call goes after it.              *)
LEMMA AdvanceMoves ==
  ASSUME TypeOK, NEW c \in Calls, NEW stage, Advance(c, stage), pos[c] <= Len(CallItems[c])
  PROVE  /\ pos[c] \in 1 .. Len(CallItems[c])
         /\ \/ /\ pos[c] = Len(CallItems[c])
               /\ pos' = [pos EXCEPT ![c] = 1] /\ pc' = [pc EXCEPT ![c] = stage]
            \/ /\ pos[c] < Len(CallItems[c])
               /\ pos' = [pos EXCEPT ![c] = pos[c] + 1] /\ pc' = pc
<1>1. pos[c] \in 1 .. Len(CallItems[c])
  BY ItemAt DEF TypeOK
<1>2. [pc EXCEPT ![c] = pc[c]] = pc
  BY DEF TypeOK
<1>3. CASE pos[c] = Len(CallItems[c])
  BY <1>1, <1>3 DEF Advance, Goto
<1>4. CASE pos[c] # Len(CallItems[c])
  <2>1. pos[c] < Len(CallItems[c])
    BY <1>1, <1>4, ItemAt
  <2> QED BY <1>1, <1>2, <1>4, <2>1 DEF Advance, Goto
<1> QED BY <1>3, <1>4

(* A call that nothing concerns stays safe.                                *)
LEMMA UntouchedSafe ==
  ASSUME TypeOK, NEW d \in Calls, CallSafe(d), Untouched(d)
  PROVE  CallSafe(d)'
<1> USE DEF Untouched
<1>1. \A n \in 1 .. Len(CallItems[d]) : CallItems[d][n] \in ItemsOf(d)
  BY ItemAt
<1>2. Len(CallItems[d]) \in Nat /\ pos[d] \in Nat \ {0} /\ wpos[d] \in Nat \ {0}
  BY ItemAt DEF TypeOK
<1>3. Outcome(d)' = Outcome(d)
  <2>1. (ItemsOf(d) \subseteq failed') <=> (ItemsOf(d) \subseteq failed)
    OBVIOUS
  <2>2. (failed' \cap ItemsOf(d) # {}) <=> (failed \cap ItemsOf(d) # {})
    OBVIOUS
  <2> QED BY <2>1, <2>2 DEF Outcome
<1>4. OwnsRows(d)'
  BY <1>1, <1>2 DEF CallSafe, OwnsRows
<1>5. WorkIsRecorded(d)' /\ AttachedHasReply(d)' /\ FailedIsSettled(d)'
  BY DEF CallSafe, WorkIsRecorded, AttachedHasReply, FailedIsSettled
<1>6. WorkIsRemembered(d)'
  BY <1>1, <1>2 DEF CallSafe, WorkIsRemembered
<1>7. ReportIsTrue(d)'
  BY <1>3 DEF CallSafe, ReportIsTrue
<1> QED BY <1>4, <1>5, <1>6, <1>7 DEF CallSafe

(* A step that opens no row keeps orders unique.                           *)
LEMMA OrdersKept ==
  ASSUME OrdersAreUnique, \A i \in Items : status'[i] # None => status[i] # None
  PROVE  OrdersAreUnique'
BY DEF OrdersAreUnique, SameOrder

(* So does the unique index.                                               *)
LEMMA OrdersOpened ==
  ASSUME TypeOK, OrdersAreUnique, NEW i \in Items, ~Taken(i),
         status' = [status EXCEPT ![i] = "IN_PROGRESS"]
  PROVE  OrdersAreUnique'
<1>1. \A j \in Items : SameOrder(i, j) => status[j] = None
  BY DEF Taken
<1>2. \A j \in Items : SameOrder(j, i) => SameOrder(i, j)
  BY DEF SameOrder
<1>3. \A j \in Items : j # i => status'[j] = status[j]
  BY DEF TypeOK
<1>4. \A j, k \in Items : SameOrder(j, k)' <=> SameOrder(j, k)
  BY DEF SameOrder
<1> QED BY <1>1, <1>2, <1>3, <1>4 DEF OrdersAreUnique

(* Outside the worker, what it remembers stays as it is.                   *)
LEMMA MemoryKept ==
  ASSUME TypeOK, NEW c \in Calls, CallSafe(c), doubtful \subseteq doubtful',
         wpc'[c] = wpc[c], UNCHANGED <<wpos, task, sent, failed, reply, chain>>
  PROVE  WorkIsRemembered(c)'
BY DEF CallSafe, WorkIsRemembered

(* And so does what it reported.                                           *)
LEMMA ReportKept ==
  ASSUME NEW c \in Calls, CallSafe(c), doubtful \subseteq doubtful',
         UNCHANGED <<wpos, task, failed, reply, chain>>
  PROVE  ReportIsTrue(c)'
<1>1. Outcome(c)' = Outcome(c)
  BY DEF Outcome
<1> QED BY <1>1 DEF CallSafe, ReportIsTrue

(* A worker that still works was not heard of, so no row depends on it.    *)
LEMMA RowsKept ==
  ASSUME TypeOK, NEW c \in Calls, CallSafe(c), wpc[c] \notin {"idle", "over"},
         UNCHANGED <<status, attached, pc, pos>>
  PROVE  OwnsRows(c)' /\ AttachedHasReply(c)'
         /\ \A i \in ItemsOf(c) : status[i] # None
<1>1. reply[c] = None /\ None # "ok"
  BY DEF CallSafe, WorkIsRemembered, None
<1>2. pc[c] # "attach"
  BY <1>1 DEF CallSafe, OwnsRows
<1>3. \A i \in ItemsOf(c) : i \notin attached
  BY <1>1 DEF CallSafe, AttachedHasReply
<1> QED BY <1>2, <1>3 DEF CallSafe, OwnsRows, AttachedHasReply, WorkIsRecorded

----------------------------------------------------------------------------
(* The first state keeps the invariant.                                    *)
LEMMA InitSafe == Init => TypeOK /\ Safety
<1> SUFFICES ASSUME Init PROVE TypeOK /\ Safety
  OBVIOUS
<1>1. TypeOK
  BY DEF Init, TypeOK, RowStatuses, None
<1>2. \A c \in Calls : ItemsOf(c) \subseteq Items /\ Len(CallItems[c]) \in Nat
  BY ItemPlace, ItemAt
<1>3. OrdersAreUnique /\ PollingIsDue /\ FailuresAreHonest
  BY DEF Init, OrdersAreUnique, PollingIsDue, FailuresAreHonest
<1>4. ASSUME NEW c \in Calls PROVE CallSafe(c)
  BY <1>2 DEF Init, CallSafe, OwnsRows, WorkIsRecorded, AttachedHasReply,
     WorkIsRemembered, ReportIsTrue, FailedIsSettled, None
<1> QED BY <1>1, <1>3, <1>4 DEF Safety

(* Every step keeps the types.                                             *)
LEMMA NextType == TypeOK /\ Safety /\ [Next]_vars => TypeOK'
<1> SUFFICES ASSUME TypeOK, Safety, [Next]_vars PROVE TypeOK'
  OBVIOUS
<1> USE DEF rowVars, callVars, workerVars, chainVars
<1>1. ASSUME NEW c \in Calls, Prepare(c) PROVE TypeOK'
  BY <1>1 DEF Prepare, Goto, TypeOK, RowStatuses, None
<1>2. ASSUME NEW c \in Calls, Create(c) PROVE TypeOK'
  <2>1. pos[c] <= Len(CallItems[c]) /\ Advance(c, "send")
    BY <1>2 DEF Create, Safety, CallSafe, OwnsRows
  <2>2. \/ /\ pos' = [pos EXCEPT ![c] = 1] /\ pc' = [pc EXCEPT ![c] = "send"]
        \/ /\ pos' = [pos EXCEPT ![c] = pos[c] + 1] /\ pc' = pc
    BY <2>1, AdvanceMoves
  <2>3. /\ pos' \in [Calls -> Nat \ {0}]
        /\ pc' = pc \/ pc' = [pc EXCEPT ![c] = "send"]
    <3>1. pos \in [Calls -> Nat \ {0}] /\ pos[c] + 1 \in Nat \ {0}
      BY DEF TypeOK
    <3> QED BY <2>2, <3>1
  <2>4. status' \in [Items -> RowStatuses]
    BY <1>2 DEF Create, InsertPayout, TypeOK, RowStatuses
  <2>5. UNCHANGED <<attached, txids, old, queue, workerVars, chainVars, polling,
                    doubtful>>
    BY <1>2 DEF Create
  <2>6. ids' \in Seq(Items)
    <3> DEFINE i == CallItems[c][pos[c]]
    <3>1. i \in Items /\ ids' = Append(ids, i)
      BY <1>2, <2>1, AdvanceMoves, ItemAt, ItemPlace DEF Create, InsertPayout
    <3> HIDE DEF i
    <3> QED BY <3>1 DEF TypeOK
  <2> QED BY <2>3, <2>4, <2>5, <2>6 DEF TypeOK
<1>3. ASSUME NEW c \in Calls, CreateFails(c) PROVE TypeOK'
  <2> DEFINE i == CallItems[c][pos[c]]
  <2>1. i \in Items
    BY <1>3, ItemAt, ItemPlace DEF CreateFails, TypeOK, Safety, CallSafe, OwnsRows
  <2>2. UNCHANGED <<ids, status>> \/ InsertPayout(i)
    BY <1>3 DEF CreateFails
  <2>3. ids' \in Seq(Items) /\ status' \in [Items -> RowStatuses]
    <3> HIDE DEF i
    <3>1. CASE UNCHANGED <<ids, status>>
      BY <3>1 DEF TypeOK
    <3>2. CASE InsertPayout(i)
      <4>1. ids' = Append(ids, i) /\ status' = [status EXCEPT ![i] = "IN_PROGRESS"]
        BY <3>2 DEF InsertPayout
      <4>2. ids' \in Seq(Items)
        BY <2>1, <4>1 DEF TypeOK
      <4> QED BY <4>1, <4>2 DEF TypeOK, RowStatuses
    <3> QED BY <2>2, <3>1, <3>2
  <2>4. UNCHANGED <<attached, txids, old, pos, queue, workerVars, chainVars,
                    polling, doubtful>>
        /\ pc' = [pc EXCEPT ![c] = "cancel"]
    BY <1>3 DEF CreateFails, Goto
  <2> QED BY <2>3, <2>4 DEF TypeOK
<1>4. ASSUME NEW c \in Calls, CancelCreated(c) PROVE TypeOK'
  <2>1. \E F \in SUBSET Created(c) :
          status' = [j \in Items |-> IF j \in F THEN "FAIL" ELSE status[j]]
    BY <1>4, MarkFailTakes DEF CancelCreated
  <2> QED BY <1>4, <2>1 DEF CancelCreated, Goto, TypeOK, RowStatuses
<1>5. ASSUME NEW c \in Calls, Send(c) PROVE TypeOK'
  BY <1>5 DEF Send, Goto, TypeOK, RowStatuses, None
<1>6. ASSUME NEW c \in Calls, GetError(c) PROVE TypeOK'
  <2>1. \E F \in SUBSET ItemsOf(c) :
          status' = [j \in Items |-> IF j \in F THEN "FAIL" ELSE status[j]]
    BY <1>6, MarkFailTakes DEF GetError
  <2>2. doubtful' \subseteq Items
    BY <1>6, ItemPlace DEF GetError, TypeOK
  <2> QED BY <1>6, <2>1, <2>2 DEF GetError, Goto, TypeOK, RowStatuses
<1>7. ASSUME NEW c \in Calls, GetReply(c) PROVE TypeOK'
  BY <1>7 DEF GetReply, Goto, TypeOK, RowStatuses, None
<1>8. ASSUME NEW c \in Calls, Attach(c) PROVE TypeOK'
  <2> DEFINE i   == CallItems[c][pos[c]]
             pop == FirstTo(queue[c], Dest[i])
  <2>1. pos[c] \in 1 .. Len(CallItems[c]) /\ i \in Items
    BY <1>8, ItemAt, ItemPlace DEF Attach, TypeOK, Safety, CallSafe, OwnsRows
  <2>2. queue[c] \in Seq(Items) /\ \A n \in DOMAIN queue[c] : queue[c][n] \in Items
    BY DEF TypeOK
  <2>3. Without(queue[c], pop) \in Seq(Items)
    BY <2>2, WithoutType
  <2>4. {queue[c][n] : n \in pop} \subseteq Items
    BY <2>2 DEF FirstTo
  <2>5. queue' = [queue EXCEPT ![c] = Without(queue[c], pop)]
        /\ txids' = [txids EXCEPT ![i] = txids[i] \cup {queue[c][n] : n \in pop}]
        /\ attached' = attached \cup {i}
    BY <1>8 DEF Attach
  <2>6. queue' \in [Calls -> Seq(Items)] /\ txids' \in [Items -> SUBSET Items]
        /\ attached' \subseteq Items
    <3> HIDE DEF i, pop
    <3> QED BY <2>1, <2>3, <2>4, <2>5 DEF TypeOK
  <2>7. /\ pos' \in [Calls -> Nat \ {0}]
        /\ pc' = pc \/ pc' = [pc EXCEPT ![c] = "done"]
    <3>1. Advance(c, "done") \/ (Goto(c, "done") /\ UNCHANGED pos)
      BY <1>8 DEF Attach
    <3>2. pos \in [Calls -> Nat \ {0}] /\ pos[c] + 1 \in Nat \ {0} /\ pos[c] <= Len(CallItems[c])
      BY <2>1, ItemAt DEF TypeOK
    <3>3. CASE Advance(c, "done")
      <4> HIDE DEF i
      <4> QED BY <3>2, <3>3, AdvanceMoves
    <3>4. CASE Goto(c, "done") /\ UNCHANGED pos
      BY <3>2, <3>4 DEF Goto
    <3> QED BY <3>1, <3>3, <3>4
  <2>8. UNCHANGED <<ids, status, old, workerVars, chainVars, polling, doubtful>>
    BY <1>8 DEF Attach
  <2> QED BY <2>6, <2>7, <2>8 DEF TypeOK
<1>9. ASSUME NEW c \in Calls, AttachFails(c) PROVE TypeOK'
  BY <1>9 DEF AttachFails, Goto, TypeOK, RowStatuses, None
<1>10. ASSUME NEW c \in Calls, AddTask(c) PROVE TypeOK'
  BY <1>10 DEF AddTask, TypeOK, RowStatuses, None
<1>11. ASSUME NEW c \in Calls, Broadcast(c) PROVE TypeOK'
  <2> DEFINE i == CallItems[c][wpos[c]]
  <2>1. i \in Items
    BY <1>11, ItemAt, ItemPlace DEF Broadcast, TypeOK
  <2>2. sent' = sent \/ sent' = [sent EXCEPT ![c] = Append(sent[c], i)]
    BY <1>11 DEF Broadcast
  <2>3. sent' \in [Calls -> Seq(Items)]
    <3> HIDE DEF i
    <3>1. Append(sent[c], i) \in Seq(Items)
      BY <2>1 DEF TypeOK
    <3> QED BY <2>2, <3>1 DEF TypeOK
  <2>4. /\ chain \subseteq chain' /\ chain' \subseteq chain \cup {i}
        /\ failed' \subseteq failed \cup {i} /\ doubtful' \subseteq doubtful \cup {i}
    BY <1>11 DEF Broadcast
  <2>5. chain' \subseteq Items /\ failed' \subseteq Items /\ doubtful' \subseteq Items
        /\ confirmed \subseteq chain'
    BY <2>1, <2>4 DEF TypeOK
  <2>6. wpos' \in [Calls -> Nat \ {0}]
    BY <1>11 DEF Broadcast, TypeOK
  <2> QED BY <1>11, <2>3, <2>5, <2>6 DEF Broadcast, TypeOK
<1>12. ASSUME NEW c \in Calls, UpdateTask(c) PROVE TypeOK'
  <2>1. Outcome(c) \in {"SUCCESS", "PARTIAL", "FAIL"}
    BY DEF Outcome
  <2> QED BY <1>12, <2>1 DEF UpdateTask, TypeOK
<1>13. ASSUME NEW c \in Calls, UpdateTaskFails(c) PROVE TypeOK'
  BY <1>13, ItemPlace DEF UpdateTaskFails, TypeOK
<1>14. ASSUME NEW i \in Items, PollTask(i) PROVE TypeOK'
  <2>2. Found(i) \subseteq Items
    BY FoundItems
  <2>3. txids' = txids \/ txids' = [txids EXCEPT ![i] = txids[i] \cup Found(i)]
    BY <1>14 DEF PollTask
  <2>4. txids' \in [Items -> SUBSET Items]
    <3>1. txids \in [Items -> SUBSET Items] /\ txids[i] \cup Found(i) \in SUBSET Items
      BY <2>2 DEF TypeOK
    <3> QED BY <2>3, <3>1
  <2>5. /\ polling' \in {{}, {i}}
        /\ status' = status \/ MarkPayoutFail({i})
    BY <1>14 DEF PollTask
  <2>6. status' \in [Items -> RowStatuses]
    BY <2>5, MarkFailTakes DEF TypeOK, RowStatuses
  <2> QED BY <1>14, <2>4, <2>5, <2>6 DEF PollTask, TypeOK
<1>15. ASSUME NEW i \in Items, Complete(i) PROVE TypeOK'
  BY <1>15 DEF Complete, TypeOK, RowStatuses, None
<1>16. ASSUME NEW i \in Items, Confirm(i) PROVE TypeOK'
  BY <1>16 DEF Confirm, TypeOK, RowStatuses, None
<1>17. ASSUME NEW i \in Items, Expire(i) PROVE TypeOK'
  BY <1>17 DEF Expire, TypeOK, RowStatuses, None
<1>18. CASE CrashService
  BY <1>18 DEF CrashService, TypeOK, RowStatuses, None
<1>19. CASE CrashWorker
  BY <1>19 DEF CrashWorker, TypeOK, RowStatuses, None
<1>20. CASE UNCHANGED vars
  BY <1>20 DEF vars, TypeOK, RowStatuses, None
<1> QED BY <1>1, <1>2, <1>3, <1>4, <1>5, <1>6, <1>7, <1>8, <1>9, <1>10,
           <1>11, <1>12, <1>13, <1>14, <1>15, <1>16, <1>17, <1>18, <1>19,
           <1>20
        DEF Next, Service, Worker, Poller

(* Every step keeps the invariant.                                         *)
LEMMA NextSafe == TypeOK /\ Safety /\ [Next]_vars => Safety'
<1> SUFFICES ASSUME TypeOK, Safety, [Next]_vars PROVE Safety'
  OBVIOUS
<1> USE DEF rowVars, callVars, workerVars, chainVars
<1>0. TypeOK'
  BY NextType
<1>1. ASSUME NEW c \in Calls, Prepare(c) PROVE Safety'
  <2>1. \A e \in Calls \ {c} : Untouched(e)
    BY <1>1 DEF Prepare, Goto, TypeOK, Untouched
  <2>2. \A e \in Calls \ {c} : CallSafe(e)'
    BY <2>1, UntouchedSafe DEF Safety
  <2>3. OwnsRows(c)'
    BY <1>1, <1>0, ItemPlace, ItemAt DEF Prepare, Goto, TypeOK, Safety,
       CallSafe, None, OwnsRows
  <2>4. WorkIsRecorded(c)'
    BY <1>1, <1>0, ItemPlace, ItemAt DEF Prepare, Goto, TypeOK, Safety,
       CallSafe, None, WorkIsRecorded
  <2>5. AttachedHasReply(c)'
    BY <1>1, <1>0, ItemPlace, ItemAt DEF Prepare, Goto, TypeOK, Safety,
       CallSafe, None, AttachedHasReply
  <2>6. WorkIsRemembered(c)'
    BY <1>1, MemoryKept DEF Prepare, Goto, Safety
  <2>7. ReportIsTrue(c)'
    BY <1>1, ReportKept DEF Prepare, Goto, Safety
  <2>8. FailedIsSettled(c)'
    BY <1>1, <1>0, ItemPlace, ItemAt DEF Prepare, Goto, TypeOK, Safety,
       CallSafe, None, FailedIsSettled
  <2>9. OrdersAreUnique'
    BY <1>1, <1>0, ItemPlace, ItemAt DEF Prepare, Goto, TypeOK, Safety, None,
       OrdersAreUnique
  <2>10. PollingIsDue'
    BY <1>1, <1>0, ItemPlace, ItemAt DEF Prepare, Goto, TypeOK, Safety, None,
       PollingIsDue
  <2>11. FailuresAreHonest'
    BY <1>1, <1>0, ItemPlace, ItemAt DEF Prepare, Goto, TypeOK, Safety, None,
       FailuresAreHonest
  <2> QED BY <2>2, <2>3, <2>4, <2>5, <2>6, <2>7, <2>8, <2>9, <2>10, <2>11 DEF Safety, CallSafe
<1>2. ASSUME NEW c \in Calls, Create(c) PROVE Safety'
  <2> DEFINE i == CallItems[c][pos[c]]
  <2>a. /\ pc[c] = "create" /\ ~Taken(i) /\ wpc[c] = "idle"
        /\ status' = [status EXCEPT ![i] = "IN_PROGRESS"]
        /\ UNCHANGED <<wpc, wpos, task, sent, failed, reply, chain, polling,
                       attached, doubtful>>
    BY <1>2 DEF Create, InsertPayout, Safety, CallSafe, WorkIsRecorded
  <2>b. pos[c] \in 1 .. Len(CallItems[c])
    BY <2>a, ItemAt DEF TypeOK, Safety, CallSafe, OwnsRows
  <2>c. i \in ItemsOf(c) /\ i \in Items /\ status[i] = None
    BY <2>a, <2>b, ItemAt, ItemPlace DEF Safety, CallSafe, OwnsRows
  <2>d. \/ /\ pos[c] = Len(CallItems[c])
           /\ pos' = [pos EXCEPT ![c] = 1] /\ pc' = [pc EXCEPT ![c] = "send"]
        \/ /\ pos[c] < Len(CallItems[c])
           /\ pos' = [pos EXCEPT ![c] = pos[c] + 1] /\ pc' = pc
    BY <1>2, <2>b, AdvanceMoves DEF Create
  <2>e. \A j \in Items \ {i} : status'[j] = status[j]
    BY <2>a DEF TypeOK
  <2>f. status'[i] = "IN_PROGRESS"
    BY <2>a, <2>c DEF TypeOK
  <2> HIDE DEF i
  <2>1. \A e \in Calls \ {c} : Untouched(e)
    BY <2>a, <2>c, <2>d, <2>e, ItemPlace DEF TypeOK, Untouched
  <2>2. \A e \in Calls \ {c} : CallSafe(e)'
    BY <2>1, UntouchedSafe DEF Safety
  <2>3. OwnsRows(c)'
    <3>1. \A n \in 1 .. pos[c] : status'[CallItems[c][n]] = "IN_PROGRESS"
      <4> TAKE n \in 1 .. pos[c]
      <4>1. CallItems[c][n] \in Items
        BY <2>b, ItemAt, ItemPlace
      <4>2. CASE n = pos[c]
        BY <2>f, <4>2 DEF i
      <4>3. CASE n # pos[c]
        BY <2>a, <2>b, <2>e, <2>f, <4>1, <4>3 DEF Safety, CallSafe, OwnsRows
      <4> QED BY <4>2, <4>3
    <3>2. CASE pos[c] = Len(CallItems[c])
      <4>1. \A j \in ItemsOf(c) : status'[j] = "IN_PROGRESS"
        BY <3>1, <3>2, ItemAt
      <4>2. pc'[c] = "send" /\ pos'[c] = 1
        BY <2>b, <2>d, <3>2 DEF TypeOK
      <4> QED BY <4>1, <4>2 DEF OwnsRows
    <3>3. CASE pos[c] < Len(CallItems[c])
      <4>1. \A n \in pos[c] + 1 .. Len(CallItems[c]) : status'[CallItems[c][n]] = None
        <5> TAKE n \in pos[c] + 1 .. Len(CallItems[c])
        <5>1. n \in 1 .. Len(CallItems[c]) /\ n \in pos[c] .. Len(CallItems[c]) /\ n # pos[c]
          BY <2>b, ItemAt
        <5>2. CallItems[c][n] \in Items \ {i}
          BY <2>b, <5>1, ItemAt, ItemPlace, ItemsDiffer DEF i
        <5> QED BY <2>a, <2>e, <5>1, <5>2 DEF Safety, CallSafe, OwnsRows
      <4>2. pc'[c] = "create" /\ pos'[c] = pos[c] + 1 /\ pos'[c] <= Len(CallItems[c])
        BY <2>a, <2>b, <2>d, <3>3, ItemAt DEF TypeOK
      <4> QED BY <2>b, <3>1, <4>1, <4>2 DEF OwnsRows
    <3> QED BY <2>d, <3>2, <3>3
  <2>4. WorkIsRecorded(c)'
    BY <2>a DEF WorkIsRecorded
  <2>5. AttachedHasReply(c)'
    BY <2>a DEF Safety, CallSafe, AttachedHasReply
  <2>6. WorkIsRemembered(c)'
    BY <2>a, MemoryKept DEF Safety
  <2>7. ReportIsTrue(c)'
    BY <2>a, ReportKept DEF Safety
  <2>8. FailedIsSettled(c)'
    BY <2>a, <2>c, <2>e, <2>f, ItemPlace DEF Safety, CallSafe, FailedIsSettled
  <2>9. OrdersAreUnique'
    BY <2>a, <2>c, OrdersOpened DEF Safety
  <2>10. PollingIsDue'
    BY <2>a, <2>c, <2>e, <2>f DEF TypeOK, Safety, PollingIsDue
  <2>11. FailuresAreHonest'
    BY <2>a DEF Safety, FailuresAreHonest
  <2> QED BY <2>2, <2>3, <2>4, <2>5, <2>6, <2>7, <2>8, <2>9, <2>10, <2>11 DEF Safety, CallSafe
<1>3. ASSUME NEW c \in Calls, CreateFails(c) PROVE Safety'
  <2> DEFINE i == CallItems[c][pos[c]]
  <2>a. /\ pc[c] = "create" /\ wpc[c] = "idle" /\ pc' = [pc EXCEPT ![c] = "cancel"]
        /\ \/ UNCHANGED status
           \/ ~Taken(i) /\ status' = [status EXCEPT ![i] = "IN_PROGRESS"]
        /\ UNCHANGED <<pos, wpc, wpos, task, sent, failed, reply, chain,
                       polling, attached, doubtful>>
    BY <1>3 DEF CreateFails, InsertPayout, Goto, Safety, CallSafe, WorkIsRecorded
  <2>b. pos[c] \in 1 .. Len(CallItems[c])
    BY <2>a, ItemAt DEF TypeOK, Safety, CallSafe, OwnsRows
  <2>c. i \in ItemsOf(c) /\ i \in Items /\ status[i] = None
    BY <2>a, <2>b, ItemAt, ItemPlace DEF Safety, CallSafe, OwnsRows
  <2>e. \A j \in Items \ {i} : status'[j] = status[j]
    BY <2>a DEF TypeOK
  <2>f. status'[i] \in {None, "IN_PROGRESS"}
    BY <2>a, <2>c DEF TypeOK
  <2> HIDE DEF i
  <2>1. \A e \in Calls \ {c} : Untouched(e)
    BY <2>a, <2>c, <2>e, ItemPlace DEF TypeOK, Untouched
  <2>2. \A e \in Calls \ {c} : CallSafe(e)'
    BY <2>1, UntouchedSafe DEF Safety
  <2>3. OwnsRows(c)'
    <3>1. \A n \in 1 .. pos[c] - 1 : status'[CallItems[c][n]] = "IN_PROGRESS"
      <4> TAKE n \in 1 .. pos[c] - 1
      <4>1. n \in 1 .. Len(CallItems[c]) /\ n # pos[c]
        BY <2>b, ItemAt
      <4>2. CallItems[c][n] \in Items \ {i}
        BY <2>b, <4>1, ItemAt, ItemPlace, ItemsDiffer DEF i
      <4> QED BY <2>a, <2>e, <4>2 DEF Safety, CallSafe, OwnsRows
    <3>2. pc'[c] = "cancel" /\ pos'[c] = pos[c] /\ pos[c] <= Len(CallItems[c])
      BY <2>a, <2>b DEF TypeOK
    <3> QED BY <3>1, <3>2 DEF OwnsRows
  <2>4. WorkIsRecorded(c)'
    BY <2>a DEF WorkIsRecorded
  <2>5. AttachedHasReply(c)'
    BY <2>a DEF Safety, CallSafe, AttachedHasReply
  <2>6. WorkIsRemembered(c)'
    BY <2>a, MemoryKept DEF Safety
  <2>7. ReportIsTrue(c)'
    BY <2>a, ReportKept DEF Safety
  <2>8. FailedIsSettled(c)'
    BY <2>a, <2>c, <2>e, <2>f, ItemPlace DEF Safety, CallSafe, FailedIsSettled, None
  <2>9. OrdersAreUnique'
    BY <2>a, <2>c, OrdersOpened, OrdersKept DEF Safety
  <2>10. PollingIsDue'
    BY <2>a, <2>c, <2>e, <2>f DEF TypeOK, Safety, PollingIsDue, None
  <2>11. FailuresAreHonest'
    BY <2>a DEF Safety, FailuresAreHonest
  <2> QED BY <2>2, <2>3, <2>4, <2>5, <2>6, <2>7, <2>8, <2>9, <2>10, <2>11 DEF Safety, CallSafe
<1>4. ASSUME NEW c \in Calls, CancelCreated(c) PROVE Safety'
  <2>a. /\ pc[c] = "cancel" /\ wpc[c] = "idle" /\ pc' = [pc EXCEPT ![c] = "done"]
        /\ MarkPayoutFail(Created(c))
        /\ UNCHANGED <<pos, wpc, wpos, task, sent, failed, reply, chain,
                       polling, attached, doubtful>>
    BY <1>4 DEF CancelCreated, Goto, Safety, CallSafe, WorkIsRecorded
  <2>b. PICK F \in SUBSET Created(c) :
          status' = [j \in Items |-> IF j \in F THEN "FAIL" ELSE status[j]]
    BY <2>a, MarkFailTakes
  <2>c. \A j \in Items : j \notin F => status'[j] = status[j]
    BY <2>b
  <2>d. pos[c] \in Nat \ {0} /\ pos[c] <= Len(CallItems[c])
    BY <2>a DEF TypeOK, Safety, CallSafe, OwnsRows
  <2>e. \A j \in F : j \in ItemsOf(c) /\ j \in Items /\ status[j] = "IN_PROGRESS"
    <3>1. F \subseteq ItemsOf(c)
      BY <2>b, <2>d, CreatedItems
    <3>2. \A n \in 1 .. pos[c] - 1 : status[CallItems[c][n]] = "IN_PROGRESS"
      BY <2>a DEF Safety, CallSafe, OwnsRows
    <3> QED BY <2>b, <3>1, <3>2, ItemPlace DEF Created
  <2>f. \A j \in ItemsOf(c) : j \notin chain /\ j \notin attached
    BY <2>a, ItemAt DEF Safety, CallSafe, WorkIsRemembered, AttachedHasReply
  <2>1. \A e \in Calls \ {c} : Untouched(e)
    BY <2>a, <2>c, <2>e, ItemPlace DEF TypeOK, Untouched
  <2>2. \A e \in Calls \ {c} : CallSafe(e)'
    BY <2>1, UntouchedSafe DEF Safety
  <2>3. OwnsRows(c)'
    BY <2>a DEF TypeOK, OwnsRows
  <2>4. WorkIsRecorded(c)'
    BY <2>a DEF WorkIsRecorded
  <2>5. AttachedHasReply(c)'
    BY <2>a, <2>f DEF AttachedHasReply
  <2>6. WorkIsRemembered(c)'
    BY <2>a, MemoryKept DEF Safety
  <2>7. ReportIsTrue(c)'
    BY <2>a, ReportKept DEF Safety
  <2>8. FailedIsSettled(c)'
    BY <2>a, <2>f DEF FailedIsSettled
  <2>9. OrdersAreUnique'
    BY <2>c, <2>e, OrdersKept DEF Safety, None
  <2>10. PollingIsDue'
    BY <2>a, <2>c, <2>e, <2>f DEF TypeOK, Safety, PollingIsDue
  <2>11. FailuresAreHonest'
    BY <2>a DEF Safety, FailuresAreHonest
  <2> QED BY <2>2, <2>3, <2>4, <2>5, <2>6, <2>7, <2>8, <2>9, <2>10, <2>11 DEF Safety, CallSafe
<1>5. ASSUME NEW c \in Calls, Send(c) PROVE Safety'
  <2>a. /\ pc[c] = "send" /\ wpc[c] = "idle" /\ pc' = [pc EXCEPT ![c] = "waiting"]
        /\ wpc' = [wpc EXCEPT ![c] = "task"]
        /\ UNCHANGED <<status, pos, wpos, task, sent, failed, reply, chain,
                       polling, attached, doubtful>>
    BY <1>5 DEF Send, Goto, Safety, CallSafe, WorkIsRecorded
  <2>b. pc'[c] = "waiting" /\ wpc'[c] = "task" /\ wpos[c] = 1 /\ reply[c] = None
    BY <2>a DEF TypeOK, Safety, CallSafe, WorkIsRemembered
  <2>c. \A i \in ItemsOf(c) : status[i] = "IN_PROGRESS"
    BY <2>a DEF Safety, CallSafe, OwnsRows
  <2>1. \A e \in Calls \ {c} : Untouched(e)
    BY <1>5, ItemPlace, ItemAt, AdvanceMoves, CreatedItems, MarkFailTakes DEF
       Send, Goto, TypeOK, Safety, CallSafe, OwnsRows, Untouched
  <2>2. \A e \in Calls \ {c} : CallSafe(e)'
    BY <2>1, UntouchedSafe DEF Safety
  <2>3. OwnsRows(c)'
    BY <1>5, <1>0, ItemPlace, ItemAt DEF Send, Goto, TypeOK, Safety,
       CallSafe, None, OwnsRows
  <2>4. WorkIsRecorded(c)'
    BY <2>a, <2>b, <2>c DEF WorkIsRecorded, None
  <2>5. AttachedHasReply(c)'
    BY <1>5, <1>0, ItemPlace, ItemAt DEF Send, Goto, TypeOK, Safety,
       CallSafe, None, AttachedHasReply
  <2>6. WorkIsRemembered(c)'
    BY <2>a, <2>b DEF Safety, CallSafe, WorkIsRemembered
  <2>7. ReportIsTrue(c)'
    BY <1>5, ReportKept DEF Send, Goto, Safety
  <2>8. FailedIsSettled(c)'
    BY <2>a, <2>c DEF FailedIsSettled
  <2>9. OrdersAreUnique'
    BY <1>5, <1>0, ItemPlace, ItemAt DEF Send, Goto, TypeOK, Safety, None,
       OrdersAreUnique
  <2>10. PollingIsDue'
    BY <1>5, <1>0, ItemPlace, ItemAt DEF Send, Goto, TypeOK, Safety, None,
       PollingIsDue
  <2>11. FailuresAreHonest'
    BY <1>5, <1>0, ItemPlace, ItemAt DEF Send, Goto, TypeOK, Safety, None,
       FailuresAreHonest
  <2> QED BY <2>2, <2>3, <2>4, <2>5, <2>6, <2>7, <2>8, <2>9, <2>10, <2>11 DEF Safety, CallSafe
<1>6. ASSUME NEW c \in Calls, GetError(c) PROVE Safety'
  <2>a. /\ pc[c] = "waiting" /\ pc' = [pc EXCEPT ![c] = "done"]
        /\ MarkPayoutFail(ItemsOf(c)) /\ doubtful \subseteq doubtful'
        /\ reply[c] = "error" \/ ItemsOf(c) \subseteq doubtful'
        /\ UNCHANGED <<pos, wpc, wpos, task, sent, failed, reply, chain,
                       polling, attached>>
    BY <1>6 DEF GetError, Goto
  <2>b. PICK F \in SUBSET ItemsOf(c) :
          status' = [j \in Items |-> IF j \in F THEN "FAIL" ELSE status[j]]
    BY <2>a, MarkFailTakes
  <2>c. \A j \in Items : j \notin F => status'[j] = status[j]
    BY <2>b
  <2>e. \A j \in ItemsOf(c) :
          /\ j \in Items /\ status[j] = "IN_PROGRESS" /\ j \notin attached
          /\ status'[j] \in {"FAIL", "IN_PROGRESS"}
    BY <2>a, <2>b, ItemPlace DEF Safety, CallSafe, OwnsRows, AttachedHasReply
  <2>1. \A e \in Calls \ {c} : Untouched(e)
    BY <2>a, <2>c, ItemPlace DEF TypeOK, Untouched
  <2>2. \A e \in Calls \ {c} : CallSafe(e)'
    BY <2>1, UntouchedSafe DEF Safety
  <2>3. OwnsRows(c)'
    BY <2>a DEF TypeOK, OwnsRows
  <2>4. WorkIsRecorded(c)'
    BY <2>a, <2>e DEF TypeOK, WorkIsRecorded, None
  <2>5. AttachedHasReply(c)'
    BY <2>a, <2>e DEF AttachedHasReply
  <2>6. WorkIsRemembered(c)'
    BY <2>a, MemoryKept DEF Safety
  <2>7. ReportIsTrue(c)'
    BY <2>a, ReportKept DEF Safety
  <2>8. FailedIsSettled(c)'
    <3>1. CASE reply[c] = "error"
      BY <2>a, <3>1 DEF Safety, CallSafe, WorkIsRemembered, ReportIsTrue, FailedIsSettled, None
    <3>2. CASE ItemsOf(c) \subseteq doubtful'
      BY <3>2 DEF FailedIsSettled
    <3> QED BY <2>a, <3>1, <3>2
  <2>9. OrdersAreUnique'
    BY <2>b, <2>c, <2>e, OrdersKept DEF Safety, None
  <2>10. PollingIsDue'
    BY <2>a, <2>b, <2>c, <2>e DEF TypeOK, Safety, PollingIsDue
  <2>11. FailuresAreHonest'
    BY <2>a DEF Safety, FailuresAreHonest
  <2> QED BY <2>2, <2>3, <2>4, <2>5, <2>6, <2>7, <2>8, <2>9, <2>10, <2>11 DEF Safety, CallSafe
<1>7. ASSUME NEW c \in Calls, GetReply(c) PROVE Safety'
  <2>1. \A e \in Calls \ {c} : Untouched(e)
    BY <1>7, ItemPlace, ItemAt, AdvanceMoves, CreatedItems, MarkFailTakes DEF
       GetReply, Goto, TypeOK, Safety, CallSafe, OwnsRows, Untouched
  <2>2. \A e \in Calls \ {c} : CallSafe(e)'
    BY <2>1, UntouchedSafe DEF Safety
  <2>3. OwnsRows(c)'
    <3>1. pc[c] = "waiting" /\ reply[c] = "ok" /\ UNCHANGED <<pos, reply>>
          /\ pc' = [pc EXCEPT ![c] = "attach"]
      BY <1>7 DEF GetReply, Goto
    <3> QED BY <3>1, ItemAt DEF TypeOK, Safety, CallSafe, OwnsRows
  <2>4. WorkIsRecorded(c)'
    BY <1>7, <1>0, ItemPlace, ItemAt DEF GetReply, Goto, TypeOK, Safety,
       CallSafe, None, WorkIsRecorded
  <2>5. AttachedHasReply(c)'
    BY <1>7, <1>0, ItemPlace, ItemAt DEF GetReply, Goto, TypeOK, Safety,
       CallSafe, None, AttachedHasReply
  <2>6. WorkIsRemembered(c)'
    BY <1>7, MemoryKept DEF GetReply, Goto, Safety
  <2>7. ReportIsTrue(c)'
    BY <1>7, ReportKept DEF GetReply, Goto, Safety
  <2>8. FailedIsSettled(c)'
    BY <1>7, <1>0, ItemPlace, ItemAt DEF GetReply, Goto, TypeOK, Safety,
       CallSafe, None, FailedIsSettled
  <2>9. OrdersAreUnique'
    BY <1>7, <1>0, ItemPlace, ItemAt DEF GetReply, Goto, TypeOK, Safety,
       None, OrdersAreUnique
  <2>10. PollingIsDue'
    BY <1>7, <1>0, ItemPlace, ItemAt DEF GetReply, Goto, TypeOK, Safety,
       None, PollingIsDue
  <2>11. FailuresAreHonest'
    BY <1>7, <1>0, ItemPlace, ItemAt DEF GetReply, Goto, TypeOK, Safety,
       None, FailuresAreHonest
  <2> QED BY <2>2, <2>3, <2>4, <2>5, <2>6, <2>7, <2>8, <2>9, <2>10, <2>11 DEF Safety, CallSafe
<1>8. ASSUME NEW c \in Calls, Attach(c) PROVE Safety'
  <2> DEFINE i == CallItems[c][pos[c]]
  <2>a. /\ pc[c] = "attach" /\ reply[c] = "ok"
        /\ attached' = attached \cup {i}
        /\ UNCHANGED <<status, wpc, wpos, task, sent, failed, reply, chain,
                       polling, doubtful>>
    BY <1>8 DEF Attach, Safety, CallSafe, OwnsRows
  <2>b. pos[c] \in 1 .. Len(CallItems[c])
    BY <2>a, ItemAt DEF TypeOK, Safety, CallSafe, OwnsRows
  <2>c. i \in ItemsOf(c)
    BY <2>b, ItemAt
  <2>d. \/ /\ pos' = [pos EXCEPT ![c] = 1] /\ pc' = [pc EXCEPT ![c] = "done"]
        \/ /\ pos' = pos /\ pc' = [pc EXCEPT ![c] = "done"]
        \/ /\ pos[c] < Len(CallItems[c])
           /\ pos' = [pos EXCEPT ![c] = pos[c] + 1] /\ pc' = pc
    BY <1>8, <2>b, AdvanceMoves DEF Attach, Goto
  <2> HIDE DEF i
  <2>1. \A e \in Calls \ {c} : Untouched(e)
    BY <2>a, <2>c, <2>d, ItemPlace DEF TypeOK, Untouched
  <2>2. \A e \in Calls \ {c} : CallSafe(e)'
    BY <2>1, UntouchedSafe DEF Safety
  <2>3. OwnsRows(c)'
    <3>1. pc'[c] = "done" \/ (pc'[c] = "attach" /\ pos'[c] <= Len(CallItems[c]))
      BY <2>a, <2>b, <2>d, ItemAt DEF TypeOK
    <3> QED BY <2>a, <3>1 DEF OwnsRows
  <2>4. WorkIsRecorded(c)'
    BY <2>a, <2>d DEF TypeOK, Safety, CallSafe, WorkIsRecorded
  <2>5. AttachedHasReply(c)'
    BY <2>a, <2>d DEF TypeOK, AttachedHasReply
  <2>6. WorkIsRemembered(c)'
    BY <2>a, MemoryKept DEF Safety
  <2>7. ReportIsTrue(c)'
    BY <2>a, ReportKept DEF Safety
  <2>8. FailedIsSettled(c)'
    BY <2>a DEF TypeOK, Safety, CallSafe, FailedIsSettled
  <2>9. OrdersAreUnique'
    BY <2>a, OrdersKept DEF Safety
  <2>10. PollingIsDue'
    BY <2>a DEF TypeOK, Safety, CallSafe, PollingIsDue
  <2>11. FailuresAreHonest'
    BY <2>a DEF TypeOK, Safety, CallSafe, FailuresAreHonest
  <2> QED BY <2>2, <2>3, <2>4, <2>5, <2>6, <2>7, <2>8, <2>9, <2>10, <2>11 DEF Safety, CallSafe
<1>9. ASSUME NEW c \in Calls, AttachFails(c) PROVE Safety'
  <2>1. \A e \in Calls \ {c} : Untouched(e)
    BY <1>9, ItemPlace, ItemAt, AdvanceMoves, CreatedItems, MarkFailTakes DEF
       AttachFails, Goto, TypeOK, Safety, CallSafe, OwnsRows, Untouched
  <2>2. \A e \in Calls \ {c} : CallSafe(e)'
    BY <2>1, UntouchedSafe DEF Safety
  <2>3. OwnsRows(c)'
    BY <1>9, <1>0, ItemPlace, ItemAt DEF AttachFails, Goto, TypeOK, Safety,
       CallSafe, None, OwnsRows
  <2>4. WorkIsRecorded(c)'
    BY <1>9, <1>0, ItemPlace, ItemAt DEF AttachFails, Goto, TypeOK, Safety,
       CallSafe, None, WorkIsRecorded
  <2>5. AttachedHasReply(c)'
    BY <1>9, <1>0, ItemPlace, ItemAt DEF AttachFails, Goto, TypeOK, Safety,
       CallSafe, None, AttachedHasReply
  <2>6. WorkIsRemembered(c)'
    BY <1>9, MemoryKept DEF AttachFails, Goto, Safety
  <2>7. ReportIsTrue(c)'
    BY <1>9, ReportKept DEF AttachFails, Goto, Safety
  <2>8. FailedIsSettled(c)'
    BY <1>9, <1>0, ItemPlace, ItemAt DEF AttachFails, Goto, TypeOK, Safety,
       CallSafe, None, FailedIsSettled
  <2>9. OrdersAreUnique'
    BY <1>9, <1>0, ItemPlace, ItemAt DEF AttachFails, Goto, TypeOK, Safety,
       None, OrdersAreUnique
  <2>10. PollingIsDue'
    BY <1>9, <1>0, ItemPlace, ItemAt DEF AttachFails, Goto, TypeOK, Safety,
       None, PollingIsDue
  <2>11. FailuresAreHonest'
    BY <1>9, <1>0, ItemPlace, ItemAt DEF AttachFails, Goto, TypeOK, Safety,
       None, FailuresAreHonest
  <2> QED BY <2>2, <2>3, <2>4, <2>5, <2>6, <2>7, <2>8, <2>9, <2>10, <2>11 DEF Safety, CallSafe
<1>10. ASSUME NEW c \in Calls, AddTask(c) PROVE Safety'
  <2>a. /\ wpc[c] \notin {"idle", "over"}
        /\ UNCHANGED <<status, attached, pc, pos, polling>>
    BY <1>10 DEF AddTask
  <2>b. /\ OwnsRows(c)' /\ AttachedHasReply(c)' /\ reply[c] = None
        /\ \A i \in ItemsOf(c) : status[i] # None
    BY <2>a, RowsKept DEF Safety, CallSafe, WorkIsRemembered
  <2>1. \A e \in Calls \ {c} : Untouched(e)
    BY <1>10, ItemPlace, ItemAt, AdvanceMoves, CreatedItems, MarkFailTakes
       DEF AddTask, TypeOK, Safety, CallSafe, OwnsRows, Untouched
  <2>2. \A e \in Calls \ {c} : CallSafe(e)'
    BY <2>1, UntouchedSafe DEF Safety
  <2>3. OwnsRows(c)'
    BY <2>b
  <2>4. WorkIsRecorded(c)'
    BY <2>a, <2>b DEF Safety, CallSafe, WorkIsRecorded
  <2>5. AttachedHasReply(c)'
    BY <2>b
  <2>6. WorkIsRemembered(c)'
    BY <1>10, <1>0, ItemPlace, ItemAt DEF AddTask, TypeOK, Safety, CallSafe,
       None, WorkIsRemembered
  <2>7. ReportIsTrue(c)'
    <3>1. /\ task'[c] \in {task[c], "IN_PROGRESS"}
          /\ reply'[c] = "error" \/ reply'[c] = reply[c]
          /\ wpc[c] = "task" /\ UNCHANGED <<wpos, failed, chain, doubtful>>
      BY <1>10 DEF AddTask, TypeOK
    <3>2. \A i \in ItemsOf(c) : i \notin chain
      BY <3>1, ItemAt DEF Safety, CallSafe, WorkIsRemembered
    <3>3. Outcome(c)' = Outcome(c)
      BY <3>1 DEF Outcome
    <3> QED BY <2>b, <3>1, <3>2, <3>3 DEF Safety, CallSafe, ReportIsTrue, None
  <2>8. FailedIsSettled(c)'
    <3>1. wpc[c] = "task" /\ UNCHANGED <<chain, doubtful>>
      BY <1>10 DEF AddTask
    <3>2. \A i \in ItemsOf(c) : status[i] # "FAIL" \/ i \in doubtful
      BY <3>1 DEF Safety, CallSafe, FailedIsSettled
    <3> QED BY <2>a, <3>1, <3>2 DEF FailedIsSettled
  <2>9. OrdersAreUnique'
    BY <2>a, OrdersKept DEF Safety
  <2>10. PollingIsDue'
    BY <2>a DEF Safety, PollingIsDue
  <2>11. FailuresAreHonest'
    BY <1>10, <1>0, ItemPlace, ItemAt DEF AddTask, TypeOK, Safety, None,
       FailuresAreHonest
  <2> QED BY <2>2, <2>3, <2>4, <2>5, <2>6, <2>7, <2>8, <2>9, <2>10, <2>11 DEF Safety, CallSafe
<1>11. ASSUME NEW c \in Calls, Broadcast(c) PROVE Safety'
  <2>a. /\ wpc[c] \notin {"idle", "over"}
        /\ UNCHANGED <<status, attached, pc, pos, polling>>
    BY <1>11 DEF Broadcast
  <2>b. /\ OwnsRows(c)' /\ AttachedHasReply(c)' /\ reply[c] = None
        /\ \A i \in ItemsOf(c) : status[i] # None
    BY <2>a, RowsKept DEF Safety, CallSafe, WorkIsRemembered
  <2> DEFINE i == CallItems[c][wpos[c]]
  <2>c. /\ wpc[c] = "broadcast" /\ wpos[c] \in 1 .. Len(CallItems[c])
        /\ i \in ItemsOf(c) /\ i \notin chain \cup failed
    BY <1>11, ItemAt DEF Broadcast, TypeOK, Safety, CallSafe, WorkIsRemembered
  <2>d. /\ UNCHANGED <<wpc, task, reply>> /\ wpos' = [wpos EXCEPT ![c] = wpos[c] + 1]
        /\ \/ /\ chain' = chain \cup {i}
              /\ sent' = [sent EXCEPT ![c] = Append(sent[c], i)]
              /\ UNCHANGED <<failed, doubtful>>
           \/ /\ failed' = failed \cup {i}
              /\ UNCHANGED <<chain, sent, doubtful>>
           \/ /\ chain' = chain \cup {i} /\ failed' = failed \cup {i}
              /\ doubtful' = doubtful \cup {i} /\ UNCHANGED sent
    BY <1>11 DEF Broadcast
  <2> HIDE DEF i
  <2>1. \A e \in Calls \ {c} : Untouched(e)
    <3>1. ASSUME NEW e \in Calls \ {c} PROVE Untouched(e)
      <4>1. i \notin ItemsOf(e)
        BY <2>c, ItemPlace
      <4>2. wpos'[e] = wpos[e] /\ sent'[e] = sent[e]
        BY <2>d DEF TypeOK
      <4>3. \A j \in ItemsOf(e) : /\ j \in chain' <=> j \in chain
                                  /\ j \in failed' <=> j \in failed
                                  /\ j \in doubtful => j \in doubtful'
        BY <2>d, <4>1
      <4> QED BY <2>a, <2>d, <4>2, <4>3 DEF Untouched
    <3> QED BY <3>1
  <2>2. \A e \in Calls \ {c} : CallSafe(e)'
    BY <2>1, UntouchedSafe DEF Safety
  <2>3. OwnsRows(c)'
    BY <2>b
  <2>4. WorkIsRecorded(c)'
    BY <2>a, <2>b DEF Safety, CallSafe, WorkIsRecorded
  <2>5. AttachedHasReply(c)'
    BY <2>b
  <2>6. WorkIsRemembered(c)'
    <3>1. \A n \in wpos[c] + 1 .. Len(CallItems[c]) : CallItems[c][n] \notin chain' \cup failed'
      <4> TAKE n \in wpos[c] + 1 .. Len(CallItems[c])
      <4>1. n \in wpos[c] .. Len(CallItems[c]) /\ n \in 1 .. Len(CallItems[c]) /\ n # wpos[c]
        BY <2>c, ItemAt
      <4>2. CallItems[c][n] # i
        BY <2>c, <4>1, ItemsDiffer DEF i
      <4>3. CallItems[c][n] \notin chain \cup failed
        BY <4>1 DEF Safety, CallSafe, WorkIsRemembered
      <4> QED BY <2>d, <4>2, <4>3
    <3>2. wpos'[c] = wpos[c] + 1
      BY <2>d DEF TypeOK
    <3>3. sent[c] \in Seq(Items) /\ i \in Items
      BY <2>c, ItemPlace DEF TypeOK
    <3>4. /\ \A n \in DOMAIN sent[c] : sent[c][n] \in ItemsOf(c)
          /\ \A j \in ItemsOf(c) \cap chain :
               j \in doubtful \/ \E n \in DOMAIN sent[c] : sent[c][n] = j
      BY DEF Safety, CallSafe, WorkIsRemembered
    <3>5. /\ \A n \in DOMAIN sent'[c] : sent'[c][n] \in ItemsOf(c)
          /\ \A j \in ItemsOf(c) \cap chain' :
               j \in doubtful' \/ \E n \in DOMAIN sent'[c] : sent'[c][n] = j
      <4>1. CASE sent' = [sent EXCEPT ![c] = Append(sent[c], i)]
                 /\ chain' = chain \cup {i} /\ UNCHANGED doubtful
        <5>1. sent'[c] = Append(sent[c], i)
          BY <4>1 DEF TypeOK
        <5>2. /\ DOMAIN sent'[c] = DOMAIN sent[c] \cup {Len(sent[c]) + 1}
              /\ \A n \in DOMAIN sent[c] : sent'[c][n] = sent[c][n]
              /\ sent'[c][Len(sent[c]) + 1] = i
          BY <3>3, <5>1
        <5> QED BY <2>c, <3>4, <4>1, <5>2
      <4>2. CASE UNCHANGED <<chain, sent, doubtful>>
        BY <3>4, <4>2
      <4>3. CASE chain' = chain \cup {i} /\ doubtful' = doubtful \cup {i} /\ UNCHANGED sent
        BY <3>4, <4>3
      <4> QED BY <2>d, <4>1, <4>2, <4>3
    <3> QED BY <2>b, <2>c, <2>d, <3>1, <3>2, <3>5 DEF WorkIsRemembered
  <2>7. ReportIsTrue(c)'
    <3>1. task[c] \notin {"SUCCESS", "PARTIAL", "FAIL"}
      BY <2>c, ItemAt DEF Safety, CallSafe, ReportIsTrue
    <3> QED BY <2>b, <2>d, <3>1 DEF ReportIsTrue, None
  <2>8. FailedIsSettled(c)'
    <3>1. \A j \in ItemsOf(c) : status[j] # "FAIL" \/ j \in doubtful
      BY <2>c DEF Safety, CallSafe, FailedIsSettled
    <3> QED BY <2>a, <2>d, <3>1 DEF FailedIsSettled
  <2>9. OrdersAreUnique'
    BY <2>a, OrdersKept DEF Safety
  <2>10. PollingIsDue'
    BY <2>a DEF Safety, PollingIsDue
  <2>11. FailuresAreHonest'
    BY <2>c, <2>d DEF Safety, FailuresAreHonest
  <2> QED BY <2>2, <2>3, <2>4, <2>5, <2>6, <2>7, <2>8, <2>9, <2>10, <2>11 DEF Safety, CallSafe
<1>12. ASSUME NEW c \in Calls, UpdateTask(c) PROVE Safety'
  <2>a. /\ wpc[c] \notin {"idle", "over"}
        /\ UNCHANGED <<status, attached, pc, pos, polling>>
    BY <1>12 DEF UpdateTask
  <2>b. /\ OwnsRows(c)' /\ AttachedHasReply(c)' /\ reply[c] = None
        /\ \A i \in ItemsOf(c) : status[i] # None
    BY <2>a, RowsKept DEF Safety, CallSafe, WorkIsRemembered
  <2>1. \A e \in Calls \ {c} : Untouched(e)
    BY <1>12, ItemPlace, ItemAt, AdvanceMoves, CreatedItems, MarkFailTakes
       DEF UpdateTask, TypeOK, Safety, CallSafe, OwnsRows, Untouched
  <2>2. \A e \in Calls \ {c} : CallSafe(e)'
    BY <2>1, UntouchedSafe DEF Safety
  <2>3. OwnsRows(c)'
    BY <2>b
  <2>4. WorkIsRecorded(c)'
    BY <2>a, <2>b DEF Safety, CallSafe, WorkIsRecorded
  <2>5. AttachedHasReply(c)'
    BY <2>b
  <2>6. WorkIsRemembered(c)'
    BY <1>12, <1>0, ItemPlace, ItemAt DEF UpdateTask, TypeOK, Safety,
       CallSafe, None, WorkIsRemembered
  <2>7. ReportIsTrue(c)'
    <3>1. /\ task'[c] = Outcome(c) /\ wpos[c] > Len(CallItems[c])
          /\ reply'[c] \in {"ok", "error"} /\ reply'[c] = "error" => Outcome(c) = "FAIL"
          /\ UNCHANGED <<wpos, failed, chain, doubtful>>
      BY <1>12 DEF UpdateTask, TypeOK
    <3>2. Outcome(c)' = Outcome(c) /\ Outcome(c) \in {"SUCCESS", "PARTIAL", "FAIL"}
      BY <3>1 DEF Outcome
    <3>3. Outcome(c) = "FAIL" => ItemsOf(c) \subseteq failed
      BY DEF Outcome
    <3>4. Outcome(c) = "FAIL" => \A i \in ItemsOf(c) \cap chain : i \in doubtful
      BY <3>3 DEF Safety, FailuresAreHonest
    <3> QED BY <3>1, <3>2, <3>4 DEF ReportIsTrue
  <2>8. FailedIsSettled(c)'
    BY <1>12, <1>0, ItemPlace, ItemAt DEF UpdateTask, TypeOK, Safety,
       CallSafe, None, FailedIsSettled
  <2>9. OrdersAreUnique'
    BY <2>a, OrdersKept DEF Safety
  <2>10. PollingIsDue'
    BY <2>a DEF Safety, PollingIsDue
  <2>11. FailuresAreHonest'
    BY <1>12, <1>0, ItemPlace, ItemAt DEF UpdateTask, TypeOK, Safety, None,
       FailuresAreHonest
  <2> QED BY <2>2, <2>3, <2>4, <2>5, <2>6, <2>7, <2>8, <2>9, <2>10, <2>11 DEF Safety, CallSafe
<1>13. ASSUME NEW c \in Calls, UpdateTaskFails(c) PROVE Safety'
  <2>a. /\ wpc[c] \notin {"idle", "over"}
        /\ UNCHANGED <<status, attached, pc, pos, polling>>
    BY <1>13 DEF UpdateTaskFails
  <2>b. /\ OwnsRows(c)' /\ AttachedHasReply(c)' /\ reply[c] = None
        /\ \A i \in ItemsOf(c) : status[i] # None
    BY <2>a, RowsKept DEF Safety, CallSafe, WorkIsRemembered
  <2>1. \A e \in Calls \ {c} : Untouched(e)
    BY <1>13, ItemPlace, ItemAt, AdvanceMoves, CreatedItems, MarkFailTakes
       DEF UpdateTaskFails, TypeOK, Safety, CallSafe, OwnsRows, Untouched
  <2>2. \A e \in Calls \ {c} : CallSafe(e)'
    BY <2>1, UntouchedSafe DEF Safety
  <2>3. OwnsRows(c)'
    BY <2>b
  <2>4. WorkIsRecorded(c)'
    BY <2>a, <2>b DEF Safety, CallSafe, WorkIsRecorded
  <2>5. AttachedHasReply(c)'
    BY <2>b
  <2>6. WorkIsRemembered(c)'
    BY <1>13, <1>0, ItemPlace, ItemAt DEF UpdateTaskFails, TypeOK, Safety,
       CallSafe, None, WorkIsRemembered
  <2>7. ReportIsTrue(c)'
    <3>1. /\ wpos[c] > Len(CallItems[c]) /\ reply'[c] = "error"
          /\ ItemsOf(c) \subseteq doubtful' /\ UNCHANGED <<task, wpos, failed, chain>>
      BY <1>13 DEF UpdateTaskFails, TypeOK
    <3>2. Outcome(c)' = Outcome(c)
      BY <3>1 DEF Outcome
    <3> QED BY <3>1, <3>2 DEF Safety, CallSafe, ReportIsTrue
  <2>8. FailedIsSettled(c)'
    BY <1>13, <1>0, ItemPlace, ItemAt DEF UpdateTaskFails, TypeOK, Safety,
       CallSafe, None, FailedIsSettled
  <2>9. OrdersAreUnique'
    BY <2>a, OrdersKept DEF Safety
  <2>10. PollingIsDue'
    BY <2>a DEF Safety, PollingIsDue
  <2>11. FailuresAreHonest'
    BY <1>13, <1>0, ItemPlace, ItemAt DEF UpdateTaskFails, TypeOK, Safety,
       None, FailuresAreHonest
  <2> QED BY <2>2, <2>3, <2>4, <2>5, <2>6, <2>7, <2>8, <2>9, <2>10, <2>11 DEF Safety, CallSafe
<1>14. ASSUME NEW i \in Items, PollTask(i) PROVE Safety'
  <2> DEFINE c == CallOf(i)
  <2>c. c \in Calls /\ i \in ItemsOf(c) /\ \A e \in Calls \ {c} : i \notin ItemsOf(e)
    BY ItemPlace
  <2>a. /\ polling = {} /\ i \in attached /\ status[i] = "IN_PROGRESS"
        /\ UNCHANGED <<attached, pc, pos, wpc, wpos, task, sent, failed, reply,
                       chain, doubtful>>
        /\ \/ status' = status /\ polling' = {i}
           \/ /\ MarkPayoutFail({i}) /\ polling' = {}
              /\ task[c] = "FAIL" \/ (task[c] = "PARTIAL" /\ Found(i) = {})
    <3>1. /\ polling = {} /\ i \in attached /\ status[i] = "IN_PROGRESS"
          /\ UNCHANGED <<attached, pc, pos, wpc, wpos, task, sent, failed, reply,
                         chain, doubtful>>
      BY <1>14 DEF PollTask, Polled, Pending, InProgress
    <3>2. \/ status' = status /\ polling' = {i}
          \/ /\ MarkPayoutFail({i}) /\ polling' = polling
             /\ task[c] = "FAIL" \/ (task[c] = "PARTIAL" /\ Found(i) = {})
      BY <1>14 DEF PollTask
    <3> QED BY <3>1, <3>2
  <2>b. /\ pc[c] \in {"attach", "done"} /\ reply[c] = "ok" /\ wpc[c] = "over"
    BY <2>a, <2>c DEF Safety, CallSafe, AttachedHasReply, WorkIsRemembered, None
  <2>d. \A j \in Items \ {i} : status'[j] = status[j]
    <3>1. ASSUME MarkPayoutFail({i}) PROVE \A j \in Items \ {i} : status'[j] = status[j]
      BY <3>1, MarkFailTakes
    <3> QED BY <2>a, <3>1
  <2>e. status'[i] \in {"FAIL", "IN_PROGRESS"}
    BY <2>a, MarkFailTakes DEF TypeOK
  <2>f. status'[i] = "FAIL" => i \notin chain \/ i \in doubtful
    <3>1. CASE task[c] = "FAIL"
      <4>1. Outcome(c) = "FAIL"
        BY <2>c, <3>1 DEF Safety, CallSafe, ReportIsTrue
      <4>2. ItemsOf(c) \subseteq failed
        BY <4>1 DEF Outcome
      <4> QED BY <2>c, <4>2 DEF Safety, FailuresAreHonest
    <3>2. CASE Found(i) = {}
      <4>1. FirstTo(sent[c], Dest[i]) = {}
        BY <3>2 DEF Found
      <4>2. sent[c] \in Seq(Items)
        BY <2>c DEF TypeOK
      <4>3. \A n \in DOMAIN sent[c] : sent[c][n] # i
        BY <4>1, <4>2, FirstToExists
      <4> QED BY <2>c, <4>3 DEF Safety, CallSafe, WorkIsRemembered
    <3> QED BY <2>a, <3>1, <3>2
  <2> HIDE DEF c
  <2>1. \A e \in Calls \ {c} : Untouched(e)
    BY <2>a, <2>c, <2>d, ItemPlace DEF Untouched
  <2>2. \A e \in Calls \ {c} : CallSafe(e)'
    BY <2>1, UntouchedSafe DEF Safety
  <2>3. OwnsRows(c)'
    BY <2>a, <2>b, <2>c DEF Safety, CallSafe, OwnsRows
  <2>4. WorkIsRecorded(c)'
    BY <2>a, <2>b, <2>c, <2>d, <2>e, ItemPlace DEF Safety, CallSafe,
       WorkIsRecorded, None
  <2>5. AttachedHasReply(c)'
    BY <2>a, <2>c DEF Safety, CallSafe, AttachedHasReply
  <2>6. WorkIsRemembered(c)'
    BY <2>a, <2>c, MemoryKept DEF Safety
  <2>7. ReportIsTrue(c)'
    BY <2>a, <2>c, ReportKept DEF Safety
  <2>8. FailedIsSettled(c)'
    BY <2>a, <2>b, <2>c, <2>d, <2>e, <2>f, ItemPlace DEF Safety, CallSafe,
       FailedIsSettled
  <2>9. OrdersAreUnique'
    BY <2>a, <2>d, OrdersKept DEF Safety, None
  <2>10. PollingIsDue'
    BY <2>a DEF PollingIsDue
  <2>11. FailuresAreHonest'
    BY <2>a DEF Safety, FailuresAreHonest
  <2> QED BY <2>2, <2>3, <2>4, <2>5, <2>6, <2>7, <2>8, <2>9, <2>10, <2>11 DEF Safety, CallSafe
<1>15. ASSUME NEW i \in Items, Complete(i) PROVE Safety'
  <2> DEFINE c == CallOf(i)
  <2>c. c \in Calls /\ i \in ItemsOf(c) /\ \A e \in Calls \ {c} : i \notin ItemsOf(e)
    BY ItemPlace
  <2>a. /\ i \in attached /\ status[i] = "IN_PROGRESS" /\ polling' = {}
        /\ UNCHANGED <<attached, pc, pos, wpc, wpos, task, sent, failed, reply,
                       chain, doubtful>>
        /\ status' = status \/ status' = [status EXCEPT ![i] = "SUCCESS"]
    BY <1>15 DEF Complete, Safety, PollingIsDue
  <2>b. /\ pc[c] \in {"attach", "done"} /\ reply[c] = "ok" /\ wpc[c] = "over"
    BY <2>a, <2>c DEF Safety, CallSafe, AttachedHasReply, WorkIsRemembered, None
  <2>d. \A j \in Items \ {i} : status'[j] = status[j]
    BY <2>a DEF TypeOK
  <2>e. status'[i] \in {"SUCCESS", "IN_PROGRESS"}
    BY <2>a DEF TypeOK
  <2> HIDE DEF c
  <2>1. \A e \in Calls \ {c} : Untouched(e)
    BY <2>a, <2>c, <2>d, ItemPlace DEF Untouched
  <2>2. \A e \in Calls \ {c} : CallSafe(e)'
    BY <2>1, UntouchedSafe DEF Safety
  <2>3. OwnsRows(c)'
    BY <2>a, <2>b, <2>c DEF Safety, CallSafe, OwnsRows
  <2>4. WorkIsRecorded(c)'
    BY <2>a, <2>b, <2>c, <2>d, <2>e, ItemPlace DEF Safety, CallSafe,
       WorkIsRecorded, None
  <2>5. AttachedHasReply(c)'
    BY <2>a, <2>c DEF Safety, CallSafe, AttachedHasReply
  <2>6. WorkIsRemembered(c)'
    BY <2>a, <2>c, MemoryKept DEF Safety
  <2>7. ReportIsTrue(c)'
    BY <2>a, <2>c, ReportKept DEF Safety
  <2>8. FailedIsSettled(c)'
    BY <2>a, <2>b, <2>c, <2>d, <2>e, ItemPlace DEF Safety, CallSafe,
       FailedIsSettled
  <2>9. OrdersAreUnique'
    BY <2>a, <2>d, OrdersKept DEF Safety, None
  <2>10. PollingIsDue'
    BY <2>a DEF PollingIsDue
  <2>11. FailuresAreHonest'
    BY <2>a DEF Safety, FailuresAreHonest
  <2> QED BY <2>2, <2>3, <2>4, <2>5, <2>6, <2>7, <2>8, <2>9, <2>10, <2>11 DEF Safety, CallSafe
<1>16. ASSUME NEW i \in Items, Confirm(i) PROVE Safety'
  <2>1. ASSUME NEW c \in Calls PROVE CallSafe(c)'
    <3>1. OwnsRows(c)'
      BY <1>16, ItemPlace, ItemAt DEF Confirm, TypeOK, Safety, CallSafe,
         None, OwnsRows
    <3>2. WorkIsRecorded(c)'
      BY <1>16, ItemPlace, ItemAt DEF Confirm, TypeOK, Safety, CallSafe,
         None, WorkIsRecorded
    <3>3. AttachedHasReply(c)'
      BY <1>16, ItemPlace, ItemAt DEF Confirm, TypeOK, Safety, CallSafe,
         None, AttachedHasReply
    <3>4. WorkIsRemembered(c)'
      BY <1>16, ItemPlace, ItemAt DEF Confirm, TypeOK, Safety, CallSafe,
         None, WorkIsRemembered
    <3>5. ReportIsTrue(c)'
      BY <1>16, ItemPlace, ItemAt DEF Confirm, TypeOK, Safety, CallSafe,
         None, ReportIsTrue, Outcome
    <3>6. FailedIsSettled(c)'
      BY <1>16, ItemPlace, ItemAt DEF Confirm, TypeOK, Safety, CallSafe,
         None, FailedIsSettled
    <3> QED BY <3>1, <3>2, <3>3, <3>4, <3>5, <3>6 DEF CallSafe
  <2>7. OrdersAreUnique'
    BY <1>16, ItemPlace DEF Confirm, TypeOK, Safety, None, OrdersAreUnique
  <2>8. PollingIsDue'
    BY <1>16, ItemPlace DEF Confirm, TypeOK, Safety, None, PollingIsDue
  <2>9. FailuresAreHonest'
    BY <1>16, ItemPlace DEF Confirm, TypeOK, Safety, None, FailuresAreHonest
  <2> QED BY <2>1, <2>7, <2>8, <2>9 DEF Safety
<1>17. ASSUME NEW i \in Items, Expire(i) PROVE Safety'
  <2>1. ASSUME NEW c \in Calls PROVE CallSafe(c)'
    <3>1. OwnsRows(c)'
      BY <1>17, ItemPlace, ItemAt DEF Expire, TypeOK, Safety, CallSafe, None,
         OwnsRows
    <3>2. WorkIsRecorded(c)'
      BY <1>17, ItemPlace, ItemAt DEF Expire, TypeOK, Safety, CallSafe, None,
         WorkIsRecorded
    <3>3. AttachedHasReply(c)'
      BY <1>17, ItemPlace, ItemAt DEF Expire, TypeOK, Safety, CallSafe, None,
         AttachedHasReply
    <3>4. WorkIsRemembered(c)'
      BY <1>17, ItemPlace, ItemAt DEF Expire, TypeOK, Safety, CallSafe, None,
         WorkIsRemembered
    <3>5. ReportIsTrue(c)'
      BY <1>17, ItemPlace, ItemAt DEF Expire, TypeOK, Safety, CallSafe, None,
         ReportIsTrue, Outcome
    <3>6. FailedIsSettled(c)'
      BY <1>17, ItemPlace, ItemAt DEF Expire, TypeOK, Safety, CallSafe, None,
         FailedIsSettled
    <3> QED BY <3>1, <3>2, <3>3, <3>4, <3>5, <3>6 DEF CallSafe
  <2>7. OrdersAreUnique'
    BY <1>17, ItemPlace DEF Expire, TypeOK, Safety, None, OrdersAreUnique
  <2>8. PollingIsDue'
    BY <1>17, ItemPlace DEF Expire, TypeOK, Safety, None, PollingIsDue
  <2>9. FailuresAreHonest'
    BY <1>17, ItemPlace DEF Expire, TypeOK, Safety, None, FailuresAreHonest
  <2> QED BY <2>1, <2>7, <2>8, <2>9 DEF Safety
<1>18. CASE CrashService
  <2>1. ASSUME NEW c \in Calls PROVE CallSafe(c)'
    <3>1. OwnsRows(c)'
      BY <1>18, ItemPlace, ItemAt DEF CrashService, TypeOK, Safety, CallSafe,
         None, OwnsRows
    <3>2. WorkIsRecorded(c)'
      BY <1>18, ItemPlace, ItemAt DEF CrashService, TypeOK, Safety, CallSafe,
         None, WorkIsRecorded
    <3>3. AttachedHasReply(c)'
      BY <1>18, ItemPlace, ItemAt DEF CrashService, TypeOK, Safety, CallSafe,
         None, AttachedHasReply
    <3>4. WorkIsRemembered(c)'
      BY <1>18, ItemPlace, ItemAt DEF CrashService, TypeOK, Safety, CallSafe,
         None, WorkIsRemembered
    <3>5. ReportIsTrue(c)'
      BY <1>18, ItemPlace, ItemAt DEF CrashService, TypeOK, Safety, CallSafe,
         None, ReportIsTrue, Outcome
    <3>6. FailedIsSettled(c)'
      BY <1>18, ItemPlace, ItemAt DEF CrashService, TypeOK, Safety, CallSafe,
         None, FailedIsSettled
    <3> QED BY <3>1, <3>2, <3>3, <3>4, <3>5, <3>6 DEF CallSafe
  <2>7. OrdersAreUnique'
    BY <1>18, ItemPlace DEF CrashService, TypeOK, Safety, None,
       OrdersAreUnique
  <2>8. PollingIsDue'
    BY <1>18, ItemPlace DEF CrashService, TypeOK, Safety, None, PollingIsDue
  <2>9. FailuresAreHonest'
    BY <1>18, ItemPlace DEF CrashService, TypeOK, Safety, None,
       FailuresAreHonest
  <2> QED BY <2>1, <2>7, <2>8, <2>9 DEF Safety
<1>19. CASE CrashWorker
  <2>1. ASSUME NEW c \in Calls PROVE CallSafe(c)'
    <3>1. OwnsRows(c)'
      BY <1>19 DEF CrashWorker, Safety, CallSafe, OwnsRows
    <3>2. WorkIsRecorded(c)'
      BY <1>19, ItemPlace, ItemAt DEF CrashWorker, TypeOK, Safety, CallSafe,
         None, WorkIsRecorded
    <3>3. AttachedHasReply(c)'
      BY <1>19, ItemPlace, ItemAt DEF CrashWorker, TypeOK, Safety, CallSafe,
         None, AttachedHasReply
    <3>4. WorkIsRemembered(c)'
      BY <1>19, ItemPlace, ItemAt DEF CrashWorker, TypeOK, Safety, CallSafe,
         None, WorkIsRemembered
    <3>5. ReportIsTrue(c)'
      BY <1>19, ItemPlace, ItemAt DEF CrashWorker, TypeOK, Safety, CallSafe,
         None, ReportIsTrue, Outcome
    <3>6. FailedIsSettled(c)'
      BY <1>19, ItemPlace, ItemAt DEF CrashWorker, TypeOK, Safety, CallSafe,
         None, FailedIsSettled
    <3> QED BY <3>1, <3>2, <3>3, <3>4, <3>5, <3>6 DEF CallSafe
  <2>7. OrdersAreUnique'
    BY <1>19, ItemPlace DEF CrashWorker, TypeOK, Safety, None,
       OrdersAreUnique
  <2>8. PollingIsDue'
    BY <1>19, ItemPlace DEF CrashWorker, TypeOK, Safety, None, PollingIsDue
  <2>9. FailuresAreHonest'
    BY <1>19, ItemPlace DEF CrashWorker, TypeOK, Safety, None,
       FailuresAreHonest
  <2> QED BY <2>1, <2>7, <2>8, <2>9 DEF Safety
<1>20. CASE UNCHANGED vars
  <2>1. ASSUME NEW c \in Calls PROVE CallSafe(c)'
    <3>1. OwnsRows(c)'
      BY <1>20, ItemPlace, ItemAt DEF vars, TypeOK, Safety, CallSafe, None,
         OwnsRows
    <3>2. WorkIsRecorded(c)'
      BY <1>20, ItemPlace, ItemAt DEF vars, TypeOK, Safety, CallSafe, None,
         WorkIsRecorded
    <3>3. AttachedHasReply(c)'
      BY <1>20, ItemPlace, ItemAt DEF vars, TypeOK, Safety, CallSafe, None,
         AttachedHasReply
    <3>4. WorkIsRemembered(c)'
      BY <1>20, ItemPlace, ItemAt DEF vars, TypeOK, Safety, CallSafe, None,
         WorkIsRemembered
    <3>5. ReportIsTrue(c)'
      BY <1>20, ItemPlace, ItemAt DEF vars, TypeOK, Safety, CallSafe, None,
         ReportIsTrue, Outcome
    <3>6. FailedIsSettled(c)'
      BY <1>20, ItemPlace, ItemAt DEF vars, TypeOK, Safety, CallSafe, None,
         FailedIsSettled
    <3> QED BY <3>1, <3>2, <3>3, <3>4, <3>5, <3>6 DEF CallSafe
  <2>7. OrdersAreUnique'
    BY <1>20, ItemPlace DEF vars, TypeOK, Safety, None, OrdersAreUnique
  <2>8. PollingIsDue'
    BY <1>20, ItemPlace DEF vars, TypeOK, Safety, None, PollingIsDue
  <2>9. FailuresAreHonest'
    BY <1>20, ItemPlace DEF vars, TypeOK, Safety, None, FailuresAreHonest
  <2> QED BY <2>1, <2>7, <2>8, <2>9 DEF Safety
<1> QED BY <1>1, <1>2, <1>3, <1>4, <1>5, <1>6, <1>7, <1>8, <1>9, <1>10,
           <1>11, <1>12, <1>13, <1>14, <1>15, <1>16, <1>17, <1>18, <1>19,
           <1>20
        DEF Next, Service, Worker, Poller

----------------------------------------------------------------------------
(* The invariant holds in every reachable state.                           *)
LEMMA Inductive == Spec => [](TypeOK /\ Safety)
<1>1. Init => TypeOK /\ Safety
  BY InitSafe
<1>2. TypeOK /\ Safety /\ [Next]_vars => (TypeOK /\ Safety)'
  BY NextType, NextSafe
<1> QED BY <1>1, <1>2, PTL DEF Spec

(* Rows, calls and tasks have their types.                                 *)
THEOREM TypeCorrect == Spec => []TypeOK
BY Inductive, PTL

(* What is broadcast has a row: the worker only gets recorded items.       *)
LEMMA BroadcastIsRecorded ==
  ASSUME TypeOK, Safety, NEW i \in chain
  PROVE  i \in Items /\ status[i] # None
<1> DEFINE c == CallOf(i)
<1>1. i \in Items /\ c \in Calls /\ i \in ItemsOf(c)
  BY ItemPlace DEF TypeOK
<1>2. wpc[c] # "idle"
  BY <1>1, ItemAt DEF Safety, CallSafe, WorkIsRemembered
<1> QED BY <1>1, <1>2 DEF Safety, CallSafe, WorkIsRecorded

(* An order id is paid at most once, however often and however             *)
(* concurrently its payout is asked for, and whatever fails.               *)
THEOREM OnePaymentPerOrder == Spec => []OrderPaidOnce
<1>1. TypeOK /\ Safety => OrderPaidOnce
  BY BroadcastIsRecorded DEF Safety, OrdersAreUnique, OrderPaidOnce
<1> QED BY <1>1, Inductive, PTL

(* A failed payout was not paid, unless its outcome stayed unknown.        *)
THEOREM FailureIsHonest == Spec => []FailedMeansUnpaid
<1>1. TypeOK /\ Safety => FailedMeansUnpaid
  BY ItemPlace DEF Safety, CallSafe, FailedIsSettled, FailedMeansUnpaid
<1> QED BY <1>1, Inductive, PTL

----------------------------------------------------------------------------
(* Results are matched to rows by destination.                             *)

(* The worker remembers as sent what is on the chain.                      *)
SentIsPaid == \A c \in Calls : \A n \in DOMAIN sent[c] : sent[c][n] \in chain

(* The results a call has yet to attach are payments of its own.           *)
QueueIsPaid ==
  \A c \in Calls : \A n \in DOMAIN queue[c] : queue[c][n] \in ItemsOf(c) \cap chain

Matching == SentIsPaid /\ QueueIsPaid /\ TxidsPayTheAddress

(* What may be attached to a row without breaking TxidsPayTheAddress.      *)
PaysFor(t, i) == t \in chain /\ CallOf(t) = CallOf(i) /\ Dest[t] = Dest[i]

(* A result for the destination of an item was sent there by its call.     *)
LEMMA FirstToPays ==
  ASSUME NEW c \in Calls, NEW i \in ItemsOf(c), NEW results \in Seq(Items),
         \A n \in DOMAIN results : results[n] \in ItemsOf(c) \cap chain
  PROVE  \A n \in FirstTo(results, Dest[i]) : PaysFor(results[n], i)
BY ItemPlace DEF FirstTo, PaysFor

(* Attaching such a transaction is right.                                  *)
LEMMA AttachPays ==
  ASSUME TypeOK, TxidsPayTheAddress, NEW i \in Items, NEW got,
         \A t \in got : PaysFor(t, i), UNCHANGED <<chain, confirmed, status>>,
         txids' = [txids EXCEPT ![i] = txids[i] \cup got]
  PROVE  TxidsPayTheAddress'
<1>1. \A j \in Items : txids[j] \subseteq txids'[j]
  BY DEF TypeOK
<1>2. \A j \in Items : \A t \in txids'[j] : PaysFor(t, j)
  BY DEF TypeOK, TxidsPayTheAddress, PaysFor
<1>3. ASSUME NEW j \in Items, status'[j] = "SUCCESS"
      PROVE  txids'[j] \cap confirmed' # {}
  BY <1>1, <1>3 DEF TxidsPayTheAddress
<1> QED BY <1>2, <1>3 DEF TxidsPayTheAddress, PaysFor

(* A step that only lets the chain grow and completes nothing is right.    *)
LEMMA QuietMatching ==
  ASSUME Matching, UNCHANGED <<queue, txids, sent>>,
         chain \subseteq chain', confirmed \subseteq confirmed',
         \A i \in Items : status'[i] = "SUCCESS" => status[i] = "SUCCESS"
  PROVE  Matching'
<1>1. SentIsPaid' /\ QueueIsPaid'
  BY DEF Matching, SentIsPaid, QueueIsPaid
<1>2. ASSUME NEW i \in Items, NEW t \in txids'[i]
      PROVE  t \in chain' /\ CallOf(t) = CallOf(i) /\ Dest[t] = Dest[i]
  BY DEF Matching, TxidsPayTheAddress
<1>3. ASSUME NEW i \in Items, status'[i] = "SUCCESS"
      PROVE  txids'[i] \cap confirmed' # {}
  BY <1>3 DEF Matching, TxidsPayTheAddress
<1> QED BY <1>1, <1>2, <1>3 DEF Matching, TxidsPayTheAddress

(* Marking rows as failed completes none.                                  *)
LEMMA MarkFailCompletesNone ==
  ASSUME NEW S, MarkPayoutFail(S)
  PROVE  \A i \in Items : status'[i] = "SUCCESS" => status[i] = "SUCCESS"
<1>1. PICK F \in SUBSET S :
        status' = [i \in Items |-> IF i \in F THEN "FAIL" ELSE status[i]]
  BY MarkFailTakes
<1> QED BY <1>1

(* Every step keeps rows to transactions of their call and address.        *)
LEMMA NextMatching ==
  ASSUME TypeOK, Safety, Matching, [Next]_vars
  PROVE  Matching'
<1> USE DEF rowVars, callVars, workerVars, chainVars
<1>1. ASSUME NEW c \in Calls, GetReply(c) PROVE Matching'
  <2>1. queue' = [queue EXCEPT ![c] = sent[c]] /\ UNCHANGED <<txids, sent, chain, confirmed, status>>
    BY <1>1 DEF GetReply
  <2>2. \A n \in DOMAIN sent[c] : sent[c][n] \in ItemsOf(c) \cap chain
    BY DEF Safety, CallSafe, WorkIsRemembered, Matching, SentIsPaid
  <2>3. QueueIsPaid'
    BY <2>1, <2>2 DEF TypeOK, Matching, QueueIsPaid
  <2>4. SentIsPaid' /\ TxidsPayTheAddress'
    BY <2>1 DEF Matching, SentIsPaid, TxidsPayTheAddress
  <2> QED BY <2>3, <2>4 DEF Matching
<1>2. ASSUME NEW c \in Calls, Attach(c) PROVE Matching'
  <2> DEFINE i    == CallItems[c][pos[c]]
             pop  == FirstTo(queue[c], Dest[i])
             rest == Without(queue[c], pop)
             got  == {queue[c][n] : n \in pop}
  <2>1. pos[c] \in 1 .. Len(CallItems[c])
    BY <1>2, ItemAt DEF Attach, TypeOK, Safety, CallSafe, OwnsRows
  <2>2. i \in ItemsOf(c) /\ i \in Items
    BY <2>1, ItemAt, ItemPlace
  <2>3. /\ queue[c] \in Seq(Items)
        /\ \A n \in DOMAIN queue[c] : queue[c][n] \in ItemsOf(c) \cap chain
    BY DEF TypeOK, Matching, QueueIsPaid
  <2>4. \A t \in got : PaysFor(t, i)
    BY <2>2, <2>3, FirstToPays
  <2>5. \A n \in DOMAIN rest : rest[n] \in ItemsOf(c) \cap chain
    BY <2>3, WithoutType
  <2>6. /\ queue' = [queue EXCEPT ![c] = rest]
        /\ txids' = [txids EXCEPT ![i] = txids[i] \cup got]
        /\ UNCHANGED <<chain, confirmed, status, sent>>
    BY <1>2 DEF Attach
  <2>7. QueueIsPaid'
    <3> HIDE DEF rest
    <3> QED BY <2>5, <2>6 DEF TypeOK, Matching, QueueIsPaid
  <2>8. TxidsPayTheAddress'
    <3> HIDE DEF got, i
    <3> QED BY <2>2, <2>4, <2>6, AttachPays DEF Matching
  <2>9. SentIsPaid'
    BY <2>6 DEF Matching, SentIsPaid
  <2> QED BY <2>7, <2>8, <2>9 DEF Matching
<1>3. ASSUME NEW i \in Items, PollTask(i) PROVE Matching'
  <2> DEFINE c == CallOf(i)
  <2>1. c \in Calls /\ i \in ItemsOf(c) /\ sent[c] \in Seq(Items)
    BY ItemPlace DEF TypeOK
  <2>2. \A n \in DOMAIN sent[c] : sent[c][n] \in ItemsOf(c) \cap chain
    BY <2>1 DEF Safety, CallSafe, WorkIsRemembered, Matching, SentIsPaid
  <2>3. \A t \in Found(i) : PaysFor(t, i)
    BY <2>1, <2>2, FirstToPays DEF Found
  <2>4. /\ UNCHANGED <<queue, sent, chain, confirmed>>
        /\ \/ txids' = txids /\ (status' = status \/ MarkPayoutFail({i}))
           \/ status' = status /\ txids' = [txids EXCEPT ![i] = txids[i] \cup Found(i)]
    BY <1>3 DEF PollTask
  <2>5. CASE txids' = txids /\ (status' = status \/ MarkPayoutFail({i}))
    <3>1. \A j \in Items : status'[j] = "SUCCESS" => status[j] = "SUCCESS"
      BY <2>5, MarkFailCompletesNone
    <3> QED BY <2>4, <2>5, <3>1, QuietMatching
  <2>6. CASE status' = status /\ txids' = [txids EXCEPT ![i] = txids[i] \cup Found(i)]
    <3>1. TxidsPayTheAddress'
      BY <2>3, <2>4, <2>6, AttachPays DEF Matching
    <3> QED BY <2>4, <3>1 DEF Matching, SentIsPaid, QueueIsPaid
  <2> QED BY <2>4, <2>5, <2>6
<1>4. ASSUME NEW i \in Items, Complete(i) PROVE Matching'
  <2>1. /\ UNCHANGED <<queue, txids, sent, chain, confirmed>>
        /\ \/ status' = status
           \/ /\ txids[i] \cap confirmed # {}
              /\ status' = [status EXCEPT ![i] = "SUCCESS"]
    BY <1>4 DEF Complete
  <2>2. SentIsPaid' /\ QueueIsPaid'
    BY <2>1 DEF Matching, SentIsPaid, QueueIsPaid
  <2>3. \A j \in Items : status'[j] = "SUCCESS" => txids[j] \cap confirmed # {}
    BY <2>1 DEF TypeOK, Matching, TxidsPayTheAddress
  <2>4. TxidsPayTheAddress'
    BY <2>1, <2>3 DEF Matching, TxidsPayTheAddress
  <2> QED BY <2>2, <2>4 DEF Matching
<1>5. ASSUME NEW c \in Calls, Broadcast(c) PROVE Matching'
  <2> DEFINE i == CallItems[c][wpos[c]]
  <2>1. /\ UNCHANGED <<queue, txids, confirmed, status>> /\ chain \subseteq chain'
        /\ \/ sent' = sent
           \/ /\ chain' = chain \cup {i}
              /\ sent' = [sent EXCEPT ![c] = Append(sent[c], i)]
    BY <1>5 DEF Broadcast
  <2>2. QueueIsPaid' /\ TxidsPayTheAddress'
    BY <2>1 DEF Matching, QueueIsPaid, TxidsPayTheAddress
  <2>3. SentIsPaid'
    <3>1. CASE sent' = sent
      BY <2>1, <3>1 DEF Matching, SentIsPaid
    <3>2. CASE chain' = chain \cup {i} /\ sent' = [sent EXCEPT ![c] = Append(sent[c], i)]
      <4>1. \A n \in DOMAIN Append(sent[c], i) : Append(sent[c], i)[n] \in chain \cup {i}
        <5>1. sent[c] \in Seq(Items) /\ \A n \in DOMAIN sent[c] : sent[c][n] \in chain
          BY DEF TypeOK, Matching, SentIsPaid
        <5> HIDE DEF i
        <5> QED BY <5>1
      <4> HIDE DEF i
      <4> QED BY <3>2, <4>1 DEF TypeOK, Matching, SentIsPaid
    <3> QED BY <2>1, <3>1, <3>2
  <2> QED BY <2>2, <2>3 DEF Matching
<1>6. ASSUME NEW c \in Calls, CancelCreated(c) \/ GetError(c) PROVE Matching'
  <2>1. /\ UNCHANGED <<queue, txids, sent, chain, confirmed>>
        /\ \E S : MarkPayoutFail(S)
    BY <1>6 DEF CancelCreated, GetError
  <2>2. \A i \in Items : status'[i] = "SUCCESS" => status[i] = "SUCCESS"
    BY <2>1, MarkFailCompletesNone
  <2> QED BY <2>1, <2>2, QuietMatching
<1>7. ASSUME NEW c \in Calls, Create(c) \/ CreateFails(c) PROVE Matching'
  <2>1. /\ UNCHANGED <<queue, txids, sent, chain, confirmed>>
        /\ status' = status \/ InsertPayout(CallItems[c][pos[c]])
    BY <1>7 DEF Create, CreateFails
  <2>2. \A i \in Items : status'[i] = "SUCCESS" => status[i] = "SUCCESS"
    BY <2>1 DEF InsertPayout, TypeOK
  <2> QED BY <2>1, <2>2, QuietMatching
<1>8. CASE /\ UNCHANGED <<queue, txids, sent, chain, status>>
           /\ confirmed \subseteq confirmed'
  BY <1>8, QuietMatching
<1>9. \/ \E c \in Calls : \/ GetReply(c) \/ Attach(c) \/ Broadcast(c)
                          \/ CancelCreated(c) \/ GetError(c)
                          \/ Create(c) \/ CreateFails(c)
      \/ \E i \in Items : PollTask(i) \/ Complete(i)
      \/ /\ UNCHANGED <<queue, txids, sent, chain, status>>
         /\ confirmed \subseteq confirmed'
  BY DEF Next, Service, Worker, Poller, Prepare, Send, AttachFails, AddTask,
     UpdateTask, UpdateTaskFails, Confirm, Expire, CrashService, CrashWorker, vars
<1> QED BY <1>1, <1>2, <1>3, <1>4, <1>5, <1>6, <1>7, <1>9, <1>8

(* A row carries only transactions of its own call to its own address, and *)
(* a confirmed one if it succeeded; lists may name an address repeatedly,  *)
(* and any of their items may fail.                                        *)
THEOREM PaidToTheAddress == Spec => []TxidsPayTheAddress
<1>1. Init => Matching
  BY DEF Init, Matching, SentIsPaid, QueueIsPaid, TxidsPayTheAddress, None
<1>2. TypeOK /\ Safety /\ Matching /\ [Next]_vars => Matching'
  BY NextMatching
<1>3. Matching => TxidsPayTheAddress
  BY DEF Matching
<1> QED BY <1>1, <1>2, <1>3, Inductive, PTL DEF Spec

(* With distinct destinations the transactions are the row's own.          *)
TxidsAreOwn == \A i \in Items : txids[i] \subseteq {i}

(* If no list holds two payouts to one address, a row only ever gets its   *)
(* own transaction, in the reply as well as in the polled task.            *)
THEOREM OwnTransactions ==
  ASSUME DistinctDestinations PROVE Spec => []TxidsAreOwn
<1>1. ASSUME TypeOK, TxidsPayTheAddress PROVE TxidsAreOwn
  <2> SUFFICES ASSUME NEW i \in Items, NEW t \in txids[i] PROVE t = i
    BY DEF TxidsAreOwn
  <2>1. t \in Items /\ CallOf(t) = CallOf(i) /\ Dest[t] = Dest[i]
    BY <1>1 DEF TypeOK, TxidsPayTheAddress
  <2> DEFINE c == CallOf(i)
  <2>2. c \in Calls /\ i \in ItemsOf(c) /\ t \in ItemsOf(c)
    BY <2>1, ItemPlace
  <2>3. PICK m \in DOMAIN CallItems[c] : t = CallItems[c][m]
    BY <2>2 DEF ItemsOf
  <2>4. PICK n \in DOMAIN CallItems[c] : i = CallItems[c][n]
    BY <2>2 DEF ItemsOf
  <2> QED BY <2>1, <2>2, <2>3, <2>4 DEF DistinctDestinations
<1>2. TypeOK /\ TxidsPayTheAddress => TxidsAreOwn
  BY <1>1
<1> QED BY <1>2, PaidToTheAddress, TypeCorrect, PTL

----------------------------------------------------------------------------
(* The program, seen through its rows and the chain, does what PayoutSpec  *)
(* says.                                                                   *)

(* Marking rows in progress is the specification's failure.                *)
LEMMA MarkFails ==
  ASSUME NEW S \in SUBSET Items, \A i \in S : status[i] = "IN_PROGRESS",
         MarkPayoutFail(S), UNCHANGED chain
  PROVE  Promise!PNext
<1>1. PICK F \in SUBSET S :
        status' = [i \in Items |-> IF i \in F THEN "FAIL" ELSE status[i]]
  BY MarkFailTakes
<1>2. F \in SUBSET Items /\ Promise!Fail(F)
  BY <1>1 DEF Promise!Fail
<1> QED BY <1>2 DEF Promise!PNext

(* Creating a row is the specification's opening.                          *)
LEMMA CreateOpens ==
  ASSUME Safety, TypeOK, NEW c \in Calls, pc[c] = "create",
         ~Taken(CallItems[c][pos[c]]), UNCHANGED chain,
         status' = [status EXCEPT ![CallItems[c][pos[c]]] = "IN_PROGRESS"]
  PROVE  Promise!PNext
<1> DEFINE i == CallItems[c][pos[c]]
<1>1. pos[c] \in 1 .. Len(CallItems[c])
  BY ItemAt DEF TypeOK, Safety, CallSafe, OwnsRows
<1>2. i \in Items /\ status[i] = "none"
  BY <1>1, ItemAt, ItemPlace DEF Safety, CallSafe, OwnsRows, None
<1>3. \A j \in Items : Promise!SameOrder(i, j) => status[j] = "none"
  BY DEF Taken, SameOrder, Promise!SameOrder, None
<1>4. Promise!Open(i)
  BY <1>2, <1>3 DEF Promise!Open
<1> QED BY <1>2, <1>4 DEF Promise!PNext

(* Every step of the program is one of the specification or changes        *)
(* neither a status nor the chain.                                         *)
LEMMA NextKeepsPromise ==
  ASSUME TypeOK, Safety, TxidsAreOwn, [Next]_vars
  PROVE  [Promise!PNext]_<<status, chain>>
<1> USE DEF rowVars, callVars, workerVars, chainVars
<1>1. ASSUME NEW c \in Calls, Create(c) PROVE Promise!PNext
  BY <1>1, CreateOpens DEF Create, InsertPayout
<1>2. ASSUME NEW c \in Calls, CreateFails(c)
      PROVE  Promise!PNext \/ UNCHANGED <<status, chain>>
  BY <1>2, CreateOpens DEF CreateFails, InsertPayout
<1>3. ASSUME NEW c \in Calls, CancelCreated(c) PROVE Promise!PNext
  <2>1. pc[c] = "cancel" /\ MarkPayoutFail(Created(c)) /\ UNCHANGED chain
    BY <1>3 DEF CancelCreated
  <2>2. pos[c] \in Nat \ {0} /\ pos[c] <= Len(CallItems[c])
    BY <2>1 DEF TypeOK, Safety, CallSafe, OwnsRows
  <2>3. Created(c) \in SUBSET Items
    BY <2>2, CreatedItems, ItemPlace
  <2>4. \A i \in Created(c) : status[i] = "IN_PROGRESS"
    BY <2>1 DEF Safety, CallSafe, OwnsRows, Created
  <2> QED BY <2>1, <2>3, <2>4, MarkFails
<1>4. ASSUME NEW c \in Calls, GetError(c) PROVE Promise!PNext
  <2>1. pc[c] = "waiting" /\ MarkPayoutFail(ItemsOf(c)) /\ UNCHANGED chain
    BY <1>4 DEF GetError
  <2>2. \A i \in ItemsOf(c) : i \in Items /\ status[i] = "IN_PROGRESS"
    BY <2>1, ItemPlace DEF Safety, CallSafe, OwnsRows
  <2> QED BY <2>1, <2>2, MarkFails
<1>5. ASSUME NEW c \in Calls, Broadcast(c)
      PROVE  Promise!PNext \/ UNCHANGED <<status, chain>>
  <2> DEFINE i == CallItems[c][wpos[c]]
  <2>1. wpc[c] = "broadcast" /\ wpos[c] \in 1 .. Len(CallItems[c])
    BY <1>5, ItemAt DEF Broadcast, TypeOK
  <2>2. i \in Items /\ i \notin chain /\ status[i] # "none"
    BY <2>1, ItemAt, ItemPlace
       DEF Safety, CallSafe, WorkIsRemembered, WorkIsRecorded, None
  <2>3. status' = status /\ (chain' = chain \/ chain' = chain \cup {i})
    BY <1>5 DEF Broadcast
  <2> HIDE DEF i
  <2> QED BY <2>2, <2>3 DEF Promise!PNext, Promise!Pay
<1>6. ASSUME NEW i \in Items, PollTask(i)
      PROVE  Promise!PNext \/ UNCHANGED <<status, chain>>
  <2>1. /\ status[i] = "IN_PROGRESS" /\ UNCHANGED chain
        /\ status' = status \/ MarkPayoutFail({i})
    BY <1>6 DEF PollTask, Polled, Pending, InProgress
  <2> QED BY <2>1, MarkFails
<1>7. ASSUME NEW i \in Items, Complete(i)
      PROVE  Promise!PNext \/ UNCHANGED <<status, chain>>
  <2>1. /\ status[i] = "IN_PROGRESS" /\ UNCHANGED chain
        /\ \/ status' = status
           \/ /\ txids[i] \cap confirmed # {}
              /\ status' = [status EXCEPT ![i] = "SUCCESS"]
    BY <1>7 DEF Complete, Safety, PollingIsDue
  <2>2. txids[i] \cap confirmed # {} => i \in chain
    BY DEF TypeOK, TxidsAreOwn
  <2> QED BY <2>1, <2>2 DEF Promise!PNext, Promise!Succeed
<1>8. \/ \E c \in Calls : \/ Create(c) \/ CreateFails(c) \/ CancelCreated(c)
                          \/ GetError(c) \/ Broadcast(c)
      \/ \E i \in Items : PollTask(i) \/ Complete(i)
      \/ UNCHANGED <<status, chain>>
  BY DEF Next, Service, Worker, Poller, Prepare, Send, GetReply, Attach,
     AttachFails, AddTask, UpdateTask, UpdateTaskFails, Confirm, Expire,
     CrashService, CrashWorker, vars
<1> QED BY <1>1, <1>2, <1>3, <1>4, <1>5, <1>6, <1>7, <1>8

(* Opened once per order id, paid at most once and only when open, done    *)
(* only when paid, and final once final: the program implements PayoutSpec *)
(* as long as no list holds two payouts to one address.                    *)
THEOREM PromiseIsKept ==
  ASSUME DistinctDestinations PROVE Spec => KeepsPromise
<1>1. Init => Promise!PInit
  BY DEF Init, Promise!PInit, None
<1>2. TypeOK /\ Safety /\ TxidsAreOwn /\ [Next]_vars
        => [Promise!PNext]_<<status, chain>>
  BY NextKeepsPromise
<1>3. Spec => []TxidsAreOwn
  BY OwnTransactions
<1> QED BY <1>1, <1>2, <1>3, Inductive, PTL DEF Spec, KeepsPromise, Promise!PSpec
=============================================================================
