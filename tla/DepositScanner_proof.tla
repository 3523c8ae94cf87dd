------------------------ MODULE DepositScanner_proof ------------------------
(***************************************************************************)
(* What the indexer guarantees for any set of invoices, any number of      *)
(* workers on one cursor, any batch, chunk and confirmation depth: the     *)
(* cursor passes no deposit a scan could have seen, and only confirmed     *)
(* deposits are indexed.                                                   *)
(***************************************************************************)
EXTENDS DepositScanner, FiniteSetTheorems, WellFoundedInduction, TLAPS

Watched  == open \ unwatched
Scanning == {"chunk", "store"}

(* Time is consistent: nothing is newer than the head, and a deposit comes *)
(* after its invoice.                                                      *)
Times ==
  /\ cursor <= head
  /\ \A a \in Addresses :
       /\ created[a] <= head
       /\ deposit[a] # 0 => created[a] # 0 /\ created[a] < deposit[a] /\ deposit[a] <= head
  /\ \A a \in open : created[a] # 0

(* A pass beyond its first query has invoices to look for, and only blocks *)
(* that were confirmed when it started.                                    *)
PassesAreBounded ==
  \A s \in Scanners :
    /\ spc[s] # "idle" => index[s] # {}
    /\ \A a \in index[s] : created[a] # 0
    /\ spc[s] \in {"cursor"} \cup Scanning => to[s] <= LastConfirmed
    /\ spc[s] \in Scanning => 1 <= from[s] /\ from[s] <= to[s]

(* What a scan has behind it is indexed, and an invoice it does not know   *)
(* is too young to matter to it.                                           *)
PassesAreComplete ==
  \A s \in Scanners : spc[s] \in Scanning =>
    \A a \in Watched :
      /\ a \in index[s] \/ created[a] >= to[s]
      /\ deposit[a] \in 1 .. from[s] - 1 => a \in events

(* The chunk a scan stores is fetched in full and holds nothing else.      *)
LogsAreExact ==
  \A s \in Scanners :
    /\ \A a \in logs[s] : deposit[a] # 0 /\ deposit[a] <= LastConfirmed
    /\ spc[s] = "store" =>
         \A a \in Watched :
           deposit[a] \in from[s] .. ChunkEnd(s) => a \in events \cup logs[s]

Safety ==
  /\ Times /\ PassesAreBounded /\ PassesAreComplete /\ LogsAreExact
  /\ PassedMeansIndexed /\ EventsAreConfirmed

----------------------------------------------------------------------------
(* Extrema of sets of block numbers.                                       *)

(* The minimum of a set of naturals is in it and below its elements.       *)
LEMMA MinOfNats ==
  ASSUME NEW S \in SUBSET Nat, S # {}
  PROVE  Min(S) \in S /\ \A y \in S : Min(S) <= y
<1>1. PICK x \in S : \A y \in S : ~ (<<y, x>> \in OpToRel(<, Nat))
  <2> HIDE DEF OpToRel
  <2> QED BY NatLessThanWellFounded, WFMin
<1>2. \A y \in S : ~ (y < x)
  BY <1>1 DEF OpToRel
<1>3. \A y \in S : x <= y
  BY <1>2
<1> QED BY <1>3 DEF Min

(* The smaller of two integers.                                            *)
LEMMA MinOfTwo ==
  ASSUME NEW m \in Int, NEW n \in Int
  PROVE  Min({m, n}) = IF m <= n THEN m ELSE n
BY DEF Min

(* The larger of two integers.                                             *)
LEMMA MaxOfTwo ==
  ASSUME NEW m \in Int, NEW n \in Int
  PROVE  Max({m, n}) = IF m >= n THEN m ELSE n
BY DEF Max

(* The earliest creation among loaded invoices is a lower bound of them.   *)
LEMMA EarliestIsFirst ==
  ASSUME created \in [Addresses -> Nat], NEW B \in SUBSET Addresses, B # {}
  PROVE  Earliest(B) \in Nat /\ \A a \in B : Earliest(B) <= created[a]
<1> DEFINE S == {created[a] : a \in B}
<1>1. S \in SUBSET Nat /\ S # {}
  OBVIOUS
<1>2. Min(S) \in S /\ \A y \in S : Min(S) <= y
  BY <1>1, MinOfNats
<1> QED BY <1>1, <1>2 DEF Earliest

(* A batch of a nonempty table is not empty.                               *)
LEMMA BatchesAreFilled ==
  ASSUME TypeOK, open # {}, NEW B \in Batches
  PROVE  B # {} /\ B \subseteq open
<1>1. IsFiniteSet(open) /\ Cardinality(open) \in Nat
  BY FS_Subset, FS_CardinalityType, ScannerAssumption DEF TypeOK
<1>2. Cardinality(open) # 0
  BY <1>1, FS_EmptySet
<1>3. Min({BatchSize, Cardinality(open)}) # 0
  BY <1>1, <1>2, MinOfTwo, ScannerAssumption
<1> QED BY <1>3, FS_EmptySet DEF Batches

(* The first block of a scan is above the cursor; without a cursor it is   *)
(* not above the creation of a loaded invoice, unless it is block 1.       *)
LEMMA FirstUnscannedType ==
  ASSUME TypeOK, NEW s \in Scanners, index[s] # {}
  PROVE  /\ FirstUnscanned(s) \in Nat \ {0}
         /\ cursor > 0 => FirstUnscanned(s) = cursor + 1
         /\ cursor = 0 => \A a \in index[s] :
              FirstUnscanned(s) = 1 \/ FirstUnscanned(s) <= created[a]
<1>1. /\ Earliest(index[s]) \in Nat
      /\ \A a \in index[s] : Earliest(index[s]) <= created[a]
  BY EarliestIsFirst DEF TypeOK
<1>2. cursor \in Nat /\ StartMargin \in Nat
  BY ScannerAssumption DEF TypeOK
<1>3. \A a \in index[s] : created[a] \in Nat
  BY DEF TypeOK
<1> QED BY <1>1, <1>2, <1>3, MaxOfTwo DEF FirstUnscanned

(* A chunk ends in its scan.                                               *)
LEMMA ChunkEndType ==
  ASSUME TypeOK, NEW s \in Scanners
  PROVE  /\ ChunkEnd(s) \in Int /\ ChunkEnd(s) <= to[s]
         /\ ChunkEnd(s) <= from[s] + BlockStep - 1
         /\ from[s] + BlockStep <= to[s] => ChunkEnd(s) = from[s] + BlockStep - 1
<1>1. from[s] \in Nat /\ to[s] \in Nat /\ BlockStep \in Nat
  BY ScannerAssumption DEF TypeOK
<1> QED BY <1>1, MinOfTwo DEF ChunkEnd

(* Once a scan has begun, its chunk ends at a block that exists.           *)
LEMMA ChunkEndPositive ==
  ASSUME TypeOK, NEW s \in Scanners, 1 <= from[s], from[s] <= to[s]
  PROVE  ChunkEnd(s) \in Nat \ {0}
<1>1. from[s] \in Nat /\ to[s] \in Nat /\ BlockStep \in Nat \ {0}
  BY ScannerAssumption DEF TypeOK
<1> QED BY <1>1, MinOfTwo DEF ChunkEnd

----------------------------------------------------------------------------
(* The invariant holds initially.                                          *)
LEMMA InitSafe == Init => TypeOK /\ Safety
BY DEF Init, TypeOK, Safety, Times, PassesAreBounded, PassesAreComplete,
       LogsAreExact, PassedMeansIndexed, EventsAreConfirmed, Scanning, Watched

(* Every step keeps the types.                                             *)
LEMMA NextType == TypeOK /\ Safety /\ [Next]_vars => TypeOK'
<1> SUFFICES ASSUME TypeOK, Safety, [Next]_vars PROVE TypeOK'
  OBVIOUS
<1> USE DEF chainVars, storeVars, passVars, Goto
<1>1. ASSUME NEW paid \in SUBSET Addresses, Mine(paid) PROVE TypeOK'
  BY <1>1 DEF Mine, TypeOK
<1>2. ASSUME NEW a \in Addresses, CreateInvoice(a) PROVE TypeOK'
  BY <1>2 DEF CreateInvoice, TypeOK
<1>3. ASSUME NEW a \in Addresses, CloseInvoice(a) PROVE TypeOK'
  BY <1>3 DEF CloseInvoice, TypeOK
<1>4. ASSUME NEW s \in Scanners, LoadAddresses(s) PROVE TypeOK'
  BY <1>4 DEF LoadAddresses, Batches, TypeOK
<1>5. ASSUME NEW s \in Scanners, ReadLatest(s) PROVE TypeOK'
  BY <1>5, ScannerAssumption DEF ReadLatest, LastConfirmed, TypeOK
<1>6. ASSUME NEW s \in Scanners, ReadCursor(s) PROVE TypeOK'
  <2>1. index[s] # {}
    BY <1>6 DEF ReadCursor, Safety, PassesAreBounded
  <2>2. FirstUnscanned(s) \in Nat
    BY <2>1, FirstUnscannedType
  <2> QED BY <1>6, <2>2 DEF ReadCursor, TypeOK
<1>7. ASSUME NEW s \in Scanners, FetchLogs(s) PROVE TypeOK'
  BY <1>7 DEF FetchLogs, LogsOf, TypeOK
<1>8. ASSUME NEW s \in Scanners, NEW a \in Addresses, StoreEvent(s, a) PROVE TypeOK'
  BY <1>8 DEF StoreEvent, TypeOK
<1>9. ASSUME NEW s \in Scanners, MoveCursor(s) PROVE TypeOK'
  <2>1. ChunkEnd(s) \in Nat
    BY <1>9, ChunkEndPositive DEF MoveCursor, Safety, PassesAreBounded, Scanning
  <2>2. NewCursor(s) \in Nat
    BY <2>1, MaxOfTwo DEF NewCursor, TypeOK
  <2> QED BY <1>9, <2>2, ScannerAssumption DEF MoveCursor, EndPass, TypeOK
<1>10. ASSUME NEW s \in Scanners, Abort(s) PROVE TypeOK'
  BY <1>10 DEF Abort, EndPass, TypeOK
<1>11. CASE UNCHANGED vars
  BY <1>11 DEF vars, TypeOK
<1> QED BY <1>1, <1>2, <1>3, <1>4, <1>5, <1>6, <1>7, <1>8, <1>9, <1>10, <1>11
        DEF Next, Undisturbed, Pass

(* Every step keeps the invariant.                                         *)
LEMMA NextSafe == TypeOK /\ Safety /\ [Next]_vars => Safety'
<1> SUFFICES ASSUME TypeOK, Safety, [Next]_vars PROVE Safety'
  OBVIOUS
<1> USE ScannerAssumption DEF chainVars, storeVars, passVars, Goto, Scanning, Watched
<1>0. TypeOK'
  BY NextType
<1>1. ASSUME NEW paid \in SUBSET Addresses, Mine(paid) PROVE Safety'
  <2>1. Times'
    BY <1>1, <1>0 DEF Mine, TypeOK, Safety, Times
  <2>2. PassesAreBounded'
    BY <1>1, <1>0 DEF Mine, TypeOK, Safety, PassesAreBounded,
       LastConfirmed, Times
  <2>3. PassesAreComplete'
    BY <1>1, <1>0 DEF Mine, TypeOK, Safety, PassesAreComplete, Times,
       PassesAreBounded, LastConfirmed
  <2>4. LogsAreExact'
    <3>1. \A a \in Addresses : deposit[a] # 0 => a \notin paid /\ deposit'[a] = deposit[a]
      BY <1>1 DEF Mine, TypeOK
    <3>2. head \in Nat /\ head' = head + 1 /\ UNCHANGED <<spc, from, to, logs, events, open, unwatched>>
      BY <1>1 DEF Mine, TypeOK
    <3>3. ASSUME NEW s \in Scanners, NEW a \in logs[s]
          PROVE  deposit'[a] # 0 /\ deposit'[a] <= LastConfirmed'
      <4>1. a \in Addresses /\ deposit[a] \in Nat /\ deposit[a] # 0 /\ deposit[a] <= LastConfirmed
        BY DEF TypeOK, Safety, LogsAreExact
      <4> QED BY <3>1, <3>2, <4>1 DEF LastConfirmed
    <3>4. ASSUME NEW s \in Scanners, spc[s] = "store", NEW a \in Watched,
                 deposit'[a] \in from[s] .. ChunkEnd(s)
          PROVE  a \in events \cup logs[s]
      <4>1. ChunkEnd(s) \in Int /\ ChunkEnd(s) <= to[s] /\ to[s] <= LastConfirmed
        BY <3>4, ChunkEndType DEF Safety, PassesAreBounded
      <4>2. a \in Addresses /\ deposit'[a] \in Nat /\ to[s] \in Nat
        BY <1>0 DEF TypeOK
      <4>3. a \notin paid
        BY <1>1, <3>2, <3>4, <4>1, <4>2 DEF Mine, LastConfirmed
      <4>4. deposit'[a] = deposit[a]
        BY <1>1, <4>2, <4>3 DEF Mine
      <4> QED BY <3>4, <4>4 DEF Safety, LogsAreExact
    <3> QED BY <3>2, <3>3, <3>4 DEF LogsAreExact, ChunkEnd
  <2>5. PassedMeansIndexed'
    BY <1>1, <1>0 DEF Mine, TypeOK, Safety, PassedMeansIndexed, Times
  <2>6. EventsAreConfirmed'
    BY <1>1, <1>0 DEF Mine, TypeOK, Safety, EventsAreConfirmed, Times
  <2> QED BY <2>1, <2>2, <2>3, <2>4, <2>5, <2>6 DEF Safety
<1>2. ASSUME NEW a \in Addresses, CreateInvoice(a) PROVE Safety'
  <2>1. Times'
    BY <1>2, <1>0 DEF CreateInvoice, TypeOK, Safety, Times
  <2>2. PassesAreBounded'
    BY <1>2, <1>0 DEF CreateInvoice, TypeOK, Safety, PassesAreBounded,
       LastConfirmed, Times
  <2>3. PassesAreComplete'
    BY <1>2, <1>0 DEF CreateInvoice, TypeOK, Safety, PassesAreComplete,
       Times, PassesAreBounded, LastConfirmed
  <2>4. LogsAreExact'
    <3>1. UNCHANGED <<deposit, spc, from, to, logs, events, unwatched, head>> /\ open' = open \cup {a}
      BY <1>2 DEF CreateInvoice
    <3>2. deposit[a] = 0
      BY <1>2 DEF CreateInvoice, TypeOK, Safety, Times
    <3>3. ASSUME NEW s \in Scanners, spc[s] = "store"
          PROVE  deposit[a] \notin from[s] .. ChunkEnd(s)
      BY <3>2, <3>3, ChunkEndType DEF TypeOK, Safety, PassesAreBounded
    <3> QED BY <3>1, <3>3 DEF Safety, LogsAreExact, ChunkEnd, LastConfirmed
  <2>5. PassedMeansIndexed'
    BY <1>2, <1>0 DEF CreateInvoice, TypeOK, Safety, PassedMeansIndexed,
       Times
  <2>6. EventsAreConfirmed'
    BY <1>2, <1>0 DEF CreateInvoice, TypeOK, Safety, EventsAreConfirmed,
       Times
  <2> QED BY <2>1, <2>2, <2>3, <2>4, <2>5, <2>6 DEF Safety
<1>3. ASSUME NEW a \in Addresses, CloseInvoice(a) PROVE Safety'
  <2>1. Times'
    BY <1>3, <1>0 DEF CloseInvoice, TypeOK, Safety, Times
  <2>2. PassesAreBounded'
    BY <1>3, <1>0 DEF CloseInvoice, TypeOK, Safety, PassesAreBounded,
       LastConfirmed, Times
  <2>3. PassesAreComplete'
    BY <1>3, <1>0 DEF CloseInvoice, TypeOK, Safety, PassesAreComplete,
       Times
  <2>4. LogsAreExact'
    BY <1>3, <1>0 DEF CloseInvoice, TypeOK, Safety, LogsAreExact,
       LastConfirmed, ChunkEnd, Times
  <2>5. PassedMeansIndexed'
    BY <1>3, <1>0 DEF CloseInvoice, TypeOK, Safety, PassedMeansIndexed,
       Times
  <2>6. EventsAreConfirmed'
    BY <1>3, <1>0 DEF CloseInvoice, TypeOK, Safety, EventsAreConfirmed,
       Times
  <2> QED BY <2>1, <2>2, <2>3, <2>4, <2>5, <2>6 DEF Safety
<1>4. ASSUME NEW s \in Scanners, LoadAddresses(s) PROVE Safety'
  <2>1. Times'
    BY <1>4, <1>0 DEF LoadAddresses, TypeOK, Safety, Times
  <2>2. PassesAreBounded'
    <3>1. PICK B \in Batches : index' = [index EXCEPT ![s] = B]
      BY <1>4 DEF LoadAddresses
    <3>2. B # {} /\ B \subseteq open
      BY <1>4, BatchesAreFilled DEF LoadAddresses
    <3> QED BY <1>4, <3>1, <3>2 DEF LoadAddresses, TypeOK, Safety, Times, PassesAreBounded, LastConfirmed
  <2>3. PassesAreComplete'
    BY <1>4, <1>0 DEF LoadAddresses, TypeOK, Safety, PassesAreComplete,
       Times
  <2>4. LogsAreExact'
    BY <1>4, <1>0 DEF LoadAddresses, TypeOK, Safety, LogsAreExact,
       LastConfirmed, ChunkEnd, Times
  <2>5. PassedMeansIndexed'
    BY <1>4, <1>0 DEF LoadAddresses, TypeOK, Safety, PassedMeansIndexed,
       Times
  <2>6. EventsAreConfirmed'
    BY <1>4, <1>0 DEF LoadAddresses, TypeOK, Safety, EventsAreConfirmed,
       Times
  <2> QED BY <2>1, <2>2, <2>3, <2>4, <2>5, <2>6 DEF Safety
<1>5. ASSUME NEW s \in Scanners, ReadLatest(s) PROVE Safety'
  <2>1. Times'
    BY <1>5, <1>0 DEF ReadLatest, TypeOK, Safety, Times
  <2>2. PassesAreBounded'
    BY <1>5, <1>0 DEF ReadLatest, TypeOK, Safety, PassesAreBounded,
       LastConfirmed
  <2>3. PassesAreComplete'
    BY <1>5, <1>0 DEF ReadLatest, TypeOK, Safety, PassesAreComplete
  <2>4. LogsAreExact'
    BY <1>5, <1>0 DEF ReadLatest, TypeOK, Safety, LogsAreExact,
       LastConfirmed, ChunkEnd
  <2>5. PassedMeansIndexed'
    BY <1>5, <1>0 DEF ReadLatest, TypeOK, Safety, PassedMeansIndexed
  <2>6. EventsAreConfirmed'
    BY <1>5, <1>0 DEF ReadLatest, TypeOK, Safety, EventsAreConfirmed
  <2> QED BY <2>1, <2>2, <2>3, <2>4, <2>5, <2>6 DEF Safety
<1>6. ASSUME NEW s \in Scanners, ReadCursor(s) PROVE Safety'
  <2>1. Times'
    BY <1>6, <1>0 DEF ReadCursor, TypeOK, Safety, Times
  <2>2. PassesAreBounded'
    <3>1. FirstUnscanned(s) \in Nat \ {0}
      BY <1>6, FirstUnscannedType DEF ReadCursor, Safety, PassesAreBounded
    <3> QED BY <1>6, <3>1 DEF ReadCursor, TypeOK, Safety, PassesAreBounded, LastConfirmed
  <2>3. PassesAreComplete'
    <3>1. CASE FirstUnscanned(s) > to[s]
      BY <1>6, <3>1 DEF ReadCursor, TypeOK, Safety, PassesAreComplete
    <3>2. CASE ~ (FirstUnscanned(s) > to[s])
      <4>1. /\ index[s] # {} /\ index[s] \subseteq Addresses
            /\ to[s] \in Nat /\ cursor \in Nat
        BY <1>6 DEF ReadCursor, TypeOK, Safety, PassesAreBounded
      <4>2. /\ FirstUnscanned(s) \in Nat \ {0} /\ FirstUnscanned(s) <= to[s]
            /\ cursor > 0 => FirstUnscanned(s) = cursor + 1
            /\ cursor = 0 => \A a \in index[s] :
                 FirstUnscanned(s) = 1 \/ FirstUnscanned(s) <= created[a]
        BY <3>2, <4>1, FirstUnscannedType
      <4>3. /\ from' = [from EXCEPT ![s] = FirstUnscanned(s)]
            /\ spc' = [spc EXCEPT ![s] = "chunk"]
            /\ unwatched' = unwatched \cup {a \in open \ index[s] : created[a] < to[s]}
            /\ UNCHANGED <<open, created, deposit, events, index, to, cursor>>
        BY <1>6, <3>2 DEF ReadCursor
      <4>4. ASSUME NEW a \in open \ unwatched', deposit[a] \in 1 .. FirstUnscanned(s) - 1
            PROVE  a \in events
        <5>1. a \in Addresses /\ created[a] \in Nat /\ deposit[a] \in Nat /\ created[a] < deposit[a]
          BY <4>4 DEF TypeOK, Safety, Times
        <5>2. a \in index[s] \/ created[a] >= to[s]
          BY <4>1, <4>3, <5>1
        <5>3. CASE cursor = 0
          BY <4>2, <4>4, <5>1, <5>2, <5>3, <4>1
        <5>4. CASE cursor > 0
          BY <4>1, <4>2, <4>3, <4>4, <5>4 DEF Safety, PassedMeansIndexed
        <5> QED BY <4>1, <5>3, <5>4
      <4>5. \A a \in open \ unwatched' : a \in index[s] \/ created[a] >= to[s]
        BY <4>1, <4>3 DEF TypeOK
      <4> QED BY <4>3, <4>4, <4>5 DEF TypeOK, Safety, PassesAreComplete
    <3> QED BY <3>1, <3>2
  <2>4. LogsAreExact'
    BY <1>6, <1>0 DEF ReadCursor, TypeOK, Safety, LogsAreExact,
       LastConfirmed, ChunkEnd, Times
  <2>5. PassedMeansIndexed'
    BY <1>6, <1>0 DEF ReadCursor, TypeOK, Safety, PassedMeansIndexed,
       Times
  <2>6. EventsAreConfirmed'
    BY <1>6, <1>0 DEF ReadCursor, TypeOK, Safety, EventsAreConfirmed,
       Times
  <2> QED BY <2>1, <2>2, <2>3, <2>4, <2>5, <2>6 DEF Safety
<1>7. ASSUME NEW s \in Scanners, FetchLogs(s) PROVE Safety'
  <2>1. Times'
    BY <1>7, <1>0 DEF FetchLogs, TypeOK, Safety, Times
  <2>2. PassesAreBounded'
    BY <1>7, <1>0 DEF FetchLogs, TypeOK, Safety, PassesAreBounded,
       LastConfirmed
  <2>3. PassesAreComplete'
    BY <1>7, <1>0 DEF FetchLogs, TypeOK, Safety, PassesAreComplete
  <2>4. LogsAreExact'
    <3>1. UNCHANGED <<open, created, deposit, events, index, from, to, unwatched, head>>
      BY <1>7 DEF FetchLogs
    <3>2. spc' = [spc EXCEPT ![s] = "store"] /\ logs' = [logs EXCEPT ![s] = LogsOf(s)]
      BY <1>7 DEF FetchLogs
    <3>3. /\ from[s] \in Nat \ {0} /\ to[s] \in Nat /\ to[s] <= LastConfirmed
          /\ ChunkEnd(s) \in Int /\ ChunkEnd(s) <= to[s]
      BY <1>7, ChunkEndType DEF FetchLogs, TypeOK, Safety, PassesAreBounded
    <3>4. ASSUME NEW a \in LogsOf(s) PROVE deposit[a] # 0 /\ deposit[a] <= LastConfirmed
      BY <3>3 DEF LogsOf, TypeOK, LastConfirmed
    <3>5. ASSUME NEW a \in Watched, deposit[a] \in from[s] .. ChunkEnd(s)
          PROVE  a \in LogsOf(s)
      <4>1. a \in Addresses /\ created[a] \in Nat /\ deposit[a] \in Nat /\ created[a] < deposit[a]
        BY <3>3, <3>5 DEF TypeOK, Safety, Times
      <4>2. a \in index[s] \/ created[a] >= to[s]
        BY <1>7, <3>5 DEF FetchLogs, Safety, PassesAreComplete
      <4> QED BY <3>3, <3>5, <4>1, <4>2 DEF LogsOf
    <3> QED BY <3>1, <3>2, <3>4, <3>5 DEF TypeOK, Safety, LogsAreExact, ChunkEnd, LastConfirmed
  <2>5. PassedMeansIndexed'
    BY <1>7, <1>0 DEF FetchLogs, TypeOK, Safety, PassedMeansIndexed
  <2>6. EventsAreConfirmed'
    BY <1>7, <1>0 DEF FetchLogs, TypeOK, Safety, EventsAreConfirmed
  <2> QED BY <2>1, <2>2, <2>3, <2>4, <2>5, <2>6 DEF Safety
<1>8. ASSUME NEW s \in Scanners, NEW a \in Addresses, StoreEvent(s, a) PROVE Safety'
  <2>1. Times'
    BY <1>8, <1>0 DEF StoreEvent, TypeOK, Safety, Times
  <2>2. PassesAreBounded'
    BY <1>8, <1>0 DEF StoreEvent, TypeOK, Safety, PassesAreBounded,
       LastConfirmed
  <2>3. PassesAreComplete'
    BY <1>8, <1>0 DEF StoreEvent, TypeOK, Safety, PassesAreComplete
  <2>4. LogsAreExact'
    BY <1>8, <1>0 DEF StoreEvent, TypeOK, Safety, LogsAreExact,
       LastConfirmed, ChunkEnd
  <2>5. PassedMeansIndexed'
    BY <1>8, <1>0 DEF StoreEvent, TypeOK, Safety, PassedMeansIndexed
  <2>6. EventsAreConfirmed'
    <3>1. deposit[a] # 0 /\ deposit[a] \in Nat /\ deposit[a] <= LastConfirmed
      BY <1>8 DEF StoreEvent, TypeOK, Safety, LogsAreExact
    <3>2. head - deposit[a] + 1 >= MinConfirmations
      BY <3>1 DEF LastConfirmed, TypeOK
    <3> QED BY <1>8, <3>1, <3>2 DEF StoreEvent, Safety, EventsAreConfirmed
  <2> QED BY <2>1, <2>2, <2>3, <2>4, <2>5, <2>6 DEF Safety
<1>9. ASSUME NEW s \in Scanners, MoveCursor(s) PROVE Safety'
  <2>a. /\ spc[s] = "store" /\ logs[s] = {} /\ cursor' = NewCursor(s)
        /\ UNCHANGED <<head, created, open, deposit, events, unwatched>>
    BY <1>9 DEF MoveCursor
  <2>b. /\ from[s] \in Nat /\ to[s] \in Nat /\ cursor \in Nat /\ head \in Nat
        /\ 1 <= from[s] /\ from[s] <= to[s] /\ to[s] <= LastConfirmed
    BY <2>a DEF TypeOK, Safety, PassesAreBounded
  <2>c. /\ ChunkEnd(s) \in Int /\ ChunkEnd(s) <= to[s]
        /\ from[s] + BlockStep <= to[s] => ChunkEnd(s) = from[s] + BlockStep - 1
    BY ChunkEndType
  <2>d. NewCursor(s) = IF cursor >= ChunkEnd(s) THEN cursor ELSE ChunkEnd(s)
    BY <2>b, <2>c, MaxOfTwo DEF NewCursor
  <2>e. ASSUME NEW a \in Watched, deposit[a] \in 1 .. ChunkEnd(s) PROVE a \in events
    <3>1. a \in Addresses /\ deposit[a] \in Nat
      BY DEF TypeOK
    <3>2. CASE deposit[a] < from[s]
      BY <2>a, <2>b, <2>e, <3>1, <3>2 DEF Safety, PassesAreComplete
    <3>3. CASE deposit[a] >= from[s]
      <4>1. deposit[a] \in from[s] .. ChunkEnd(s)
        BY <2>b, <2>c, <2>e, <3>1, <3>3
      <4> QED BY <2>a, <4>1 DEF Safety, LogsAreExact
    <3> QED BY <2>b, <3>1, <3>2, <3>3
  <2>f. \/ /\ from[s] + BlockStep > to[s]
           /\ spc' = [spc EXCEPT ![s] = "idle"] /\ index' = [index EXCEPT ![s] = {}]
           /\ from' = [from EXCEPT ![s] = 0] /\ to' = [to EXCEPT ![s] = 0]
           /\ logs' = [logs EXCEPT ![s] = {}]
        \/ /\ from[s] + BlockStep <= to[s]
           /\ spc' = [spc EXCEPT ![s] = "chunk"]
           /\ from' = [from EXCEPT ![s] = @ + BlockStep]
           /\ UNCHANGED <<index, to, logs>>
    BY <1>9, <2>b DEF MoveCursor, EndPass
  <2>1. Times'
    BY <2>a, <2>b, <2>c, <2>d DEF Safety, Times, LastConfirmed
  <2>2. PassesAreBounded'
    BY <2>a, <2>b, <2>f DEF TypeOK, Safety, PassesAreBounded, LastConfirmed
  <2>3. PassesAreComplete'
    <3>1. CASE from[s] + BlockStep > to[s]
      BY <2>a, <2>b, <2>f, <3>1 DEF TypeOK, Safety, PassesAreComplete
    <3>2. CASE from[s] + BlockStep <= to[s]
      <4>1. \A a \in Watched : deposit[a] \in 1 .. from[s] + BlockStep - 1 => a \in events
        BY <2>c, <2>e, <3>2
      <4> QED BY <2>a, <2>b, <2>f, <3>2, <4>1 DEF TypeOK, Safety, PassesAreComplete
    <3> QED BY <2>b, <3>1, <3>2
  <2>4. LogsAreExact'
    <3>1. ASSUME NEW r \in Scanners, r # s
          PROVE  /\ spc'[r] = spc[r] /\ from'[r] = from[r] /\ to'[r] = to[r] /\ logs'[r] = logs[r]
                 /\ ChunkEnd(r)' = ChunkEnd(r)
      BY <2>f, <3>1 DEF TypeOK, ChunkEnd
    <3>2. spc'[s] # "store" /\ logs'[s] = {}
      BY <2>a, <2>f DEF TypeOK
    <3> QED BY <2>a, <3>1, <3>2 DEF Safety, LogsAreExact, LastConfirmed
  <2>5. PassedMeansIndexed'
    BY <2>a, <2>b, <2>c, <2>d, <2>e DEF TypeOK, Safety, PassedMeansIndexed
  <2>6. EventsAreConfirmed'
    BY <1>9, <1>0 DEF MoveCursor, TypeOK, Safety, EventsAreConfirmed
  <2> QED BY <2>1, <2>2, <2>3, <2>4, <2>5, <2>6 DEF Safety
<1>10. ASSUME NEW s \in Scanners, Abort(s) PROVE Safety'
  <2>1. Times'
    BY <1>10, <1>0 DEF Abort, EndPass, TypeOK, Safety, Times
  <2>2. PassesAreBounded'
    BY <1>10, <1>0 DEF Abort, EndPass, TypeOK, Safety, PassesAreBounded,
       LastConfirmed
  <2>3. PassesAreComplete'
    BY <1>10, <1>0 DEF Abort, EndPass, TypeOK, Safety, PassesAreComplete
  <2>4. LogsAreExact'
    BY <1>10, <1>0 DEF Abort, EndPass, TypeOK, Safety, LogsAreExact,
       LastConfirmed, ChunkEnd
  <2>5. PassedMeansIndexed'
    BY <1>10, <1>0 DEF Abort, EndPass, TypeOK, Safety, PassedMeansIndexed
  <2>6. EventsAreConfirmed'
    BY <1>10, <1>0 DEF Abort, EndPass, TypeOK, Safety, EventsAreConfirmed
  <2> QED BY <2>1, <2>2, <2>3, <2>4, <2>5, <2>6 DEF Safety
<1>11. CASE UNCHANGED vars
  <2>1. Times'
    BY <1>11, <1>0 DEF vars, TypeOK, Safety, Times
  <2>2. PassesAreBounded'
    BY <1>11, <1>0 DEF vars, TypeOK, Safety, PassesAreBounded,
       LastConfirmed
  <2>3. PassesAreComplete'
    BY <1>11, <1>0 DEF vars, TypeOK, Safety, PassesAreComplete
  <2>4. LogsAreExact'
    BY <1>11, <1>0 DEF vars, TypeOK, Safety, LogsAreExact, LastConfirmed,
       ChunkEnd
  <2>5. PassedMeansIndexed'
    BY <1>11, <1>0 DEF vars, TypeOK, Safety, PassedMeansIndexed
  <2>6. EventsAreConfirmed'
    BY <1>11, <1>0 DEF vars, TypeOK, Safety, EventsAreConfirmed
  <2> QED BY <2>1, <2>2, <2>3, <2>4, <2>5, <2>6 DEF Safety
<1> QED BY <1>1, <1>2, <1>3, <1>4, <1>5, <1>6, <1>7, <1>8, <1>9, <1>10, <1>11
        DEF Next, Undisturbed, Pass

----------------------------------------------------------------------------
(* The invariant holds in every reachable state.                           *)
LEMMA Inductive == Spec => [](TypeOK /\ Safety)
<1>1. Init => TypeOK /\ Safety
  BY InitSafe
<1>2. TypeOK /\ Safety /\ [Next]_vars => (TypeOK /\ Safety)'
  BY NextType, NextSafe
<1> QED BY <1>1, <1>2, PTL DEF Spec

(* Passes and tables have their types.                                     *)
THEOREM TypeCorrect == Spec => []TypeOK
BY Inductive, PTL

(* The cursor passes only deposits that are indexed, whatever passes       *)
(* overlap, fail or start late, unless a scan did not know their invoice.  *)
THEOREM CursorPassesIndexed == Spec => []PassedMeansIndexed
<1>1. TypeOK /\ Safety => PassedMeansIndexed
  BY DEF Safety
<1> QED BY <1>1, Inductive, PTL

(* No deposit becomes an event before it has its confirmations.            *)
THEOREM ConfirmedEvents == Spec => []EventsAreConfirmed
<1>1. TypeOK /\ Safety => EventsAreConfirmed
  BY DEF Safety
<1> QED BY <1>1, Inductive, PTL
=============================================================================
