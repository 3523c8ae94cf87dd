------------------------- MODULE ChainWorkers_proof -------------------------
(***************************************************************************)
(* What the chain workers and the tools of a deployment guarantee for any  *)
(* constants.  TRON: a payout only reverts for want of money when another  *)
(* one has moved the account's since the report was begun; a change of     *)
(* nodes does what the administrator's page showed.  Broadcasts: an        *)
(* answered payout is paid, and by its own transaction.  Accounts: an      *)
(* address that was answered stays.  Transfers: what is reported is what   *)
(* was received.  Wire formats: what is written is read as what was meant. *)
(* The cutover: one of the two systems serves, and a release that passed   *)
(* covers what was seen to work.                                           *)
(***************************************************************************)
EXTENDS TronBackend, TronNodes, ChainBroadcasts, ChainTransfers, WireFormats, WorkerAccounts,
        CutoverAudits, SumTheorems, SequenceTheorems

Report  == [best : Nat, has : Nat, knows : SUBSET TronPayouts]
Refresh == [next : Nat, report : Report, checked : Nat]
Payout  == [at : {"asked", "chosen", "refused", "paid", "unanswered", "reverted",
                   "starved"},
            from : Nat, knows : SUBSET TronPayouts]

TronTypes ==
  /\ funds \in [Accounts -> Nat] /\ cache \in Report /\ warm \in BOOLEAN
  /\ refreshing \in BOOLEAN
  /\ refresh \in [Refreshers -> Refresh] /\ pay \in [TronPayouts -> Payout]

(* An account still has the amount, or a payout the knowledge lacks took it.*)
Overlapped(a, knows) == \E q \in Moved \ knows : pay[q].from = a
StillHas(a, amount, knows) ==
  knows \subseteq Moved /\ (a # 0 => a \in Accounts /\ (funds[a] >= amount \/ Overlapped(a, knows)))

IsSound(rep) == StillHas(rep.best, rep.has, rep.knows)

ReportsAreSound == IsSound(cache) /\ \A r \in Refreshers : IsSound(refresh[r].report)

(* So has the account a payout chose; and a reverted payout found it did not.*)
ChoicesAreSound ==
  \A p \in TronPayouts : pay[p].at = "chosen" =>
    pay[p].from # 0 /\ StillHas(pay[p].from, Ask[p], pay[p].knows)

TronInv == TronTypes /\ ReportsAreSound /\ ChoicesAreSound /\ RevertedWasOverlapped

-----------------------------------------------------------------------------
(* Accounts have numbers, none of them 0.                                  *)
LEMMA AccountsAreNumbers == Accounts \subseteq Nat \ {0}
<1>1. ASSUME NEW n, NEW a \in 1..n PROVE a \in Nat \ {0}
  BY <1>1
<1> QED BY <1>1, TronAssumption

(* A refresh begins with an empty report, which claims nothing.            *)
LEMMA CollectingType ==
  ASSUME TronTypes
  PROVE  /\ Collecting \in Refresh /\ NotRefreshing \in Refresh
         /\ IsSound(Collecting.report) /\ IsSound(NotRefreshing.report)
<1>1. Moved \subseteq TronPayouts
  BY DEF Moved
<1>2. NotRefreshing.report = Unknown /\ NotRefreshing \in Refresh
  BY DEF NotRefreshing, Unknown, Refresh, Report
<1>3. Collecting = [next |-> 1, report |-> [best |-> 0, has |-> 0, knows |-> Moved], checked |-> 0]
  BY DEF Collecting, NotRefreshing, Unknown
<1> QED BY <1>1, <1>2, <1>3 DEF Refresh, Report, IsSound, StillHas, Unknown

(* What was sound stays so when nobody's money moves but by a payout.      *)
LEMMA StaysSound ==
  ASSUME TronTypes, NEW a, NEW amount \in Nat, NEW knows, StillHas(a, amount, knows),
         Moved \subseteq Moved',
         \A q \in Moved : pay'[q].from = pay[q].from,
         funds' \in [Accounts -> Nat],
         \A b \in Accounts : funds'[b] >= funds[b] \/ \E q \in Moved' \ Moved : pay'[q].from = b
  PROVE  StillHas(a, amount, knows)'
<1>1. ASSUME a # 0, funds[a] >= amount
      PROVE  funds'[a] >= amount \/ \E q \in Moved' \ knows : pay'[q].from = a
  <2>1. a \in Accounts /\ knows \subseteq Moved
    BY <1>1 DEF StillHas
  <2>2. CASE funds'[a] >= funds[a]
    <3>1. funds'[a] \in Nat /\ funds[a] \in Nat
      BY <2>1 DEF TronTypes
    <3> QED BY <1>1, <2>2, <3>1
  <2>3. CASE \E q \in Moved' \ Moved : pay'[q].from = a
    BY <2>1, <2>3
  <2> QED BY <2>1, <2>2, <2>3
<1>2. ASSUME Overlapped(a, knows)
      PROVE  \E q \in Moved' \ knows : pay'[q].from = a
  BY <1>2 DEF Overlapped
<1> QED BY <1>1, <1>2 DEF StillHas, Overlapped

(* A report of now is one of a moment ago, or sound then.                  *)
Kept(rep, was) == rep \in Report /\ (rep = was \/ IsSound(rep))

ReportsAreKept ==
  /\ Kept(cache', cache) /\ warm' \in BOOLEAN /\ refreshing' \in BOOLEAN
  /\ refresh' \in [Refreshers -> Refresh]
  /\ \A r \in Refreshers : Kept(refresh'[r].report, refresh[r].report)

(* Payouts that have moved stay so, and money only leaves with a payout.   *)
MoneyMoves ==
  /\ Moved \subseteq Moved' /\ \A q \in Moved : pay'[q] = pay[q]
  /\ funds' \in [Accounts -> Nat] /\ pay' \in [TronPayouts -> Payout]
  /\ \A b \in Accounts : funds'[b] >= funds[b] \/ \E q \in Moved' \ Moved : pay'[q].from = b

(* What the reports claim stays true when money only moves by payouts.     *)
LEMMA ReportsStay ==
  ASSUME TronInv, MoneyMoves, ReportsAreKept
  PROVE  TronTypes' /\ ReportsAreSound'
<1> USE DEF TronInv
<1>1. ASSUME NEW rep \in Report, IsSound(rep) PROVE IsSound(rep)'
  <2>1. rep.has \in Nat
    BY DEF Report
  <2> QED BY <1>1, <2>1, StaysSound DEF IsSound, MoneyMoves
<1>2. IsSound(cache)'
  <2>1. PICK rep \in Report : rep = cache'
    BY DEF ReportsAreKept, Kept
  <2>2. IsSound(rep)
    BY <2>1 DEF ReportsAreKept, Kept, ReportsAreSound
  <2> QED BY <1>1, <2>1, <2>2 DEF IsSound
<1>3. ASSUME NEW r \in Refreshers PROVE IsSound(refresh[r].report)'
  <2>1. PICK rep \in Report : rep = refresh'[r].report
    BY <1>3 DEF ReportsAreKept, Kept
  <2>2. IsSound(rep)
    BY <1>3, <2>1 DEF ReportsAreKept, Kept, ReportsAreSound
  <2> QED BY <1>1, <2>1, <2>2 DEF IsSound
<1>4. TronTypes'
  BY DEF TronTypes, MoneyMoves, ReportsAreKept, Kept
<1> QED BY <1>2, <1>3, <1>4 DEF ReportsAreSound

(* A choice that is still to be broadcast, and a payout that reverted.     *)
LEMMA ChoiceStays ==
  ASSUME TronInv, MoneyMoves, NEW p \in TronPayouts, pay'[p] = pay[p]
  PROVE  /\ pay'[p].at = "chosen" =>
              pay'[p].from # 0 /\ StillHas(pay[p].from, Ask[p], pay[p].knows)'
         /\ pay'[p].at = "reverted" =>
              \E q \in TronPayouts \ {p} :
                q \in Moved' /\ pay'[q].from = pay'[p].from /\ q \notin pay'[p].knows
<1> USE DEF TronInv
<1>1. ASSUME pay[p].at = "chosen"
      PROVE  pay'[p].from # 0 /\ StillHas(pay[p].from, Ask[p], pay[p].knows)'
  <2>1. PICK a, knows : a = pay[p].from /\ knows = pay[p].knows
    OBVIOUS
  <2>2. Ask[p] \in Nat
    BY TronAssumption
  <2>3. a # 0 /\ StillHas(a, Ask[p], knows)
    BY <1>1, <2>1 DEF ChoicesAreSound
  <2>4. StillHas(a, Ask[p], knows)'
    BY <2>2, <2>3, StaysSound DEF MoneyMoves
  <2> QED BY <2>1, <2>3, <2>4 DEF StillHas, Overlapped
<1>2. ASSUME pay[p].at = "reverted"
      PROVE  \E q \in TronPayouts \ {p} :
               q \in Moved' /\ pay'[q].from = pay'[p].from /\ q \notin pay'[p].knows
  BY <1>2 DEF RevertedWasOverlapped, MoneyMoves
<1> QED BY <1>1, <1>2

(* Steps that leave the payouts alone.                                     *)
LEMMA QuietStep ==
  ASSUME TronInv, ReportsAreKept, UNCHANGED pay, funds' \in [Accounts -> Nat],
         \A a \in Accounts : funds'[a] >= funds[a]
  PROVE  TronInv'
<1>1. MoneyMoves
  BY DEF MoneyMoves, TronInv, TronTypes, Moved
<1>2. ChoicesAreSound'
  BY <1>1, ChoiceStays DEF ChoicesAreSound
<1>3. RevertedWasOverlapped'
  BY <1>1, ChoiceStays DEF RevertedWasOverlapped
<1> QED BY <1>1, <1>2, <1>3, ReportsStay DEF TronInv

(* Funds nobody touches are no less than they were.                        *)
LEMMA FundsStay ==
  ASSUME TronTypes, UNCHANGED funds
  PROVE  funds' \in [Accounts -> Nat] /\ \A a \in Accounts : funds'[a] >= funds[a]
<1>1. \A a \in Accounts : funds[a] \in Nat
  BY DEF TronTypes
<1> QED BY <1>1 DEF TronTypes

-----------------------------------------------------------------------------
(* Starting a refresh keeps every report as it is.                         *)
LEMMA KickKeeps ==
  ASSUME TronInv, Kick \/ UNCHANGED <<refreshing, refresh>>, UNCHANGED <<cache, warm>>
  PROVE  ReportsAreKept
<1> USE DEF TronInv
<1>1. \A r \in Refreshers : refresh[r].report \in Report
  BY DEF TronTypes, Refresh
<1>2. Collecting \in Refresh /\ Collecting.report \in Report /\ IsSound(Collecting.report)
  BY CollectingType DEF Refresh
<1>3. \/ UNCHANGED <<refreshing, refresh>>
      \/ refreshing' = TRUE /\ refresh' = [refresh EXCEPT !["kicked"] = Collecting]
  BY DEF Kick
<1>4. CASE UNCHANGED <<refreshing, refresh>>
  BY <1>1, <1>4 DEF ReportsAreKept, Kept, TronTypes
<1>5. CASE refreshing' = TRUE /\ refresh' = [refresh EXCEPT !["kicked"] = Collecting]
  BY <1>1, <1>2, <1>5 DEF ReportsAreKept, Kept, TronTypes
<1> QED BY <1>3, <1>4, <1>5

(* Every step of a refresh keeps the reports sound.                        *)
LEMMA RefreshKeeps ==
  ASSUME TronInv, NEW r \in Refreshers, BeginRefresh(r) \/ LookUpAccount(r) \/ Store(r)
  PROVE  TronInv'
<1> USE DEF TronInv
<1>0. UNCHANGED <<pay, funds>>
  BY DEF BeginRefresh, LookUpAccount, Store, chainVars
<1>1. \A s \in Refreshers : refresh[s] \in Refresh /\ refresh[s].report \in Report
  BY DEF TronTypes, Refresh
<1>2. \A s \in Refreshers : IsSound(refresh[s].report)
  BY DEF ReportsAreSound
<1>3. ASSUME NEW new \in Refresh, refresh' = [refresh EXCEPT ![r] = new], IsSound(new.report),
             Kept(cache', cache), warm' \in BOOLEAN, refreshing' \in BOOLEAN
      PROVE  ReportsAreKept
  <2>1. new.report \in Report
    BY DEF Refresh
  <2> QED BY <1>1, <1>3, <2>1 DEF ReportsAreKept, Kept, TronTypes
<1>4. Kept(cache, cache) /\ warm \in BOOLEAN /\ refreshing \in BOOLEAN
  BY DEF Kept, TronTypes
<1>5. CASE BeginRefresh(r)
  <2>1. ReportsAreKept
    BY <1>3, <1>4, <1>5, CollectingType DEF BeginRefresh
  <2> QED BY <1>0, <2>1, FundsStay, QuietStep
<1>6. CASE LookUpAccount(r)
  <2> DEFINE was == refresh[r]
             a == was.next
  <2>0. was \in Refresh /\ was.report \in Report /\ IsSound(was.report)
    BY <1>1, <1>2
  <2>1. a \in Accounts /\ a \in Nat \ {0} /\ funds[a] \in Nat
    BY <1>6, AccountsAreNumbers DEF LookUpAccount, TronTypes
  <2>2. PICK new : /\ refresh' = [refresh EXCEPT ![r] = new]
                   /\ \/ new = [next |-> a + 1, report |-> WithAccount(was.report, a),
                                checked |-> was.checked + 1]
                      \/ new = [next |-> a + 1, report |-> was.report, checked |-> was.checked]
    BY <1>6 DEF LookUpAccount
  <2>3. WithAccount(was.report, a) \in Report /\ IsSound(WithAccount(was.report, a))
    <3>1. CASE funds[a] > was.report.has
      <4>1. WithAccount(was.report, a) = [best |-> a, has |-> funds[a], knows |-> was.report.knows]
        BY <3>1 DEF WithAccount
      <4> QED BY <2>0, <2>1, <4>1 DEF Report, IsSound, StillHas
    <3>2. CASE ~(funds[a] > was.report.has)
      BY <2>0, <3>2 DEF WithAccount
    <3> QED BY <3>1, <3>2
  <2>4. new \in Refresh /\ IsSound(new.report)
    <3>1. a + 1 \in Nat /\ was.checked \in Nat /\ was.checked + 1 \in Nat
      BY <2>0, <2>1 DEF Refresh
    <3> QED BY <2>0, <2>2, <2>3, <3>1 DEF Refresh
  <2>5. ReportsAreKept
    BY <1>3, <1>4, <1>6, <2>2, <2>4 DEF LookUpAccount
  <2> QED BY <1>0, <2>5, FundsStay, QuietStep
<1>7. CASE Store(r)
  <2>1. Kept(cache', cache)
    BY <1>1, <1>2, <1>4, <1>7 DEF Store, StoreReport, Kept
  <2>2. ReportsAreKept
    BY <1>3, <1>4, <1>7, <2>1, CollectingType DEF Store
  <2> QED BY <1>0, <2>2, FundsStay, QuietStep
<1> QED BY <1>5, <1>6, <1>7

-----------------------------------------------------------------------------
(* A payout that is not yet through changes its own state.                 *)
LEMMA PayoutStep ==
  ASSUME TronInv, ReportsAreKept, NEW p \in TronPayouts, p \notin Moved,
         NEW new \in Payout, pay' = [pay EXCEPT ![p] = new],
         funds' \in [Accounts -> Nat],
         \A b \in Accounts : \/ funds'[b] >= funds[b]
                             \/ new.at \in {"paid", "unanswered"} /\ new.from = b,
         new.at = "chosen" =>
           new.from # 0 /\ StillHas(new.from, Ask[p], new.knows) /\ UNCHANGED funds,
         new.at = "reverted" => Overlapped(new.from, new.knows)
  PROVE  TronInv'
<1> USE DEF TronInv
<1>1. /\ pay' \in [TronPayouts -> Payout] /\ pay'[p] = new
      /\ \A q \in TronPayouts \ {p} : pay'[q] = pay[q]
  BY DEF TronTypes
<1>2. MoneyMoves
  BY <1>1 DEF MoneyMoves, Moved
<1>3. ASSUME new.at = "chosen" PROVE StillHas(new.from, Ask[p], new.knows)'
  <2>1. Ask[p] \in Nat
    BY TronAssumption
  <2> QED BY <1>2, <1>3, <2>1, StaysSound DEF MoneyMoves
<1>4. ASSUME new.at = "reverted"
      PROVE  \E q \in TronPayouts \ {p} :
               q \in Moved' /\ pay'[q].from = pay'[p].from /\ q \notin pay'[p].knows
  BY <1>1, <1>2, <1>4 DEF Overlapped, MoneyMoves, Moved
<1>5. ChoicesAreSound'
  <2> SUFFICES ASSUME NEW q \in TronPayouts, pay'[q].at = "chosen"
               PROVE  pay'[q].from # 0 /\ StillHas(pay[q].from, Ask[q], pay[q].knows)'
    BY DEF ChoicesAreSound
  <2>1. CASE q = p
    BY <1>1, <1>3, <2>1 DEF StillHas, Overlapped
  <2>2. CASE q # p
    BY <1>1, <1>2, <2>2, ChoiceStays
  <2> QED BY <2>1, <2>2
<1>6. RevertedWasOverlapped'
  <2> SUFFICES ASSUME NEW q \in TronPayouts, pay'[q].at = "reverted"
               PROVE  \E s \in TronPayouts \ {q} :
                        s \in Moved' /\ pay'[s].from = pay'[q].from /\ s \notin pay'[q].knows
    BY DEF RevertedWasOverlapped
  <2>1. CASE q = p
    BY <1>1, <1>4, <2>1
  <2>2. CASE q # p
    BY <1>1, <1>2, <2>2, ChoiceStays
  <2> QED BY <2>1, <2>2
<1> QED BY <1>2, <1>5, <1>6, ReportsStay

(* A payout that moves no money keeps the invariant.                       *)
LEMMA PayoutWithoutFunds ==
  ASSUME TronInv, ReportsAreKept, NEW p \in TronPayouts, p \notin Moved,
         NEW new \in Payout, pay' = [pay EXCEPT ![p] = new], UNCHANGED funds,
         new.at = "chosen" => new.from # 0 /\ StillHas(new.from, Ask[p], new.knows),
         new.at = "reverted" => Overlapped(new.from, new.knows)
  PROVE  TronInv'
<1>1. funds' \in [Accounts -> Nat] /\ \A a \in Accounts : funds'[a] >= funds[a]
  BY FundsStay DEF TronInv
<1>2. \A b \in Accounts : \/ funds'[b] >= funds[b]
                          \/ new.at \in {"paid", "unanswered"} /\ new.from = b
  BY <1>1
<1>3. funds' \in [Accounts -> Nat] /\ UNCHANGED funds
  BY <1>1
<1>4. new.at = "chosen" =>
        new.from # 0 /\ StillHas(new.from, Ask[p], new.knows) /\ UNCHANGED funds
  OBVIOUS
<1> HIDE DEF StillHas
<1> QED BY <1>2, <1>3, <1>4, PayoutStep

(* Choosing an account from the cached report keeps it.                    *)
LEMMA ChooseKeeps ==
  ASSUME TronInv, NEW p \in TronPayouts, Choose(p)
  PROVE  TronInv'
<1> USE DEF TronInv
<1>1. ReportsAreKept
  BY KickKeeps DEF Choose
<1>2. p \notin Moved /\ UNCHANGED funds
  BY DEF Choose, Moved, chainVars
<1>3. pay[p] \in Payout /\ cache \in Report
  BY DEF TronTypes
<1>4. CASE ~warm
  <2>1. pay' = [pay EXCEPT ![p] = [pay[p] EXCEPT !.at = "refused"]]
    BY <1>4 DEF Choose
  <2>2. PICK new : new = [pay[p] EXCEPT !.at = "refused"]
    OBVIOUS
  <2>3. new \in Payout /\ new.at = "refused"
    BY <1>3, <2>2 DEF Payout
  <2>4. pay' = [pay EXCEPT ![p] = new]
    BY <2>1, <2>2
  <2> QED BY <1>1, <1>2, <2>3, <2>4, PayoutWithoutFunds
<1>5. CASE warm
  <2>1. PICK new : /\ new = [at |-> IF cache.best # 0 /\ cache.has >= Ask[p] THEN "chosen" ELSE "refused",
                             from |-> cache.best, knows |-> cache.knows]
                   /\ pay' = [pay EXCEPT ![p] = new]
    BY <1>5 DEF Choose
  <2>2. new \in Payout /\ new.at \in {"chosen", "refused"}
    BY <1>3, <2>1 DEF Payout, Report
  <2>3. ASSUME new.at = "chosen"
        PROVE  new.from # 0 /\ StillHas(new.from, Ask[p], new.knows)
    <3>1. /\ cache.best # 0 /\ cache.has >= Ask[p] /\ IsSound(cache)
          /\ new.from = cache.best /\ new.knows = cache.knows
      BY <2>1, <2>3 DEF ReportsAreSound
    <3>2. cache.has \in Nat /\ Ask[p] \in Nat /\ \A a \in Accounts : funds[a] \in Nat
      BY <1>3, TronAssumption DEF Report, TronTypes
    <3>3. \A a \in Accounts : funds[a] >= cache.has => funds[a] >= Ask[p]
      BY <3>1, <3>2
    <3> QED BY <3>1, <3>3 DEF IsSound, StillHas
  <2>4. pay' = [pay EXCEPT ![p] = new]
    BY <2>1
  <2> QED BY <1>1, <1>2, <2>2, <2>3, <2>4, PayoutWithoutFunds
<1> QED BY <1>4, <1>5

(* So does a broadcast, be it paid or reverted.                            *)
LEMMA BroadcastKeeps ==
  ASSUME TronInv, NEW p \in TronPayouts, Broadcast(p)
  PROVE  TronInv'
<1> USE DEF TronInv
<1> DEFINE a == pay[p].from
<1>1. ReportsAreKept
  BY KickKeeps DEF Broadcast
<1>2. p \notin Moved /\ pay[p].at = "chosen"
  BY DEF Broadcast, Moved
<1>3. pay[p] \in Payout /\ \A b \in Accounts : funds[b] \in Nat
  BY DEF TronTypes
<1>4. a # 0 /\ StillHas(a, Ask[p], pay[p].knows)
  BY <1>2 DEF ChoicesAreSound
<1>5. a \in Accounts /\ Ask[p] \in Nat
  BY <1>4, TronAssumption DEF StillHas
<1>6. ASSUME NEW s \in {"paid", "unanswered", "refused", "reverted", "starved"},
             pay' = [pay EXCEPT ![p].at = s]
      PROVE  \E new \in Payout : /\ pay' = [pay EXCEPT ![p] = new] /\ new.at = s
                                 /\ new.from = a /\ new.knows = pay[p].knows
  <2>1. pay' = [pay EXCEPT ![p] = [pay[p] EXCEPT !.at = s]]
    BY <1>6
  <2>2. PICK new : new = [pay[p] EXCEPT !.at = s]
    OBVIOUS
  <2>3. new \in Payout /\ new.at = s /\ new.from = a /\ new.knows = pay[p].knows
    BY <1>3, <2>2 DEF Payout
  <2> QED BY <2>1, <2>2, <2>3
<1>7. ASSUME NEW s \in {"paid", "unanswered"}, funds[a] >= Ask[p],
             funds' = [funds EXCEPT ![a] = @ - Ask[p]], pay' = [pay EXCEPT ![p].at = s]
      PROVE  TronInv'
  <2>1. funds[a] - Ask[p] \in Nat
    BY <1>3, <1>5, <1>7
  <2>2. funds' \in [Accounts -> Nat] /\ \A b \in Accounts \ {a} : funds'[b] = funds[b]
    BY <1>7, <2>1 DEF TronTypes
  <2>3. \A b \in Accounts : funds'[b] >= funds[b] \/ b = a
    BY <1>3, <2>2
  <2> HIDE DEF a
  <2>4. PICK new \in Payout : /\ pay' = [pay EXCEPT ![p] = new] /\ new.at = s
                              /\ new.from = a /\ new.knows = pay[p].knows
    <3>1. /\ s \in {"paid", "unanswered", "refused", "reverted", "starved"}
          /\ pay' = [pay EXCEPT ![p].at = s]
      BY <1>7
    <3> QED BY ONLY <3>1, <1>6
  <2> USE DEF a
  <2>5. \A b \in Accounts : \/ funds'[b] >= funds[b]
                            \/ new.at \in {"paid", "unanswered"} /\ new.from = b
    BY <2>3, <2>4
  <2>6. new.at # "chosen" /\ new.at # "reverted"
    BY <2>4
  <2> QED BY <1>1, <1>2, <2>2, <2>4, <2>5, <2>6, PayoutStep
<1>8. ASSUME funds[a] < Ask[p], UNCHANGED funds, pay' = [pay EXCEPT ![p].at = "reverted"]
      PROVE  TronInv'
  <2>1. ~(funds[a] >= Ask[p])
    BY <1>3, <1>5, <1>8
  <2>2. Overlapped(a, pay[p].knows)
    BY <1>4, <2>1 DEF StillHas
  <2>3. PICK new \in Payout : /\ pay' = [pay EXCEPT ![p] = new] /\ new.at = "reverted"
                              /\ new.from = a /\ new.knows = pay[p].knows
    BY <1>6, <1>8
  <2>4. Overlapped(new.from, new.knows)
    BY <2>2, <2>3
  <2> QED BY <1>1, <1>2, <1>8, <2>3, <2>4, PayoutWithoutFunds
<1>9. ASSUME NEW s \in {"refused", "starved"}, UNCHANGED funds,
             pay' = [pay EXCEPT ![p].at = s]
      PROVE  TronInv'
  <2>1. PICK new \in Payout : pay' = [pay EXCEPT ![p] = new] /\ new.at = s
    BY <1>6, <1>9
  <2> QED BY <1>1, <1>2, <1>9, <2>1, PayoutWithoutFunds
<1>10. \/ /\ funds[a] >= Ask[p] /\ funds' = [funds EXCEPT ![a] = @ - Ask[p]]
          /\ \E s \in {"paid", "unanswered"} : pay' = [pay EXCEPT ![p].at = s]
       \/ /\ funds[a] < Ask[p] /\ UNCHANGED funds
          /\ pay' = [pay EXCEPT ![p].at = "reverted"]
       \/ /\ UNCHANGED funds
          /\ \E s \in {"refused", "starved"} : pay' = [pay EXCEPT ![p].at = s]
  BY DEF Broadcast
<1> HIDE DEF a
<1> QED BY <1>7, <1>8, <1>9, <1>10

(* So does a deposit.                                                      *)
LEMMA DepositKeeps ==
  ASSUME TronInv, NEW a \in Accounts, Deposit(a)
  PROVE  TronInv'
<1>1. funds' \in [Accounts -> Nat] /\ \A b \in Accounts : funds'[b] >= funds[b]
  <2>1. \A b \in Accounts : funds[b] \in Nat
    BY DEF TronInv, TronTypes
  <2>2. funds' = [funds EXCEPT ![a] = funds[a] + 1]
    BY DEF Deposit
  <2> QED BY <2>1, <2>2 DEF TronInv, TronTypes
<1>2. ReportsAreKept
  BY KickKeeps DEF Deposit
<1> QED BY <1>1, <1>2, QuietStep DEF Deposit

-----------------------------------------------------------------------------
(* It holds before anybody asks.                                           *)
LEMMA InitTron == TronInit => TronInv
<1> SUFFICES ASSUME TronInit PROVE TronInv
  OBVIOUS
<1>1. Unknown \in Report /\ NotRefreshing \in Refresh /\ NotRefreshing.report = Unknown
  BY DEF Unknown, NotRefreshing, Report, Refresh
<1>2. [at |-> "asked", from |-> 0, knows |-> {}] \in Payout
  BY DEF Payout
<1>3. TronTypes
  BY <1>1, <1>2 DEF TronInit, TronTypes
<1>4. ReportsAreSound
  BY <1>1 DEF TronInit, ReportsAreSound, IsSound, StillHas, Unknown
<1>5. \A p \in TronPayouts : pay[p].at = "asked"
  BY DEF TronInit
<1> QED BY <1>3, <1>4, <1>5 DEF TronInv, ChoicesAreSound, RevertedWasOverlapped

(* Every step keeps it.                                                    *)
LEMMA StepTron == TronInv /\ [TronNext]_tronVars => TronInv'
<1> SUFFICES ASSUME TronInv, [TronNext]_tronVars PROVE TronInv'
  OBVIOUS
<1>1. CASE UNCHANGED tronVars
  <2>1. ReportsAreKept
    BY <1>1, KickKeeps DEF tronVars
  <2> QED BY <1>1, <2>1, FundsStay, QuietStep DEF tronVars, TronInv
<1> QED BY <1>1, ChooseKeeps, BroadcastKeeps, DepositKeeps, RefreshKeeps DEF TronNext

(* What cached and collected reports claim of an account, it still has, or *)
(* a payout that the report does not know of has taken it.                 *)
THEOREM TronIsInductive == TronSpec => []TronInv
BY InitTron, StepTron, PTL DEF TronSpec

(* A payout whose transfer reverts for want of the token was chosen from a *)
(* report begun before another payout moved the account's money, whatever  *)
(* refreshes overlap, fail or overwrite each other, and whichever accounts *)
(* run out of energy.  (tronSpendableForPayout, broadcastTRONPayout)       *)
THEOREM RevertsAreOverlaps == TronSpec => []RevertedWasOverlapped
BY TronIsInductive, PTL DEF TronInv

-----------------------------------------------------------------------------
(***************************************************************************)
(* The TRON nodes (TronNodes).                                             *)
(***************************************************************************)
(* No list is newer than the changes made, and one as old as the last      *)
(* change is the list as it is now.                                        *)
ListsAreDated ==
  \A u \in Admins :
    /\ shown[u].age <= switched
    /\ shown[u].list # <<>> /\ shown[u].age = switched => shown[u].list = NodesNow

NodesInv ==
  /\ switched \in Nat
  /\ DOMAIN shown = Admins /\ \A u \in Admins : shown[u].age \in Nat
  /\ ListsAreDated /\ ChangeIsAsShown

(* Every step of the nodes keeps what the page shows and what is told      *)
(* apart.                                                                  *)
LEMMA NodesStep == NodesInv /\ [NodesNext]_nodeVars => NodesInv'
<1> SUFFICES ASSUME NodesInv, [NodesNext]_nodeVars PROVE NodesInv'
  OBVIOUS
<1> USE DEF NodesInv, ListsAreDated
<1>1. ASSUME NEW u \in Admins, Status(u) PROVE NodesInv'
  BY <1>1 DEF Status, ChangeIsAsShown, NodesNow
<1>2. ASSUME NEW u \in Admins, NEW i \in Nodes, Change(u, i) PROVE NodesInv'
  <2>1. /\ shown[u].list # <<>> /\ switched' = switched + 1 /\ UNCHANGED shown
        /\ active' = NodesNow[i] \/ active' = shown[u].list[i]
        /\ misled' = misled \cup {switched - shown[u].age : k \in {active'} \ {shown[u].list[i]}}
    BY <1>2 DEF Change, NodeOfId
  <2>2. CASE shown[u].age = switched
    BY <2>1, <2>2 DEF ChangeIsAsShown
  <2>3. CASE shown[u].age < switched
    BY <2>1, <2>3 DEF ChangeIsAsShown
  <2> QED BY <2>2, <2>3
<1>3. CASE RestartWorker
  BY <1>3 DEF RestartWorker, ChangeIsAsShown
<1>4. CASE UNCHANGED nodeVars
  BY <1>4 DEF nodeVars, ChangeIsAsShown, NodesNow
<1> QED BY <1>1, <1>2, <1>3, <1>4 DEF NodesNext

(* However many administrators list and change the nodes, one who picks    *)
(* from a list gets the node it showed, unless another change was made     *)
(* since.  (fullnodeURLs, tronMultiserverChange)                           *)
THEOREM ChangesAreAsShown == NodesSpec => []ChangeIsAsShown
<1>1. NodesInit => NodesInv
  BY DEF NodesInit, NodesInv, ListsAreDated, ChangeIsAsShown
<1> QED BY <1>1, NodesStep, PTL DEF NodesSpec, NodesInv

-----------------------------------------------------------------------------
(***************************************************************************)
(* The audits of a cutover (CutoverAudits, DeployChecks).                  *)
(***************************************************************************)
(* The given proofs of a coin are checks that passed.                      *)
Proven(proofs, c) == {Step(g, c) : g \in proofs} \subseteq seen
RowsSeen(proved) == \A c \in DOMAIN proved : Proven(proved[c], c)
NotesSeen(notes) == \A n \in notes : n.status = "ok" => Step(n.name, n.of) \in seen

(* Whatever a file claims to have passed has been seen: the notes of a run *)
(* and of the report, the rows of the audit, the coverage of the release.  *)
FilesAreTrue ==
  /\ NotesSeen(check.notes)
  /\ report.status = "ok" => NotesSeen(report.notes)
  /\ audit.status = "pass" => RowsSeen(audit.rows)
  /\ audit.status = "pass" => \A c \in audit.required : Proven(ProofsOfAPlan, c)
  /\ release.status = "pass" => \A c \in release.coverage : Proven(ProofsOfACoin, c)

RunsAreRecords ==
  check.status = "running" =>
    check = [status |-> "running", cfg |-> check.cfg, todo |-> check.todo,
             notes |-> check.notes, wallets |-> check.wallets]

(* Which containers run at each step of the script; after it ended, unless *)
(* docker failed.                                                          *)
ContainersFollowStage ==
  /\ modern \in BOOLEAN
  /\ stage \in {"idle", "runtime", "stop", "import", "preflight", "audit", "start", "verify",
                "release", "goal", "done", "aborted", "left"}
  /\ stage \in {"idle", "runtime", "stop"} => legacy = "all" /\ modern = FALSE
  /\ stage \in {"import", "preflight", "audit", "start"} => legacy = "no" /\ modern = FALSE
  /\ stage \in {"verify", "release", "goal", "done"} => legacy = "no" /\ modern = TRUE
  /\ stage = "done" => goal # None /\ goal.status = "pass"
  /\ stage = "aborted" /\ ~broken => legacy = "all" /\ modern = FALSE
  /\ stage = "left" => ~modern \/ legacy = "no"

(* The order of the stages of the cutover script.                          *)
LEMMA FollowingStage ==
  /\ stage = "idle" => Following = "runtime"
  /\ stage = "runtime" => Following = "stop"
  /\ stage = "stop" => Following = "import"
  /\ stage = "import" => Following = "preflight"
  /\ stage = "preflight" => Following = "audit"
  /\ stage = "audit" => Following = "start"
  /\ stage = "start" => Following = "verify"
  /\ stage = "verify" => Following = "release"
  /\ stage = "release" => Following = "goal"
  /\ stage = "goal" => Following = "done"
<1>1. DOMAIN Stages = 1..11
  BY DEF Stages
<1>2. ASSUME NEW k \in 1..10, stage = Stages[k] PROVE Following = Stages[k + 1]
  <2>1. \A i \in 1..11 : Stages[i] = stage => i = k
    BY <1>2 DEF Stages
  <2> QED BY <1>1, <1>2, <2>1 DEF Following
<1>3. /\ Stages[1] = "idle" /\ Stages[2] = "runtime" /\ Stages[3] = "stop" /\ Stages[4] = "import"
      /\ Stages[5] = "preflight" /\ Stages[6] = "audit" /\ Stages[7] = "start"
      /\ Stages[8] = "verify" /\ Stages[9] = "release" /\ Stages[10] = "goal" /\ Stages[11] = "done"
  BY DEF Stages
<1> QED BY <1>2, <1>3

(* A rollback that docker carries out puts the old containers back; one    *)
(* that is left out leaves the old ones stopped.                           *)
LEMMA AbortRestores ==
  ASSUME NEW running \in BOOLEAN, Rollback(running), ContainersFollowStage,
         stage \notin {"idle", "done", "aborted", "left"}, stage # "stop"
  PROVE  ContainersFollowStage'
<1>1. CASE RollbackNeeded /\ stage' = "aborted"
  <2>1. PICK removed \in BOOLEAN, started \in BOOLEAN :
          /\ modern' = (running /\ ~removed) /\ legacy' = IF started THEN "all" ELSE legacy
          /\ broken' = (broken \/ ~removed \/ ~started)
    BY <1>1 DEF Rollback
  <2> QED BY <1>1, <2>1 DEF ContainersFollowStage
<1>2. CASE ~RollbackNeeded
  BY <1>2 DEF Rollback, RollbackNeeded, containers, ContainersFollowStage
<1>3. CASE RollbackNeeded /\ stage' # "aborted"
  <2>1. stage' = "left" /\ modern' = running /\ legacy' = legacy
    BY <1>3 DEF Rollback
  <2>2. legacy = "no"
    BY <1>3 DEF RollbackNeeded, ContainersFollowStage
  <2> QED BY <2>1, <2>2 DEF ContainersFollowStage
<1> QED BY <1>1, <1>2, <1>3

(* The end of a stage that starts or stops nothing keeps the containers as *)
(* the stage has them.                                                     *)
LEMMA EndsInStage ==
  ASSUME NEW ok \in BOOLEAN, Ends(ok), ContainersFollowStage,
         stage \in {"runtime", "import", "preflight", "audit", "verify", "release"}
  PROVE  ContainersFollowStage'
<1>1. CASE ok
  <2>1. stage' = Following /\ legacy' = legacy /\ modern' = modern
    BY <1>1 DEF Ends, containers
  <2> QED BY <2>1, FollowingStage DEF ContainersFollowStage
<1>2. CASE ~ok
  BY <1>2, AbortRestores DEF Ends, ContainersFollowStage
<1> QED BY <1>1, <1>2

(* So does every step, of the script or of anybody else.                   *)
LEMMA ScriptStep ==
  ASSUME ContainersFollowStage, [AuditsNext]_auditVars
  PROVE  ContainersFollowStage'
<1>1. CASE UNCHANGED <<stage, legacy, modern, broken, goal>>
  BY <1>1 DEF ContainersFollowStage
<1>2. CASE StartScript
  <2>1. stage = "idle" /\ stage' = Following /\ legacy' = legacy /\ modern' = modern
    BY <1>2 DEF StartScript, At, containers
  <2> QED BY <2>1, FollowingStage DEF ContainersFollowStage
<1>3. CASE RuntimeAudit
  <2>1. stage = "runtime" /\ \E ok \in BOOLEAN : Ends(ok)
    BY <1>3 DEF RuntimeAudit, At
  <2> QED BY <2>1, EndsInStage
<1>4. CASE StopLegacyContainers
  <2>1. stage = "stop" /\ modern' = modern
        /\ ((legacy' = "no" /\ stage' = Following) \/ (stage' = "aborted" /\ broken' = TRUE))
    BY <1>4 DEF StopLegacyContainers, At
  <2> QED BY <2>1, FollowingStage DEF ContainersFollowStage
<1>5. CASE Import
  <2>1. stage = "import" /\ \E ok \in BOOLEAN : Ends(ok)
    BY <1>5 DEF Import, At
  <2> QED BY <2>1, EndsInStage
<1>6. CASE Preflight
  <2>1. stage = "preflight" /\ \E ok \in BOOLEAN : Ends(ok)
    BY <1>6 DEF Preflight, At
  <2> QED BY <2>1, EndsInStage
<1>7. CASE CutoverAudit
  <2>1. stage = "audit" /\ \E ok \in BOOLEAN : Ends(ok)
    BY <1>7 DEF CutoverAudit, At
  <2> QED BY <2>1, EndsInStage
<1>8. CASE StartServices
  <2>1. /\ stage = "start"
        /\ \/ modern' = TRUE /\ stage' = Following /\ legacy' = legacy
           \/ Rollback(TRUE)
    BY <1>8 DEF StartServices, At
  <2>2. CASE modern' = TRUE /\ stage' = Following /\ legacy' = legacy
    BY <2>1, <2>2, FollowingStage DEF ContainersFollowStage
  <2>3. CASE Rollback(TRUE)
    BY <2>1, <2>3, AbortRestores
  <2> QED BY <2>1, <2>2, <2>3
<1>9. CASE VerifyPostCutover
  <2>1. stage = "verify" /\ \E ok \in BOOLEAN : Ends(ok)
    BY <1>9 DEF VerifyPostCutover, At
  <2> QED BY <2>1, EndsInStage
<1>10. CASE ReleaseAudit
  <2>1. stage = "release" /\ \E ok \in BOOLEAN : Ends(ok)
    BY <1>10 DEF ReleaseAudit, At
  <2> QED BY <2>1, EndsInStage
<1>11. CASE GoalAudit
  <2>1. PICK passed \in BOOLEAN :
          stage = "goal" /\ Ends(passed) /\ (passed => goal' = [status |-> "pass"])
    BY <1>11 DEF GoalAudit, At
  <2>2. CASE passed
    <3>1. stage' = Following /\ legacy' = legacy /\ modern' = modern
      BY <2>1, <2>2 DEF Ends, containers
    <3>2. goal' # None /\ goal'.status = "pass"
      BY <2>1, <2>2 DEF None
    <3> QED BY <2>1, <3>1, <3>2, FollowingStage DEF ContainersFollowStage
  <2>3. CASE ~passed
    BY <2>1, <2>3, AbortRestores DEF Ends, ContainersFollowStage
  <2> QED BY <2>2, <2>3
<1>12. CASE ChecksNext /\ UNCHANGED <<auditFiles, containers, stage>>
  BY <1>1, <1>12 DEF auditFiles, containers
<1>13. CASE UNCHANGED auditVars
  BY <1>1, <1>13 DEF auditVars, auditFiles, containers
<1>14. CASE KillScript
  <2>1. /\ stage \notin {"idle", "done", "aborted", "left"} /\ stage' = "left"
        /\ \/ legacy' = legacy /\ modern' = modern
           \/ stage = "stop" /\ legacy' = "some" /\ modern' = modern
           \/ stage = "start" /\ modern' = TRUE /\ legacy' = legacy
    BY <1>14 DEF KillScript, containers
  <2>2. modern' \in BOOLEAN
    BY <2>1 DEF ContainersFollowStage
  <2>3. ~modern' \/ legacy' = "no"
    BY <2>1 DEF ContainersFollowStage
  <2> QED BY <2>1, <2>2, <2>3 DEF ContainersFollowStage
<1> QED
  BY <1>2, <1>3, <1>4, <1>5, <1>6, <1>7, <1>8, <1>9, <1>10, <1>11, <1>12, <1>13, <1>14
  DEF AuditsNext

(* Wherever the cutover script ends, one system serves and not both, the   *)
(* new one only after every audit has passed, if docker does what it is    *)
(* told; killed or told not to roll back, it leaves at most one.           *)
(* (deploy/production-cutover.sh)                                          *)
THEOREM OneSystemAtATime == AuditsSpec => []OneSystemServes
<1>1. AuditsInit => ContainersFollowStage
  BY DEF AuditsInit, ContainersFollowStage
<1>2. ContainersFollowStage => OneSystemServes
  BY DEF ContainersFollowStage, OneSystemServes
<1>3. ContainersFollowStage /\ [AuditsNext]_auditVars
        => ContainersFollowStage'
  BY ScriptStep
<1> QED BY <1>1, <1>2, <1>3, PTL DEF AuditsSpec

-----------------------------------------------------------------------------
(* A finished check stands for what was seen, now and later.               *)
LEMMA SeenStays ==
  ASSUME NEW notes, NotesSeen(notes), seen \subseteq seen'
  PROVE  NotesSeen(notes)'
BY DEF NotesSeen

(* Every step of the checks keeps runs and files true records.             *)
LEMMA ChecksStep ==
  ASSUME RunsAreRecords, FilesAreTrue, ChecksNext, UNCHANGED <<audit, release>>
  PROVE  RunsAreRecords' /\ FilesAreTrue'
<1>1. ASSUME seen \subseteq seen'
      PROVE  /\ audit'.status = "pass" => RowsSeen(audit.rows)'
             /\ audit'.status = "pass" => \A c \in audit'.required : Proven(ProofsOfAPlan, c)'
             /\ release'.status = "pass" => \A c \in release'.coverage : Proven(ProofsOfACoin, c)'
  BY <1>1 DEF FilesAreTrue, RowsSeen, Proven
<1>2. CASE WritePlan \/ Repair
  BY <1>2 DEF WritePlan, Repair, RunsAreRecords, FilesAreTrue, NotesSeen, RowsSeen, Proven
<1>3. CASE Begin
  <2>1. UNCHANGED seen
    BY <1>3 DEF Begin
  <2>2. PICK env \in CheckEnvs :
          LET cfg == LoadConfig(plan, env)
          IN IF cfg.mutating /\ PlanPlaceholderFields(cfg) # {}
             THEN /\ report' = [status |-> "failed", mutating |-> TRUE, coverage |-> cfg.coverage,
                                notes |-> {Note("failed", "plan_placeholders", "")}]
                  /\ UNCHANGED check
             ELSE /\ check' = [status |-> "running", cfg |-> cfg, todo |-> Run(cfg),
                               notes |-> {}, wallets |-> {}]
                  /\ UNCHANGED report
    BY <1>3 DEF Begin
  <2> DEFINE cfg   == LoadConfig(plan, env)
             found == {Note("failed", "plan_placeholders", "")}
             todo  == Run(cfg)
  <2>3. \/ /\ report' = [status |-> "failed", mutating |-> TRUE, coverage |-> cfg.coverage,
                         notes |-> found]
           /\ UNCHANGED check
        \/ /\ check' = [status |-> "running", cfg |-> cfg, todo |-> todo,
                        notes |-> {}, wallets |-> {}]
           /\ UNCHANGED report
    BY <2>2
  <2> HIDE DEF cfg, found, todo
  <2>4. CASE /\ report' = [status |-> "failed", mutating |-> TRUE, coverage |-> cfg.coverage,
                           notes |-> found]
             /\ UNCHANGED check
    <3>1. report'.status # "ok"
      BY <2>4
    <3> QED BY <1>1, <2>1, <2>4, <3>1 DEF RunsAreRecords, FilesAreTrue, NotesSeen
  <2>5. CASE /\ check' = [status |-> "running", cfg |-> cfg, todo |-> todo,
                          notes |-> {}, wallets |-> {}]
             /\ UNCHANGED report
    <3>1. check'.notes = {}
      BY <2>5
    <3>2. RunsAreRecords'
      BY <2>5 DEF RunsAreRecords
    <3> QED BY <1>1, <2>1, <2>5, <3>1, <3>2 DEF FilesAreTrue, NotesSeen
  <2> QED BY <2>3, <2>4, <2>5
<1>4. CASE Pass
  <2>1. PICK quick \in {FALSE, Head(check.todo).name \in {"payout_dispatch", "payout_status", "payout_order"}} :
          LET s == Head(check.todo) notes == Recorded(s, quick) IN
          /\ seen' = seen \cup {Step(n.name, n.of) : n \in notes}
          /\ IF Len(check.todo) = 1 THEN Close("ok", check.notes \cup notes)
             ELSE /\ check' = [check EXCEPT !.todo = Tail(@), !.notes = @ \cup notes,
                         !.wallets = IF s.name = "payment_request" THEN @ \cup {s.of} ELSE @]
                  /\ UNCHANGED report
    BY <1>4 DEF Pass
  <2> DEFINE s == Head(check.todo)
             notes == Recorded(s, quick)
             wallets == IF s.name = "payment_request" THEN check.wallets \cup {s.of} ELSE check.wallets
             todo == Tail(check.todo)
  <2>2. seen' = seen \cup {Step(n.name, n.of) : n \in notes}
    BY <2>1
  <2>3. \/ Close("ok", check.notes \cup notes)
        \/ /\ check' = [check EXCEPT !.todo = todo, !.notes = @ \cup notes, !.wallets = wallets]
           /\ UNCHANGED report
    BY <2>1
  <2> HIDE DEF s, notes, wallets, todo
  <2>4. \A n \in check.notes \cup notes : n.status = "ok" => Step(n.name, n.of) \in seen'
    BY <2>2 DEF FilesAreTrue, NotesSeen
  <2>5. check.status = "running"
    BY <1>4 DEF Pass
  <2>6. CASE Close("ok", check.notes \cup notes)
    BY <1>1, <2>2, <2>4, <2>6 DEF Close, Resting, RunsAreRecords, FilesAreTrue, NotesSeen
  <2>7. CASE /\ check' = [check EXCEPT !.todo = todo, !.notes = @ \cup notes, !.wallets = wallets]
             /\ UNCHANGED report
    <3>1. check' = [status |-> "running", cfg |-> check.cfg, todo |-> todo,
                    notes |-> check.notes \cup notes, wallets |-> wallets]
      BY <2>5, <2>7 DEF RunsAreRecords
    <3>2. NotesSeen(check.notes)'
      BY <2>4, <3>1 DEF NotesSeen
    <3>3. RunsAreRecords'
      BY <3>1 DEF RunsAreRecords
    <3>4. report'.status = "ok" => NotesSeen(report.notes)'
      BY <2>2, <2>7 DEF FilesAreTrue, NotesSeen
    <3> QED BY <1>1, <2>2, <3>2, <3>3, <3>4 DEF FilesAreTrue
  <2> QED BY <2>3, <2>6, <2>7
<1>5. CASE Skip
  <2> DEFINE notes == check.notes \cup {Note("skipped", Head(check.todo).of, "")}
             todo == Tail(check.todo)
  <2>1. /\ UNCHANGED seen
        /\ \/ Close("ok", notes)
           \/ check' = [check EXCEPT !.todo = todo, !.notes = notes] /\ UNCHANGED report
    BY <1>5 DEF Skip
  <2>2. \A n \in notes : n.status = "ok" => Step(n.name, n.of) \in seen'
    <3>1. ASSUME NEW n \in notes, n.status = "ok"
          PROVE  n \in check.notes
      <4>1. Note("skipped", Head(check.todo).of, "").status = "skipped"
        BY DEF Note
      <4>2. n \in check.notes \/ n = Note("skipped", Head(check.todo).of, "")
        BY <3>1
      <4> QED BY <3>1, <4>1, <4>2
    <3> QED BY <2>1, <3>1 DEF FilesAreTrue, NotesSeen
  <2> HIDE DEF notes, todo
  <2>3. CASE Close("ok", notes)
    BY <1>1, <2>1, <2>2, <2>3 DEF Close, Resting, RunsAreRecords, FilesAreTrue, NotesSeen
  <2>4. CASE check' = [check EXCEPT !.todo = todo, !.notes = notes] /\ UNCHANGED report
    <3>1. check' = [status |-> "running", cfg |-> check.cfg, todo |-> todo,
                    notes |-> notes, wallets |-> check.wallets]
      BY <1>5, <2>4 DEF RunsAreRecords, Skip
    <3>2. NotesSeen(check.notes)' /\ RunsAreRecords'
      BY <2>2, <3>1 DEF NotesSeen, RunsAreRecords
    <3> QED BY <1>1, <2>1, <2>4, <3>2 DEF FilesAreTrue, NotesSeen
  <2> QED BY <2>1, <2>3, <2>4
<1>6. CASE Fail
  <2>1. UNCHANGED seen /\ report'.status = "failed" /\ check' = Resting
    BY <1>6 DEF Fail, Close
  <2> QED BY <1>1, <2>1 DEF Resting, RunsAreRecords, FilesAreTrue, NotesSeen
<1>7. CASE StopRun
  <2>1. UNCHANGED <<seen, report>> /\ check' = Resting
    BY <1>7 DEF StopRun
  <2> QED BY <1>1, <2>1 DEF Resting, RunsAreRecords, FilesAreTrue, NotesSeen
<1> QED BY <1>2, <1>3, <1>4, <1>5, <1>6, <1>7 DEF ChecksNext

(* So does every step of the audits.                                       *)
LEMMA FilesStep ==
  ASSUME RunsAreRecords, FilesAreTrue, [AuditsNext]_auditVars
  PROVE  RunsAreRecords' /\ FilesAreTrue'
<1>1. CASE UNCHANGED <<checksVars, audit, release>>
  BY <1>1 DEF checksVars, RunsAreRecords, FilesAreTrue, NotesSeen, RowsSeen, Proven
<1>2. CASE CutoverAudit
  <2> DEFINE proved == ConsumeReport(report, Covered)
  <2>1. UNCHANGED <<checksVars, release>>
    BY <1>2 DEF CutoverAudit
  <2>2. audit'.status = "pass" =>
          /\ audit'.rows = proved /\ audit'.required = Covered /\ report.status = "ok"
          /\ \A c \in Covered : ProofsOfAPlan \subseteq proved[c]
    BY <1>2 DEF CutoverAudit
  <2>3. \A c \in DOMAIN proved : proved[c] = {g \in ProofsOfAPlan : Note("ok", g, c) \in report.notes}
    BY DEF ConsumeReport
  <2>4. Covered \subseteq DOMAIN proved
    BY DEF ConsumeReport
  <2> HIDE DEF proved
  <2>5. ASSUME audit'.status = "pass", NEW c \in DOMAIN proved, NEW g \in proved[c]
        PROVE  Step(g, c) \in seen
    <3>1. Note("ok", g, c) \in report.notes
      BY <2>3, <2>5
    <3>2. NotesSeen(report.notes)
      BY <2>2, <2>5 DEF FilesAreTrue
    <3> QED BY <3>1, <3>2 DEF NotesSeen, Note
  <2>6. audit'.status = "pass" => \A c \in DOMAIN proved : Proven(proved[c], c)
    BY <2>5 DEF Proven
  <2>7. audit'.status = "pass" => \A c \in Covered : Proven(ProofsOfAPlan, c)
    BY <2>2, <2>4, <2>6 DEF Proven
  <2>8. audit'.status = "pass" => RowsSeen(audit.rows)'
    BY <2>1, <2>2, <2>6 DEF RowsSeen, Proven, checksVars
  <2>9. audit'.status = "pass" => \A c \in audit'.required : Proven(ProofsOfAPlan, c)'
    BY <2>1, <2>2, <2>7 DEF Proven, ProofsOfAPlan, ProofsOfACoin, checksVars
  <2> QED BY <2>1, <2>8, <2>9 DEF checksVars, RunsAreRecords, FilesAreTrue, NotesSeen, Proven
<1>3. CASE ReleaseAudit
  <2>1. UNCHANGED <<checksVars, audit>>
    BY <1>3 DEF ReleaseAudit
  <2>2. release'.status = "pass" => release'.coverage = Covered /\ ValidateCutoverAudit
    BY <1>3 DEF ReleaseAudit
  <2>3. release'.status = "pass" => \A c \in release'.coverage : Proven(ProofsOfACoin, c)
    BY <2>2 DEF ValidateCutoverAudit, FilesAreTrue, RowsSeen, Proven
  <2> QED BY <2>1, <2>3 DEF checksVars, RunsAreRecords, FilesAreTrue, NotesSeen, RowsSeen, Proven
<1>4. CASE ChecksNext /\ UNCHANGED <<auditFiles, containers, stage>>
  BY <1>4, ChecksStep DEF auditFiles
<1>5. CASE StartScript \/ StopLegacyContainers \/ StartServices \/ KillScript
        \/ UNCHANGED auditVars
  BY <1>1, <1>5 DEF StartScript, StopLegacyContainers, StartServices, KillScript, auditFiles,
                    auditVars
<1> QED BY <1>1, <1>2, <1>3, <1>4, <1>5
        DEF AuditsNext, RuntimeAudit, Import, Preflight, VerifyPostCutover, GoalAudit

(* A release that passed covers coins that were seen to be paid, paid out  *)
(* and listed, however often the plan, the report and the audit were       *)
(* replaced or widened before it was written; the status too of the coins  *)
(* the cutover audit was asked for.  (internal/releaseaudit)               *)
THEOREM ReleasesWereSeen == AuditsSpec => []PassedReleaseWasSeen
<1>1. AuditsInit => RunsAreRecords /\ FilesAreTrue
  BY DEF AuditsInit, ChecksInit, Resting, None, RunsAreRecords, FilesAreTrue, NotesSeen
<1>2. FilesAreTrue => PassedReleaseWasSeen
  BY DEF FilesAreTrue, Proven, PassedReleaseWasSeen
<1>3. RunsAreRecords /\ FilesAreTrue /\ [AuditsNext]_auditVars => RunsAreRecords' /\ FilesAreTrue'
  BY FilesStep
<1> QED BY <1>1, <1>2, <1>3, PTL DEF AuditsSpec

-----------------------------------------------------------------------------
(***************************************************************************)
(* Payouts of one worker beside each other (ChainBroadcasts).              *)
(***************************************************************************)
Job == [at : {"asked", "found", "signed", "sent", "refused"}, from : Wallets, tag : Nat,
        read : Nat, rate : Nat, ahead : SUBSET Requested, beside : SUBSET Requested, paid : Nat,
        fate : {"none", "moved", "reverted", "replaced", "shared"}, told : BOOLEAN]

BroadcastTypes ==
  /\ wants \in [Requested -> [units : Nat, fee : Nat, invoice : Nat]]
  /\ coins \in [Wallets -> Nat] /\ landed \in [Wallets -> SUBSET Nat]
  /\ block \in Nat /\ txfee \in Nat /\ job \in [Requested -> Job]

OnChain == family \in {"evm", "solana"}
TagsOf(T) == {t.tag : t \in T}
Taken(a) == landed[a] \cup TagsOf(QueueOf(a))

(* Requests that may still move money of their account; those one has met. *)
Live == {p \in Requested : job[p].at \in {"found", "signed"}} \cup RequestsBy(queue)
Met(p) == Beside(p) \cup job[p].ahead \cup {q \in Requested : p \in job[q].ahead}

QueueIsTrue ==
  \A t \in queue : t.by \in Requested /\ job[t.by].at = "sent" /\ t = Transaction(t.by)

MeetingsAreKept ==
  \A p \in Requested :
    /\ job[p].at = "asked" => job[p].ahead = {} /\ job[p].beside = {}
    /\ \A q \in job[p].ahead : job[q].at = "sent"

NeighboursMet == \A p, q \in Live : p # q /\ job[p].from = job[q].from => q \in Met(p)

CoveredUnlessMet == \A p \in Live : coins[job[p].from] >= wants[p].units \/ Met(p) # {}

FatesExplained ==
  \A p \in Requested :
    /\ job[p].fate = "reverted" => Met(p) # {}
    /\ job[p].fate = "replaced" => Beside(p) # {}
    /\ job[p].fate = "shared" =>
         \E q \in Requested \ {p} : /\ wants[q].units = wants[p].units
                                    /\ job[q].tag = job[p].tag /\ job[q].at = "sent"
    /\ job[p].fate = "moved" => job[p].paid = wants[p].units
    /\ job[p].at # "sent" => job[p].fate = "none"

ChainInv == QueueIsTrue /\ MeetingsAreKept /\ NeighboursMet /\ CoveredUnlessMet /\ FatesExplained

(* EVM: the tags of an account in blocks and in the queue are the numbers  *)
(* from 0 on without a gap, each once; what was ahead of a request has a   *)
(* tag below the one it takes.                                             *)
TagsFollow ==
  \A a \in Wallets :
    /\ \E n \in Nat : Taken(a) = 0..(n - 1)
    /\ landed[a] \cap TagsOf(QueueOf(a)) = {}
    /\ \A t, u \in QueueOf(a) : t.tag = u.tag => t = u

NoncesFollow ==
  \A p \in Requested :
    /\ \A q \in job[p].ahead :
         /\ job[q].tag \in Taken(job[p].from)
         /\ job[p].at = "signed" => job[q].tag # job[p].tag
    /\ job[p].at = "signed" => 0..(job[p].tag - 1) \subseteq Taken(job[p].from)

NonceInv == TagsFollow /\ NoncesFollow

(* Wallets that pay at once.                                               *)
WalletInv ==
  /\ queue = {}
  /\ \A p \in Requested :
       /\ job[p].fate \in {"none", "moved"} /\ (job[p].at # "sent" => job[p].fate = "none")
       /\ job[p].fate = "moved" /\ job[p].paid # wants[p].units =>
            \/ family = "monero" /\ job[p].read <= wants[p].units
            \/ family = "lightning"
       /\ family = "bitcoin" /\ wants[p].fee # 0 =>
            /\ job[p].at = "found" => txfee = wants[p].fee \/ job[p].beside # {}
            /\ job[p].at = "sent" => job[p].rate = wants[p].fee \/ job[p].beside # {}

BroadcastInv ==
  /\ BroadcastTypes
  /\ OnChain => ChainInv
  /\ family = "evm" => NonceInv
  /\ ~OnChain => WalletInv

-----------------------------------------------------------------------------
(* The node's answer is the first number no transaction of the account has.*)
LEMMA NonceIsNext ==
  ASSUME BroadcastTypes, TagsFollow, NEW a \in Wallets
  PROVE  Nonce(a) \in Nat /\ Taken(a) = 0..(Nonce(a) - 1)
<1> DEFINE Q == QueueOf(a)
           T == TagsOf(Q)
           f == [t \in Q |-> t.tag]
<1>1. PICK n \in Nat : Taken(a) = 0..(n - 1)
  BY DEF TagsFollow
<1>2. IsFiniteSet(0..(n - 1)) /\ Cardinality(0..(n - 1)) = n
  BY <1>1, FS_Interval
<1>3. T \subseteq 0..(n - 1) /\ landed[a] \subseteq 0..(n - 1) /\ landed[a] \cap T = {}
  BY <1>1 DEF Taken, TagsFollow
<1>4. IsFiniteSet(T) /\ IsFiniteSet(landed[a])
  BY <1>2, <1>3, FS_Subset
<1>5. f \in Injection(Q, T) /\ f \in Surjection(Q, T)
  <2>1. \A t, u \in Q : f[t] = f[u] => t = u
    BY DEF TagsFollow
  <2>2. f \in [Q -> T] /\ \A s \in T : \E t \in Q : f[t] = s
    BY DEF TagsOf
  <2> QED BY <2>1, <2>2 DEF Injection, Surjection, IsInjective
<1> HIDE DEF f
<1>6. IsFiniteSet(Q) /\ Cardinality(Q) = Cardinality(T)
  BY <1>4, <1>5, FS_Injection
<1>7. Cardinality(landed[a] \cup T) = Cardinality(landed[a]) + Cardinality(T)
  <2>1. Cardinality(landed[a] \cup T)
          = Cardinality(landed[a]) + Cardinality(T) - Cardinality(landed[a] \cap T)
    BY <1>4, FS_Union
  <2>2. Cardinality(landed[a] \cap T) = 0
    BY <1>3, FS_EmptySet
  <2> QED BY <1>4, <2>1, <2>2, FS_CardinalityType
<1>8. Nonce(a) = n
  BY <1>1, <1>2, <1>6, <1>7 DEF Nonce, Taken
<1> QED BY <1>1, <1>8

(* Meetings are never forgotten.                                           *)
LEMMA MeetingsStay ==
  ASSUME \A p \in Requested : job[p].ahead \subseteq job'[p].ahead
                              /\ job[p].beside \subseteq job'[p].beside
  PROVE  \A p \in Requested : Beside(p) \subseteq Beside(p)' /\ Met(p) \subseteq Met(p)'
<1>1. \A p \in Requested : Beside(p) \subseteq Beside(p)'
  BY DEF Beside
<1> QED BY <1>1 DEF Met

(* Whom a payout has met has met it.                                       *)
LEMMA MeetingsAreMutual ==
  ASSUME BroadcastTypes, NEW p \in Requested, NEW q \in Requested, p # q, q \in Met(p)
  PROVE  p \in Met(q)
BY DEF Met, Beside

(* A request changes by itself: it goes on with what it found, or ends.    *)
LEMMA QuietKeepsChain ==
  ASSUME BroadcastTypes, ChainInv, NEW p \in Requested, NEW new \in Job,
         job[p].at \in {"asked", "found", "signed"}, job' = [job EXCEPT ![p] = new],
         \/ new.at = "refused"
         \/ job[p].at \in {"found", "signed"} /\ new.at = "signed",
         new.from = job[p].from, new.ahead = job[p].ahead, new.beside = job[p].beside,
         new.fate = job[p].fate, new.paid = job[p].paid,
         UNCHANGED <<family, wants, coins, queue, landed>>
  PROVE  ChainInv'
<1> USE DEF ChainInv
<1>1. \A q \in Requested : /\ q # p => job'[q] = job[q]
                           /\ job'[q].from = job[q].from /\ job'[q].ahead = job[q].ahead
                           /\ job'[q].beside = job[q].beside /\ job'[q].fate = job[q].fate
                           /\ job'[q].paid = job[q].paid
  BY DEF BroadcastTypes
<1>2. job'[p] = new
  BY DEF BroadcastTypes
<1>3. \A q \in Requested : Beside(q)' = Beside(q) /\ Met(q)' = Met(q)
  BY <1>1 DEF Beside, Met
<1>4. QueueIsTrue'
  BY <1>1 DEF QueueIsTrue, Transaction
<1>5. MeetingsAreKept'
  <2>1. \A q, r \in Requested : r \in job[q].ahead => r # p
    BY DEF MeetingsAreKept
  <2>2. \A q \in Requested : job[q].ahead \subseteq Requested
    BY DEF BroadcastTypes, Job
  <2>3. \A q \in Requested : job'[q].at = "asked" => job[q].at = "asked"
    BY <1>1, <1>2
  <2> QED BY <1>1, <2>1, <2>2, <2>3 DEF MeetingsAreKept
<1>6. Live' \subseteq Live /\ Live \subseteq Requested
  BY <1>1, <1>2 DEF Live, RequestsBy, QueueIsTrue
<1>7. NeighboursMet' /\ CoveredUnlessMet'
  BY <1>1, <1>3, <1>6 DEF NeighboursMet, CoveredUnlessMet
<1>8. FatesExplained'
  <2>1. \A q \in Requested : job[q].at = "sent" => job'[q] = job[q]
    BY <1>1
  <2>2. job'[p].fate = "none"
    BY <1>1 DEF FatesExplained
  <2> QED BY <1>1, <1>3, <2>1, <2>2 DEF FatesExplained
<1> QED BY <1>4, <1>5, <1>7, <1>8

-----------------------------------------------------------------------------
(* Finding a wallet keeps what is known of the chain.                      *)
LEMMA FoundKeepsChain ==
  ASSUME BroadcastTypes, ChainInv, NEW p \in Requested, NEW a \in Wallets,
         job[p].at = "asked", coins[a] >= wants[p].units, Found(p, a),
         UNCHANGED <<family, wants, coins, queue, landed>>
  PROVE  ChainInv'
<1> USE DEF ChainInv
<1> DEFINE ahead  == RequestsBy(QueueOf(a))
           beside == {q \in Requested : job[q].at \in {"found", "signed"} /\ job[q].from = a}
<1>1. /\ \A q \in Requested : q # p => job'[q] = job[q]
      /\ job'[p].at = "found" /\ job'[p].from = a /\ job'[p].ahead = ahead
      /\ job'[p].beside = beside /\ job'[p].fate = job[p].fate /\ job'[p].paid = job[p].paid
  BY DEF Found, BroadcastTypes, Job
<1>2. job[p].ahead = {} /\ job[p].beside = {}
  BY DEF MeetingsAreKept
<1>3. \A q \in Requested : Beside(q) \subseteq Beside(q)' /\ Met(q) \subseteq Met(q)'
  <2>1. \A q \in Requested : job[q].ahead \subseteq job'[q].ahead
                             /\ job[q].beside \subseteq job'[q].beside
    BY <1>1, <1>2
  <2> QED BY <2>1, MeetingsStay
<1>4. QueueIsTrue'
  BY <1>1 DEF QueueIsTrue, Transaction
<1>5. \A q \in ahead : q \in Requested /\ q # p /\ job[q].at = "sent" /\ job[q].from = a
  BY DEF QueueIsTrue, RequestsBy, QueueOf, Transaction
<1>6. MeetingsAreKept'
  <2>1. \A q, r \in Requested : r \in job[q].ahead => r # p
    BY DEF MeetingsAreKept
  <2>2. \A q \in Requested : job[q].ahead \subseteq Requested
    BY DEF BroadcastTypes, Job
  <2> HIDE DEF ahead, beside
  <2> QED BY <1>1, <1>5, <2>1, <2>2 DEF MeetingsAreKept
<1>7. Live' = Live \cup {p} /\ Live \subseteq Requested /\ p \notin Live
  BY <1>1 DEF Live, RequestsBy, QueueIsTrue
<1>8. \A q \in Live : job[q].from = a => q \in Met(p)' /\ p \in Met(q)'
  <2> SUFFICES ASSUME NEW q \in Live, job[q].from = a PROVE q \in Met(p)' /\ p \in Met(q)'
    OBVIOUS
  <2>1. q \in Requested /\ q # p /\ (q \in ahead \/ q \in beside)
    BY <1>7 DEF Live, RequestsBy, QueueOf, QueueIsTrue, Transaction
  <2> HIDE DEF ahead, beside
  <2> QED BY <1>1, <2>1 DEF Met, Beside
<1>9. NeighboursMet' /\ CoveredUnlessMet'
  <2>1. \A q \in Live : job'[q] = job[q] /\ q \in Requested
    BY <1>1, <1>7
  <2>2. NeighboursMet'
    BY <1>1, <1>3, <1>7, <1>8, <2>1 DEF NeighboursMet
  <2>3. CoveredUnlessMet'
    BY <1>1, <1>3, <1>7, <2>1 DEF CoveredUnlessMet
  <2> QED BY <2>2, <2>3
<1>10. FatesExplained'
  <2>1. \A q \in Requested : /\ job'[q].fate = job[q].fate /\ job'[q].paid = job[q].paid
                             /\ job[q].at = "sent" => job'[q] = job[q]
    BY <1>1
  <2>2. \A q \in Requested : job'[q].tag = job[q].tag
    BY DEF Found, BroadcastTypes, Job
  <2> QED BY <1>3, <2>1, <2>2 DEF FatesExplained
<1> QED BY <1>4, <1>6, <1>9, <1>10

(* Fates change and the queue moves, the rest of every request stays.      *)
FatesMove ==
  /\ job' \in [Requested -> Job]
  /\ \A q \in Requested :
       /\ job'[q].from = job[q].from /\ job'[q].tag = job[q].tag
       /\ job'[q].ahead = job[q].ahead /\ job'[q].beside = job[q].beside
       /\ job'[q].at \in {job[q].at, "sent"}

(* Fates that only move on keep what has been met.                         *)
LEMMA MovingFatesKeep ==
  ASSUME BroadcastTypes, ChainInv, FatesMove, UNCHANGED wants
  PROVE  /\ MeetingsAreKept'
         /\ \A q \in Requested : Beside(q)' = Beside(q) /\ Met(q)' = Met(q)
<1> USE DEF ChainInv
<1>1. \A q \in Requested : Beside(q)' = Beside(q) /\ Met(q)' = Met(q)
  BY DEF FatesMove, Beside, Met
<1>2. MeetingsAreKept'
  <2>1. \A q \in Requested : job[q].ahead \subseteq Requested
    BY DEF BroadcastTypes, Job
  <2>2. \A q \in Requested : job'[q].at = "asked" => job[q].at = "asked"
    BY DEF FatesMove
  <2> QED BY <2>1, <2>2 DEF FatesMove, MeetingsAreKept
<1> QED BY <1>1, <1>2

(* A payout has one transaction in the queue.                              *)
LEMMA QueuedOnce ==
  ASSUME QueueIsTrue, NEW t \in queue, NEW u \in queue, t.by = u.by
  PROVE  t = u
BY DEF QueueIsTrue

(* A transaction that lands keeps what is known of the chain.              *)
LEMMA LandKeepsChain ==
  ASSUME BroadcastTypes, ChainInv, OnChain, NEW t \in queue, Land(t)
  PROVE  ChainInv' /\ FatesMove
<1> USE DEF ChainInv
<1> DEFINE r == t.by
           a == t.from
           n == wants[r].units
<1>1. r \in Requested /\ job[r].at = "sent" /\ a = job[r].from /\ t.tag = job[r].tag
  BY DEF QueueIsTrue, Transaction
<1>2. a \in Wallets /\ coins[a] \in Nat /\ n \in Nat /\ job[r] \in Job
  BY <1>1 DEF BroadcastTypes, Job
<1>3. /\ queue' = queue \ {t} /\ UNCHANGED <<family, wants, block, txfee>>
      /\ \/ /\ coins[a] >= n /\ coins' = [coins EXCEPT ![a] = @ - n]
            /\ job' = [job EXCEPT ![r].fate = "moved", ![r].paid = n]
         \/ /\ ~(coins[a] >= n) /\ UNCHANGED coins
            /\ job' = [job EXCEPT ![r].fate = "reverted"]
  BY DEF Land, asking
<1>4. /\ \A q \in Requested : q # r => job'[q] = job[q]
      /\ job'[r].at = "sent" /\ job'[r].from = job[r].from /\ job'[r].tag = job[r].tag
      /\ job'[r].ahead = job[r].ahead /\ job'[r].beside = job[r].beside /\ job'[r] \in Job
      /\ \/ job'[r].fate = "moved" /\ job'[r].paid = n
         \/ job'[r].fate = "reverted" /\ ~(coins[a] >= n)
  <2>1. CASE job' = [job EXCEPT ![r].fate = "moved", ![r].paid = n]
    BY <1>1, <1>2, <2>1 DEF BroadcastTypes, Job
  <2>2. CASE job' = [job EXCEPT ![r].fate = "reverted"] /\ ~(coins[a] >= n)
    BY <1>1, <1>2, <2>2 DEF BroadcastTypes, Job
  <2> QED BY <1>3, <2>1, <2>2
<1>5. \A q \in Requested : job'[q] \in Job
  BY <1>4 DEF BroadcastTypes
<1>6. job' \in [Requested -> Job]
  BY <1>3, <1>5 DEF BroadcastTypes
<1>7. FatesMove
  BY <1>1, <1>4, <1>6 DEF FatesMove
<1>8. MeetingsAreKept' /\ \A q \in Requested : Beside(q)' = Beside(q) /\ Met(q)' = Met(q)
  BY <1>3, <1>7, MovingFatesKeep
<1>9. QueueIsTrue'
  BY <1>3, <1>7 DEF QueueIsTrue, FatesMove, Transaction
<1>10. Live' \subseteq Live /\ Live \subseteq Requested /\ r \notin Live' /\ r \in Live
  <2>1. RequestsBy(queue') \subseteq RequestsBy(queue) /\ r \in RequestsBy(queue)
    BY <1>3 DEF RequestsBy
  <2>2. r \notin RequestsBy(queue')
    BY <1>3, QueuedOnce DEF RequestsBy
  <2>3. Live' = {q \in Requested : job'[q].at \in {"found", "signed"}} \cup RequestsBy(queue')
    BY DEF Live, RequestsBy
  <2>4. RequestsBy(queue) \subseteq Requested
    BY DEF QueueIsTrue, RequestsBy
  <2> QED BY <1>1, <1>4, <2>1, <2>2, <2>3, <2>4 DEF Live
<1>11. NeighboursMet'
  BY <1>7, <1>8, <1>10 DEF NeighboursMet, FatesMove
<1>12. CoveredUnlessMet'
  <2> SUFFICES ASSUME NEW p \in Live'
               PROVE  coins'[job[p].from] >= wants[p].units \/ Met(p) # {}
    BY <1>3, <1>7, <1>8, <1>10 DEF CoveredUnlessMet, FatesMove
  <2>1. p \in Live /\ p \in Requested /\ p # r
    BY <1>10
  <2>2. CASE job[p].from = a
    BY <1>1, <1>10, <2>1, <2>2 DEF NeighboursMet
  <2>3. CASE job[p].from # a
    <3>1. coins'[job[p].from] = coins[job[p].from]
      BY <1>3, <2>1, <2>3 DEF BroadcastTypes, Job
    <3> QED BY <2>1, <3>1 DEF CoveredUnlessMet
  <2> QED BY <2>2, <2>3
<1>13. FatesExplained'
  <2>1. Met(r) # {} \/ coins[a] >= n
    BY <1>1, <1>10 DEF CoveredUnlessMet
  <2>2. \A q \in Requested : q # r => job'[q].fate = job[q].fate /\ job'[q].paid = job[q].paid
    BY <1>4
  <2> HIDE DEF r, a, n
  <2>3. ASSUME NEW q \in Requested, q # r, job[q].fate = "shared"
        PROVE  \E u \in Requested \ {q} : /\ wants'[u].units = wants'[q].units
                                          /\ job'[u].tag = job'[q].tag /\ job'[u].at = "sent"
    BY <1>3, <1>7, <2>3 DEF FatesMove, FatesExplained
  <2>4. \A q \in Requested : job'[q].at # "sent" => job'[q].fate = "none"
    BY <1>1, <1>4, <2>2 DEF FatesExplained
  <2> QED BY <1>3, <1>4, <1>8, <2>1, <2>2, <2>3, <2>4 DEF FatesExplained, n
<1> QED BY <1>7, <1>8, <1>9, <1>11, <1>12, <1>13

(* So does one sent in place of those of the same nonce.                   *)
LEMMA SendEVMKeepsChain ==
  ASSUME BroadcastTypes, ChainInv, NoncesFollow, family = "evm", NEW p \in Requested,
         NEW told \in BOOLEAN, job[p].at = "signed", UNCHANGED <<family, wants, coins, landed>>,
         queue' = (queue \ SameTag(p)) \cup {Transaction(p)},
         job' = [q \in Requested |->
           IF q = p THEN [job[p] EXCEPT !.at = "sent", !.told = told]
           ELSE IF q \in RequestsBy(SameTag(p)) THEN [job[q] EXCEPT !.fate = "replaced"]
           ELSE job[q]]
  PROVE  ChainInv' /\ FatesMove
<1> USE DEF ChainInv
<1> DEFINE gone == RequestsBy(SameTag(p))
<1>1. \A q \in gone : /\ q \in Requested /\ q # p /\ job[q].at = "sent" /\ q \in Live
                      /\ job[q].from = job[p].from /\ job[q].tag = job[p].tag
  <2> SUFFICES ASSUME NEW t \in queue, t.from = job[p].from, t.tag = job[p].tag
               PROVE  /\ t.by \in Requested /\ t.by # p /\ job[t.by].at = "sent"
                      /\ t.by \in Live
                      /\ job[t.by].from = job[p].from /\ job[t.by].tag = job[p].tag
    BY DEF RequestsBy, SameTag, QueueOf
  <2>1. t.by \in Requested /\ job[t.by].at = "sent" /\ t.from = job[t.by].from
        /\ t.tag = job[t.by].tag
    BY DEF QueueIsTrue, Transaction
  <2> QED BY <2>1 DEF Live, RequestsBy
<1> HIDE DEF gone
<1>2. job'[p] = [job[p] EXCEPT !.at = "sent", !.told = told]
  OBVIOUS
<1>3. \A q \in gone : job'[q] = [job[q] EXCEPT !.fate = "replaced"]
  BY <1>1 DEF gone
<1>4. \A q \in Requested : q # p /\ q \notin gone => job'[q] = job[q]
  BY DEF gone
<1>5. \A q \in Requested : job[q] \in Job
  BY DEF BroadcastTypes
<1>6. /\ job'[p] \in Job /\ job'[p].at = "sent" /\ job'[p].from = job[p].from
      /\ job'[p].tag = job[p].tag /\ job'[p].ahead = job[p].ahead
      /\ job'[p].beside = job[p].beside /\ job'[p].fate = job[p].fate
  <2>1. ASSUME NEW j \in Job, NEW k, k = [j EXCEPT !.at = "sent", !.told = told]
        PROVE  /\ k \in Job /\ k.at = "sent" /\ k.from = j.from /\ k.tag = j.tag
               /\ k.ahead = j.ahead /\ k.beside = j.beside /\ k.fate = j.fate
    BY <2>1 DEF Job
  <2>2. job[p] \in Job
    BY <1>5
  <2> QED BY <1>2, <2>1, <2>2
<1>7. \A q \in gone : /\ job'[q] \in Job /\ job'[q].at = "sent" /\ job'[q].from = job[q].from
                      /\ job'[q].tag = job[q].tag /\ job'[q].ahead = job[q].ahead
                      /\ job'[q].beside = job[q].beside /\ job'[q].fate = "replaced"
  <2>1. ASSUME NEW j \in Job, NEW k, k = [j EXCEPT !.fate = "replaced"]
        PROVE  /\ k \in Job /\ k.at = j.at /\ k.from = j.from /\ k.tag = j.tag
               /\ k.ahead = j.ahead /\ k.beside = j.beside /\ k.fate = "replaced"
    BY <2>1 DEF Job
  <2>2. ASSUME NEW q \in gone
        PROVE  job[q] \in Job /\ job'[q] = [job[q] EXCEPT !.fate = "replaced"]
               /\ job[q].at = "sent"
    BY <1>1, <1>3, <1>5
  <2> QED BY <2>1, <2>2
<1>8. FatesMove
  <2>1. job' \in [Requested -> Job]
    BY <1>4, <1>5, <1>6, <1>7
  <2>2. \A q \in Requested :
          /\ job'[q].from = job[q].from /\ job'[q].tag = job[q].tag
          /\ job'[q].ahead = job[q].ahead /\ job'[q].beside = job[q].beside
          /\ job'[q].at \in {job[q].at, "sent"}
    BY <1>4, <1>6, <1>7
  <2> QED BY <2>1, <2>2 DEF FatesMove
<1>9. MeetingsAreKept' /\ \A q \in Requested : Beside(q)' = Beside(q) /\ Met(q)' = Met(q)
  BY <1>8, MovingFatesKeep
<1>10. QueueIsTrue'
  <2>1. \A q \in Requested : Transaction(q)' = Transaction(q)
    BY <1>8 DEF FatesMove, Transaction
  <2>2. Transaction(p).by = p
    BY DEF Transaction
  <2>3. ASSUME NEW t \in queue
        PROVE  t.by \in Requested /\ job'[t.by].at = "sent" /\ t = Transaction(t.by)'
    BY <1>8, <2>1 DEF FatesMove, QueueIsTrue
  <2> QED BY <1>6, <2>1, <2>2, <2>3 DEF QueueIsTrue
<1>11. Live' \subseteq Live /\ Live \subseteq Requested /\ p \in Live
  <2>1. RequestsBy(queue') \subseteq RequestsBy(queue) \cup {p}
    BY DEF RequestsBy, Transaction
  <2>2. Live' = {q \in Requested : job'[q].at \in {"found", "signed"}} \cup RequestsBy(queue')
    BY DEF Live, RequestsBy
  <2>3. RequestsBy(queue) \subseteq Requested
    BY DEF QueueIsTrue, RequestsBy
  <2> QED BY <1>4, <1>6, <1>7, <2>1, <2>2, <2>3 DEF Live
<1>12. NeighboursMet' /\ CoveredUnlessMet'
  BY <1>8, <1>9, <1>11 DEF NeighboursMet, CoveredUnlessMet, FatesMove
<1>13. ASSUME NEW q \in gone PROVE Beside(q) # {}
  <2>1. q \in Requested /\ p \in Met(q)
    BY <1>1, <1>11, <1>13 DEF NeighboursMet
  <2>2. p \notin job[q].ahead
    BY <2>1 DEF MeetingsAreKept
  <2>3. q \notin job[p].ahead
    BY <1>1, <1>13 DEF NoncesFollow
  <2> QED BY <2>1, <2>2, <2>3 DEF Met
<1>14. FatesExplained'
  <2>1. \A q \in Requested : q \notin gone => /\ job'[q].fate = job[q].fate
                                              /\ job'[q].paid = job[q].paid
    BY <1>2, <1>4, <1>5 DEF Job
  <2>2. \A q \in Requested : job[q].fate = "shared" =>
          \E u \in Requested \ {q} : /\ wants'[u].units = wants'[q].units
                                     /\ job'[u].tag = job'[q].tag /\ job'[u].at = "sent"
    BY <1>8 DEF FatesMove, FatesExplained
  <2>3. \A q \in Requested : job'[q].at # "sent" => job[q].at # "sent" /\ q \notin gone
    BY <1>7, <1>8 DEF FatesMove
  <2> QED BY <1>7, <1>9, <1>13, <2>1, <2>2, <2>3 DEF FatesExplained
<1> QED BY <1>8, <1>9, <1>10, <1>12, <1>14

(* So does one sent beside others, or not at all when its twin is there.   *)
LEMMA SendSolanaKeepsChain ==
  ASSUME BroadcastTypes, ChainInv, NEW p \in Requested, NEW told \in BOOLEAN,
         job[p].at = "signed", UNCHANGED <<family, wants, coins, landed>>,
         \/ /\ queue' = queue \cup {Transaction(p)}
            /\ job' = [job EXCEPT ![p].at = "sent", ![p].told = told]
         \/ /\ Twins(p) # {} /\ UNCHANGED queue
            /\ job' = [job EXCEPT ![p].at = "sent", ![p].told = told, ![p].fate = "shared"]
  PROVE  ChainInv' /\ FatesMove
<1> USE DEF ChainInv
<1>1. job[p] \in Job /\ job[p].fate = "none"
  BY DEF BroadcastTypes, FatesExplained
<1>2. \A q \in Requested : q # p => job'[q] = job[q]
  BY DEF BroadcastTypes
<1>3. /\ job'[p].at = "sent" /\ job'[p].from = job[p].from /\ job'[p].tag = job[p].tag
      /\ job'[p].ahead = job[p].ahead /\ job'[p].beside = job[p].beside /\ job'[p] \in Job
  <2>1. CASE job' = [job EXCEPT ![p].at = "sent", ![p].told = told]
    BY <1>1, <2>1 DEF BroadcastTypes, Job
  <2>2. CASE job' = [job EXCEPT ![p].at = "sent", ![p].told = told, ![p].fate = "shared"]
    BY <1>1, <2>2 DEF BroadcastTypes, Job
  <2> QED BY <2>1, <2>2
<1>4. \/ job'[p].fate = "none"
      \/ job'[p].fate = "shared" /\ Twins(p) # {}
  <2>1. CASE job' = [job EXCEPT ![p].at = "sent", ![p].told = told]
    BY <1>1, <2>1 DEF BroadcastTypes, Job
  <2>2. CASE Twins(p) # {} /\ job' = [job EXCEPT ![p].at = "sent", ![p].told = told, ![p].fate = "shared"]
    BY <1>1, <2>2 DEF BroadcastTypes, Job
  <2> QED BY <2>1, <2>2
<1>5. FatesMove
  <2>1. \A q \in Requested : job'[q] \in Job
    BY <1>2, <1>3 DEF BroadcastTypes
  <2>2. job' \in [Requested -> Job]
    BY <2>1 DEF BroadcastTypes
  <2> QED BY <1>2, <1>3, <2>2 DEF FatesMove
<1>6. MeetingsAreKept' /\ \A q \in Requested : Beside(q)' = Beside(q) /\ Met(q)' = Met(q)
  BY <1>5, MovingFatesKeep
<1>7. QueueIsTrue'
  <2>1. \A q \in Requested : Transaction(q)' = Transaction(q)
    BY <1>5 DEF FatesMove, Transaction
  <2>2. Transaction(p).by = p
    BY DEF Transaction
  <2>3. ASSUME NEW t \in queue
        PROVE  t.by \in Requested /\ job'[t.by].at = "sent" /\ t = Transaction(t.by)'
    BY <1>5, <2>1 DEF FatesMove, QueueIsTrue
  <2> QED BY <1>3, <2>1, <2>2, <2>3 DEF QueueIsTrue
<1>8. Live' \subseteq Live /\ Live \subseteq Requested
  <2>1. RequestsBy(queue') \subseteq RequestsBy(queue) \cup {p} /\ p \in Live
    BY DEF RequestsBy, Transaction, Live
  <2>2. Live' = {q \in Requested : job'[q].at \in {"found", "signed"}} \cup RequestsBy(queue')
    BY DEF Live, RequestsBy
  <2>3. RequestsBy(queue) \subseteq Requested
    BY DEF QueueIsTrue, RequestsBy
  <2> QED BY <1>2, <1>3, <2>1, <2>2, <2>3 DEF Live
<1>9. NeighboursMet' /\ CoveredUnlessMet'
  BY <1>5, <1>6, <1>8 DEF NeighboursMet, CoveredUnlessMet, FatesMove
<1>10. FatesExplained'
  <2>1. \A q \in Requested : job[q].fate = "shared" =>
          \E u \in Requested \ {q} : /\ wants'[u].units = wants'[q].units
                                     /\ job'[u].tag = job'[q].tag /\ job'[u].at = "sent"
    BY <1>5 DEF FatesMove, FatesExplained
  <2>2. job'[p].fate = "shared" =>
          \E u \in Requested \ {p} : /\ wants'[u].units = wants'[p].units
                                     /\ job'[u].tag = job'[p].tag /\ job'[u].at = "sent"
    BY <1>4, <1>5 DEF FatesMove, Twins
  <2> QED BY <1>2, <1>3, <1>4, <1>6, <2>1, <2>2 DEF FatesExplained
<1> QED BY <1>5, <1>6, <1>7, <1>9, <1>10

-----------------------------------------------------------------------------
(* Nonces of EVM.                                                          *)
LEMMA NoncesStay ==
  ASSUME BroadcastTypes, NoncesFollow, FatesMove, \A a \in Wallets : Taken(a) \subseteq Taken(a)'
  PROVE  NoncesFollow'
<1>1. \A p \in Requested : job[p].from \in Wallets /\ job[p].ahead \subseteq Requested
  BY DEF BroadcastTypes, Job
<1>2. \A p \in Requested : job'[p].at = "signed" => job[p].at = "signed"
  BY DEF FatesMove
<1> HIDE DEF Taken
<1>3. ASSUME NEW p \in Requested, NEW q \in job'[p].ahead
      PROVE  /\ job'[q].tag \in Taken(job[p].from)'
             /\ job'[p].at = "signed" => job'[q].tag # job'[p].tag
  <2>1. q \in job[p].ahead /\ q \in Requested
    BY <1>1, <1>3 DEF FatesMove
  <2> QED BY <1>1, <1>2, <2>1 DEF FatesMove, NoncesFollow
<1>4. ASSUME NEW p \in Requested, job'[p].at = "signed"
      PROVE  0..(job'[p].tag - 1) \subseteq Taken(job[p].from)'
  BY <1>1, <1>2, <1>4 DEF FatesMove, NoncesFollow
<1>5. \A p \in Requested : job'[p].from = job[p].from
  BY DEF FatesMove
<1> QED BY <1>3, <1>4, <1>5 DEF NoncesFollow, Taken, QueueOf

(* Landing keeps the order of the nonces.                                  *)
LEMMA LandKeepsNonces ==
  ASSUME BroadcastTypes, QueueIsTrue, NonceInv, FatesMove, NEW t \in queue, Land(t)
  PROVE  NonceInv'
<1> USE DEF NonceInv
<1> DEFINE a == t.from
<1>1. /\ queue' = queue \ {t} /\ landed' = [landed EXCEPT ![a] = @ \cup {t.tag}]
  BY DEF Land
<1>2. a \in Wallets /\ t \in QueueOf(a)
  BY DEF QueueIsTrue, Transaction, BroadcastTypes, Job, QueueOf
<1>3. /\ QueueOf(a)' = QueueOf(a) \ {t} /\ landed'[a] = landed[a] \cup {t.tag}
      /\ \A b \in Wallets : b # a => QueueOf(b)' = QueueOf(b) /\ landed'[b] = landed[b]
  BY <1>1, <1>2 DEF QueueOf, BroadcastTypes
<1>4. TagsOf(QueueOf(a))' = TagsOf(QueueOf(a)) \ {t.tag} /\ t.tag \in TagsOf(QueueOf(a))
  BY <1>2, <1>3 DEF TagsOf, TagsFollow
<1>5. \A b \in Wallets : Taken(b)' = Taken(b)
  BY <1>3, <1>4 DEF Taken, TagsOf
<1>6. TagsFollow'
  <2> SUFFICES ASSUME NEW b \in Wallets
               PROVE  /\ \E n \in Nat : Taken(b)' = 0..(n - 1)
                      /\ landed'[b] \cap TagsOf(QueueOf(b))' = {}
                      /\ \A u, v \in QueueOf(b)' : u.tag = v.tag => u = v
    BY DEF TagsFollow
  <2>1. \E n \in Nat : Taken(b)' = 0..(n - 1)
    BY <1>5 DEF TagsFollow
  <2>2. landed'[b] \cap TagsOf(QueueOf(b))' = {}
    BY <1>3, <1>4 DEF TagsFollow, TagsOf
  <2>3. \A u, v \in QueueOf(b)' : u.tag = v.tag => u = v
    BY <1>3 DEF TagsFollow
  <2> QED BY <2>1, <2>2, <2>3
<1>7. NoncesFollow'
  BY <1>5, NoncesStay
<1> QED BY <1>6, <1>7

(* So does sending.                                                        *)
LEMMA SendKeepsNonces ==
  ASSUME BroadcastTypes, QueueIsTrue, NonceInv, FatesMove, NEW p \in Requested,
         job[p].at = "signed", job[p].tag \notin landed[job[p].from], UNCHANGED landed,
         queue' = (queue \ SameTag(p)) \cup {Transaction(p)}
  PROVE  NonceInv'
<1> USE DEF NonceInv
<1>0. PICK a, k : a = job[p].from /\ k = job[p].tag
  OBVIOUS
<1>1. a \in Wallets /\ k \in Nat /\ k \notin landed[a]
  BY <1>0 DEF BroadcastTypes, Job
<1>2. /\ QueueOf(a)' = (QueueOf(a) \ SameTag(p)) \cup {Transaction(p)}
      /\ \A b \in Wallets : b # a => QueueOf(b)' = QueueOf(b)
      /\ Transaction(p).tag = k
  <2>1. Transaction(p).from = a /\ Transaction(p).tag = k
    BY <1>0 DEF Transaction
  <2>2. SameTag(p) \subseteq {t \in queue : t.from = a}
    BY <1>0 DEF SameTag, QueueOf
  <2>3. {t \in queue' : t.from = a} = ({t \in queue : t.from = a} \ SameTag(p)) \cup {Transaction(p)}
    BY <2>1
  <2>4. \A b \in Wallets : b # a => {t \in queue' : t.from = b} = {t \in queue : t.from = b}
    BY <2>1, <2>2
  <2> QED BY <2>1, <2>3, <2>4 DEF QueueOf
<1>3. \A u \in QueueOf(a) \ SameTag(p) : u.tag # k
  BY <1>0 DEF SameTag, QueueOf
<1>4. TagsOf(QueueOf(a))' = TagsOf(QueueOf(a)) \cup {k}
  <2>1. \A u \in SameTag(p) : u.tag = k
    BY <1>0 DEF SameTag
  <2>2. TagsOf(QueueOf(a)') = TagsOf(QueueOf(a)) \cup {k}
    BY <1>2, <2>1 DEF TagsOf
  <2> QED BY <2>2 DEF TagsOf
<1>5. Taken(a)' = Taken(a) \cup {k} /\ \A b \in Wallets : b # a => Taken(b)' = Taken(b)
  <2>1. Taken(a)' = Taken(a) \cup {k}
    BY <1>4 DEF Taken
  <2>2. ASSUME NEW b \in Wallets, b # a PROVE Taken(b)' = Taken(b)
    <3>1. QueueOf(b)' = QueueOf(b)
      BY <1>2, <2>2
    <3> QED BY <3>1 DEF Taken, TagsOf
  <2> QED BY <2>1, <2>2
<1>6. \E n \in Nat : Taken(a)' = 0..(n - 1)
  <2>1. PICK n \in Nat : Taken(a) = 0..(n - 1)
    BY <1>1 DEF TagsFollow
  <2>2. 0..(k - 1) \subseteq 0..(n - 1)
    BY <1>0, <2>1 DEF NoncesFollow
  <2>3. CASE k < n
    BY <1>1, <1>5, <2>1, <2>3
  <2>4. CASE k >= n
    <3>1. k = n
      <4>1. k > n => n \in 0..(k - 1) /\ n \notin 0..(n - 1)
        BY <1>1, <2>1
      <4> QED BY <1>1, <2>1, <2>2, <2>4, <4>1
    <3>2. 0..(n - 1) \cup {n} = 0..((n + 1) - 1)
      BY <2>1
    <3>3. Taken(a)' = 0..((n + 1) - 1) /\ n + 1 \in Nat
      BY <1>5, <2>1, <3>1, <3>2
    <3> QED BY <3>3
  <2> QED BY <1>1, <2>1, <2>3, <2>4
<1>7. TagsFollow'
  <2> SUFFICES ASSUME NEW b \in Wallets
               PROVE  /\ \E n \in Nat : Taken(b)' = 0..(n - 1)
                      /\ landed'[b] \cap TagsOf(QueueOf(b))' = {}
                      /\ \A u, v \in QueueOf(b)' : u.tag = v.tag => u = v
    BY DEF TagsFollow
  <2>1. CASE b = a
    <3>1. landed'[a] \cap TagsOf(QueueOf(a))' = {}
      BY <1>1, <1>4 DEF TagsFollow
    <3>2. \A u, v \in QueueOf(a)' : u.tag = v.tag => u = v
      <4>1. \A u, v \in QueueOf(a) : u.tag = v.tag => u = v
        BY <1>1 DEF TagsFollow
      <4> QED BY <1>2, <1>3, <4>1
    <3> QED BY <1>6, <2>1, <3>1, <3>2
  <2>2. CASE b # a
    <3>1. QueueOf(b)' = QueueOf(b) /\ Taken(b)' = Taken(b)
      BY <1>2, <1>5, <2>2
    <3>2. TagsOf(QueueOf(b))' = TagsOf(QueueOf(b))
      BY <3>1 DEF TagsOf
    <3>3. /\ \E n \in Nat : Taken(b) = 0..(n - 1)
          /\ landed[b] \cap TagsOf(QueueOf(b)) = {}
          /\ \A t, u \in QueueOf(b) : t.tag = u.tag => t = u
      BY DEF TagsFollow
    <3> QED BY <3>1, <3>2, <3>3
  <2> QED BY <2>1, <2>2
<1>8. NoncesFollow'
  <2>1. \A b \in Wallets : Taken(b) \subseteq Taken(b)'
    BY <1>5
  <2> QED BY <2>1, NoncesStay
<1> QED BY <1>7, <1>8

(* A request finds its account, stops, or takes its nonce.                 *)
LEMMA RequestKeepsNonces ==
  ASSUME BroadcastTypes, QueueIsTrue, MeetingsAreKept, NonceInv, NEW p \in Requested,
         job[p].at \in {"asked", "found", "signed"}, NEW new \in Job,
         job' = [job EXCEPT ![p] = new], UNCHANGED <<queue, landed>>,
         \/ new.at = "refused" /\ new.from = job[p].from /\ new.ahead = job[p].ahead
         \/ new.at = "found" /\ new.ahead = RequestsBy(QueueOf(new.from))
         \/ /\ new.at = "signed" /\ new.from = job[p].from /\ new.ahead = job[p].ahead
            /\ new.tag = Nonce(job[p].from)
  PROVE  NonceInv'
<1> USE DEF NonceInv
<1>1. \A a : QueueOf(a)' = QueueOf(a) /\ Taken(a)' = Taken(a)
  BY DEF QueueOf, Taken, TagsOf
<1>2. TagsFollow'
  BY <1>1 DEF TagsFollow, TagsOf
<1>3. job'[p] = new /\ \A q \in Requested : q # p => job'[q] = job[q]
  BY DEF BroadcastTypes
<1>4. \A q \in Requested : job[q].ahead \subseteq Requested \ {p} /\ job[q].from \in Wallets
  BY DEF BroadcastTypes, Job, MeetingsAreKept
<1>5. ASSUME NEW q \in Requested, q # p
      PROVE  /\ \A r \in job'[q].ahead :
                  /\ job'[r].tag \in Taken(job'[q].from)
                  /\ job'[q].at = "signed" => job'[r].tag # job'[q].tag
             /\ job'[q].at = "signed" => 0..(job'[q].tag - 1) \subseteq Taken(job'[q].from)
  BY <1>3, <1>4, <1>5 DEF NoncesFollow
<1>6. /\ \A r \in new.ahead : /\ job'[r].tag \in Taken(new.from)
                              /\ new.at = "signed" => job'[r].tag # new.tag
      /\ new.at = "signed" => 0..(new.tag - 1) \subseteq Taken(new.from)
  <2>1. CASE new.at = "refused" /\ new.from = job[p].from /\ new.ahead = job[p].ahead
    BY <1>3, <1>4, <2>1 DEF NoncesFollow
  <2>2. CASE new.at = "found" /\ new.ahead = RequestsBy(QueueOf(new.from))
    <3>1. ASSUME NEW r \in new.ahead PROVE job'[r].tag \in Taken(new.from)
      <4>1. PICK t \in QueueOf(new.from) : r = t.by
        BY <2>2 DEF RequestsBy
      <4>2. r \in Requested /\ r # p /\ t.tag = job[r].tag
        BY <4>1 DEF QueueOf, QueueIsTrue, Transaction
      <4> QED BY <1>3, <4>1, <4>2 DEF Taken, TagsOf
    <3> QED BY <2>2, <3>1
  <2>3. CASE /\ new.at = "signed" /\ new.from = job[p].from /\ new.ahead = job[p].ahead
             /\ new.tag = Nonce(job[p].from)
    <3>1. new.tag \in Nat /\ Taken(new.from) = 0..(new.tag - 1)
      BY <1>4, <2>3, NonceIsNext
    <3>2. \A r \in new.ahead : job'[r].tag \in Taken(new.from)
      BY <1>3, <1>4, <2>3 DEF NoncesFollow
    <3>3. \A k \in 0..(new.tag - 1) : k # new.tag
      BY <3>1
    <3> QED BY <3>1, <3>2, <3>3
  <2> QED BY <2>1, <2>2, <2>3
<1>7. NoncesFollow'
  BY <1>1, <1>3, <1>5, <1>6 DEF NoncesFollow
<1> QED BY <1>2, <1>7

-----------------------------------------------------------------------------
(* The updates of a request, each as the one record it leaves.             *)
LEMMA StopIsQuiet ==
  ASSUME BroadcastTypes, NEW p \in Requested, Stop(p)
  PROVE  \E new \in Job : /\ job' = [job EXCEPT ![p] = new] /\ new.at = "refused"
                          /\ new.from = job[p].from /\ new.ahead = job[p].ahead
                          /\ new.beside = job[p].beside /\ new.fate = job[p].fate
                          /\ new.paid = job[p].paid /\ new.tag = job[p].tag
                          /\ new.read = job[p].read /\ new.rate = job[p].rate
<1>1. job[p] \in Job
  BY DEF BroadcastTypes
<1>2. PICK new : new = [job[p] EXCEPT !.at = "refused"]
  OBVIOUS
<1>3. job' = [job EXCEPT ![p] = new]
  BY <1>2 DEF Stop
<1>4. /\ new \in Job /\ new.at = "refused" /\ new.from = job[p].from /\ new.ahead = job[p].ahead
      /\ new.beside = job[p].beside /\ new.fate = job[p].fate
      /\ new.paid = job[p].paid /\ new.tag = job[p].tag
      /\ new.read = job[p].read /\ new.rate = job[p].rate
  BY <1>1, <1>2 DEF Job
<1> QED BY <1>3, <1>4

(* Signing changes the tag of the payout and nothing else of it.           *)
LEMMA SignedIsQuiet ==
  ASSUME BroadcastTypes, NEW p \in Requested, NEW tag \in Nat, Signed(p, tag)
  PROVE  \E new \in Job : /\ job' = [job EXCEPT ![p] = new] /\ new.at = "signed"
                          /\ new.from = job[p].from /\ new.ahead = job[p].ahead
                          /\ new.beside = job[p].beside /\ new.fate = job[p].fate
                          /\ new.paid = job[p].paid /\ new.tag = tag
<1>1. job[p] \in Job
  BY DEF BroadcastTypes
<1>2. PICK new : new = [job[p] EXCEPT !.at = "signed", !.tag = tag]
  OBVIOUS
<1>3. job' = [job EXCEPT ![p] = new]
  BY <1>2 DEF Signed
<1>4. /\ new \in Job /\ new.at = "signed" /\ new.from = job[p].from /\ new.ahead = job[p].ahead
      /\ new.beside = job[p].beside /\ new.fate = job[p].fate
      /\ new.paid = job[p].paid /\ new.tag = tag
  BY <1>1, <1>2 DEF Job
<1> QED BY <1>3, <1>4

(* Finding a wallet concerns one payout, which notes the queue.            *)
LEMMA FoundIsOne ==
  ASSUME BroadcastTypes, QueueIsTrue, NEW p \in Requested, NEW a \in Wallets, Found(p, a)
  PROVE  \E new \in Job : /\ job' = [job EXCEPT ![p] = new] /\ new.at = "found"
                          /\ new.from = a /\ new.ahead = RequestsBy(QueueOf(a))
<1>1. job[p] \in Job
  BY DEF BroadcastTypes
<1> DEFINE ahead  == RequestsBy(QueueOf(a))
           beside == {q \in Requested : job[q].at \in {"found", "signed"} /\ job[q].from = a}
<1>2. ahead \in SUBSET Requested /\ beside \in SUBSET Requested
  BY DEF RequestsBy, QueueOf, QueueIsTrue
<1>3. job' = [job EXCEPT ![p].at = "found", ![p].from = a, ![p].ahead = ahead,
                         ![p].beside = beside]
  BY DEF Found
<1> HIDE DEF ahead, beside
<1>4. PICK new : new = [job[p] EXCEPT !.at = "found", !.from = a, !.ahead = ahead,
                                      !.beside = beside]
  OBVIOUS
<1>5. job' = [job EXCEPT ![p] = new]
  BY <1>3, <1>4
<1>6. new \in Job /\ new.at = "found" /\ new.from = a /\ new.ahead = ahead
  BY <1>1, <1>2, <1>4 DEF Job
<1> QED BY <1>5, <1>6 DEF ahead

(* A payout that becomes another one is still a payout.                    *)
LEMMA ReplacedIsTyped ==
  ASSUME BroadcastTypes, NEW p \in Requested, NEW new \in Job, job' = [job EXCEPT ![p] = new]
  PROVE  job' \in [Requested -> Job]
BY DEF BroadcastTypes

(* A request on a chain stops.                                             *)
LEMMA StopOnChain ==
  ASSUME BroadcastInv, OnChain, NEW p \in Requested, Stop(p),
         job[p].at \in {"asked", "found", "signed"},
         UNCHANGED <<family, wants, coins, queue, landed, block, txfee>>
  PROVE  BroadcastInv'
<1> USE DEF BroadcastInv
<1>1. PICK new \in Job : /\ job' = [job EXCEPT ![p] = new] /\ new.at = "refused"
                         /\ new.from = job[p].from /\ new.ahead = job[p].ahead
                         /\ new.beside = job[p].beside /\ new.fate = job[p].fate
                         /\ new.paid = job[p].paid
  BY StopIsQuiet
<1>2. ChainInv'
  BY <1>1, QuietKeepsChain
<1>3. family = "evm" => NonceInv'
  BY <1>1, RequestKeepsNonces DEF ChainInv
<1>4. BroadcastTypes'
  BY <1>1, ReplacedIsTyped DEF BroadcastTypes
<1> QED BY <1>2, <1>3, <1>4 DEF OnChain

(* On a chain the invariant is kept by finding a wallet,                   *)
LEMMA FindOnChain ==
  ASSUME BroadcastInv, OnChain, NEW p \in Requested, NEW a \in Wallets, job[p].at = "asked",
         coins[a] >= wants[p].units, Found(p, a),
         UNCHANGED <<family, wants, coins, queue, landed, block, txfee>>
  PROVE  BroadcastInv'
<1> USE DEF BroadcastInv
<1>1. PICK new \in Job : /\ job' = [job EXCEPT ![p] = new] /\ new.at = "found"
                         /\ new.from = a /\ new.ahead = RequestsBy(QueueOf(a))
  BY FoundIsOne DEF ChainInv
<1>2. ChainInv'
  BY FoundKeepsChain
<1>3. family = "evm" => NonceInv'
  BY <1>1, RequestKeepsNonces DEF ChainInv
<1>4. BroadcastTypes'
  BY <1>1, ReplacedIsTyped DEF BroadcastTypes
<1> QED BY <1>2, <1>3, <1>4 DEF OnChain

(* by signing,                                                             *)
LEMMA SignOnChain ==
  ASSUME BroadcastInv, OnChain, NEW p \in Requested, NEW tag \in Nat, job[p].at = "found",
         Signed(p, tag), family = "evm" => tag = Nonce(job[p].from),
         UNCHANGED <<family, wants, coins, queue, landed, block, txfee>>
  PROVE  BroadcastInv'
<1> USE DEF BroadcastInv
<1>1. PICK new \in Job : /\ job' = [job EXCEPT ![p] = new] /\ new.at = "signed"
                         /\ new.from = job[p].from /\ new.ahead = job[p].ahead
                         /\ new.beside = job[p].beside /\ new.fate = job[p].fate
                         /\ new.paid = job[p].paid /\ new.tag = tag
  BY SignedIsQuiet
<1>2. ChainInv'
  BY <1>1, QuietKeepsChain
<1>3. family = "evm" => NonceInv'
  BY <1>1, RequestKeepsNonces DEF ChainInv
<1>4. BroadcastTypes'
  BY <1>1, ReplacedIsTyped DEF BroadcastTypes
<1> QED BY <1>2, <1>3, <1>4 DEF OnChain

(* by a block,                                                             *)
LEMMA BlockOnChain ==
  ASSUME BroadcastInv, OnChain, Block
  PROVE  BroadcastInv'
<1> USE DEF BroadcastInv
<1>1. UNCHANGED <<family, wants, queue, landed, txfee, job>> /\ block' = block + 1
      /\ \/ \E a \in Wallets : coins' = [coins EXCEPT ![a] = @ + 1]
         \/ UNCHANGED coins
  BY DEF Block, asking
<1>2. coins' \in [Wallets -> Nat] /\ \A a \in Wallets : coins'[a] >= coins[a]
  BY <1>1 DEF BroadcastTypes
<1>3. BroadcastTypes'
  BY <1>1, <1>2 DEF BroadcastTypes
<1>4. QueueIsTrue' /\ MeetingsAreKept' /\ NeighboursMet' /\ FatesExplained'
  BY <1>1 DEF ChainInv, QueueIsTrue, Transaction, MeetingsAreKept, NeighboursMet, FatesExplained,
              Live, RequestsBy, Met, Beside
<1>5. CoveredUnlessMet'
  <2>1. Live' = Live /\ \A p \in Requested : Met(p)' = Met(p)
    BY <1>1 DEF Live, RequestsBy, Met, Beside
  <2>2. Live \subseteq Requested
    BY DEF Live, ChainInv, QueueIsTrue, RequestsBy
  <2>3. \A p \in Requested : job[p].from \in Wallets /\ wants[p].units \in Nat
    BY DEF BroadcastTypes, Job
  <2>4. \A p \in Requested : coins[job[p].from] >= wants[p].units
                              => coins'[job[p].from] >= wants[p].units
    <3>1. \A a \in Wallets : coins[a] \in Nat /\ coins'[a] \in Nat /\ coins'[a] >= coins[a]
      BY <1>2 DEF BroadcastTypes
    <3> QED BY <2>3, <3>1
  <2> QED BY <1>1, <2>1, <2>2, <2>4 DEF ChainInv, CoveredUnlessMet
<1>6. family = "evm" => NonceInv'
  BY <1>1 DEF NonceInv, TagsFollow, NoncesFollow, Taken, TagsOf, QueueOf
<1> QED BY <1>1, <1>3, <1>4, <1>5, <1>6 DEF OnChain, ChainInv

(* by a transaction that lands,                                            *)
LEMMA LandOnChain ==
  ASSUME BroadcastInv, OnChain, NEW t \in queue, Land(t)
  PROVE  BroadcastInv'
<1> USE DEF BroadcastInv
<1>1. ChainInv' /\ FatesMove
  BY LandKeepsChain
<1>2. family = "evm" => NonceInv'
  BY <1>1, LandKeepsNonces DEF ChainInv
<1>3. t.by \in Requested /\ t.from \in Wallets /\ t.tag \in Nat
  BY DEF ChainInv, QueueIsTrue, Transaction, BroadcastTypes, Job
<1>4. landed' \in [Wallets -> SUBSET Nat]
  BY <1>3 DEF Land, BroadcastTypes
<1>5. coins' \in [Wallets -> Nat]
  <2>1. coins[t.from] \in Nat /\ wants[t.by].units \in Nat
    BY <1>3 DEF BroadcastTypes
  <2>2. \/ UNCHANGED coins
        \/ /\ coins[t.from] >= wants[t.by].units
           /\ coins' = [coins EXCEPT ![t.from] = @ - wants[t.by].units]
    BY DEF Land
  <2>3. coins[t.from] >= wants[t.by].units => coins[t.from] - wants[t.by].units \in Nat
    BY <2>1
  <2> QED BY <1>3, <2>2, <2>3 DEF BroadcastTypes
<1>6. UNCHANGED <<family, wants, block, txfee>>
  BY DEF Land, asking
<1> QED BY <1>1, <1>2, <1>4, <1>5, <1>6 DEF BroadcastTypes, OnChain, FatesMove

(* by sending one,                                                         *)
LEMMA SendOnChain ==
  ASSUME BroadcastInv, OnChain, NEW p \in Requested, SendEVM(p) \/ SendSolana(p)
  PROVE  BroadcastInv'
<1> USE DEF BroadcastInv
<1>1. UNCHANGED <<family, wants, coins, landed, block, txfee>> /\ job[p].at = "signed"
  BY DEF SendEVM, SendSolana, asking
<1>2. CASE Stop(p) /\ UNCHANGED queue
  BY <1>1, <1>2, StopOnChain
<1>3. CASE SendEVM(p) /\ ~(Stop(p) /\ UNCHANGED queue)
  <2>1. PICK told \in BOOLEAN :
        /\ family = "evm" /\ job[p].tag \notin landed[job[p].from]
        /\ queue' = (queue \ SameTag(p)) \cup {Transaction(p)}
        /\ job' = [q \in Requested |->
             IF q = p THEN [job[p] EXCEPT !.at = "sent", !.told = told]
             ELSE IF q \in RequestsBy(SameTag(p)) THEN [job[q] EXCEPT !.fate = "replaced"]
             ELSE job[q]]
    BY <1>3 DEF SendEVM
  <2>2. ChainInv' /\ FatesMove
    BY <1>1, <2>1, SendEVMKeepsChain DEF NonceInv
  <2>3. NonceInv'
    BY <1>1, <2>1, <2>2, SendKeepsNonces DEF ChainInv
  <2> QED BY <1>1, <2>2, <2>3 DEF BroadcastTypes, OnChain, FatesMove
<1>4. CASE SendSolana(p) /\ ~(Stop(p) /\ UNCHANGED queue)
  <2>1. PICK told \in BOOLEAN :
        /\ family = "solana"
        /\ \/ /\ queue' = queue \cup {Transaction(p)}
              /\ job' = [job EXCEPT ![p].at = "sent", ![p].told = told]
           \/ /\ Twins(p) # {} /\ UNCHANGED queue
              /\ job' = [job EXCEPT ![p].at = "sent", ![p].told = told, ![p].fate = "shared"]
    BY <1>4 DEF SendSolana
  <2>2. ChainInv' /\ FatesMove
    BY <1>1, <2>1, SendSolanaKeepsChain
  <2> QED BY <1>1, <2>1, <2>2 DEF BroadcastTypes, OnChain, FatesMove
<1> QED BY <1>2, <1>3, <1>4

(* hence by every step.                                                    *)
LEMMA ChainStep ==
  ASSUME BroadcastInv, OnChain, BroadcastsNext
  PROVE  BroadcastInv'
<1>1. CASE Block
  BY <1>1, BlockOnChain
<1>2. ASSUME NEW t \in queue, Land(t) PROVE BroadcastInv'
  BY <1>2, LandOnChain
<1>3. ASSUME NEW p \in Requested, FindEVMAccount(p) \/ FindSolanaAccount(p) PROVE BroadcastInv'
  <2>1. /\ job[p].at = "asked" /\ UNCHANGED <<family, wants, coins, queue, landed, block, txfee>>
        /\ \/ \E a \in Wallets : coins[a] >= wants[p].units /\ Found(p, a)
           \/ Stop(p)
    BY <1>3 DEF FindEVMAccount, FindSolanaAccount, bnbBalance, solanaBalance, asking, nodeSide
  <2>2. CASE \E a \in Wallets : coins[a] >= wants[p].units /\ Found(p, a)
    BY <2>1, <2>2, FindOnChain
  <2>3. CASE Stop(p)
    BY <2>1, <2>3, StopOnChain
  <2> QED BY <2>1, <2>2, <2>3
<1>4. ASSUME NEW p \in Requested, TakeNonce(p) \/ TakeBlockhash(p) PROVE BroadcastInv'
  <2>1. /\ job[p].at = "found" /\ UNCHANGED <<family, wants, coins, queue, landed, block, txfee>>
        /\ \/ family = "evm" /\ Signed(p, Nonce(job[p].from))
           \/ family = "solana" /\ Signed(p, block)
           \/ Stop(p)
    BY <1>4 DEF TakeNonce, TakeBlockhash, asking, nodeSide
  <2>2. CASE family = "evm" /\ Signed(p, Nonce(job[p].from))
    <3>1. job[p].from \in Wallets
      BY DEF BroadcastInv, BroadcastTypes, Job
    <3>2. Nonce(job[p].from) \in Nat
      BY <2>2, <3>1, NonceIsNext DEF BroadcastInv, NonceInv
    <3> QED BY <2>1, <2>2, <3>2, SignOnChain
  <2>3. CASE family = "solana" /\ Signed(p, block)
    <3>1. block \in Nat /\ family # "evm"
      BY <2>3 DEF BroadcastInv, BroadcastTypes
    <3> QED BY <2>1, <2>3, <3>1, SignOnChain
  <2>4. CASE Stop(p)
    BY <2>1, <2>4, StopOnChain
  <2> QED BY <2>1, <2>2, <2>3, <2>4
<1>5. ASSUME NEW p \in Requested, SendEVM(p) \/ SendSolana(p) PROVE BroadcastInv'
  BY <1>5, SendOnChain
<1>6. \A p \in Requested : ~(SetTxFee(p) \/ SendBitcoin(p) \/ ReadUnlocked(p) \/ SendMonero(p)
                             \/ SendXRP(p) \/ SendLightning(p))
  BY DEF OnChain, SetTxFee, SendBitcoin, ReadUnlocked, SendMonero, SendXRP, SendLightning
<1> QED BY <1>1, <1>2, <1>3, <1>4, <1>5, <1>6 DEF BroadcastsNext

-----------------------------------------------------------------------------
(* What WalletInv asks of one request, with the record it has.             *)
WalletJob(p, j) ==
  /\ j.fate \in {"none", "moved"} /\ (j.at # "sent" => j.fate = "none")
  /\ j.fate = "moved" /\ j.paid # wants[p].units =>
       \/ family = "monero" /\ j.read <= wants[p].units
       \/ family = "lightning"
  /\ family = "bitcoin" /\ wants[p].fee # 0 =>
       /\ j.at = "found" => txfee = wants[p].fee \/ j.beside # {}
       /\ j.at = "sent" => j.rate = wants[p].fee \/ j.beside # {}

(* In a wallet the invariant is kept by a payout that moves on,            *)
LEMMA WalletKeeps ==
  ASSUME BroadcastInv, ~OnChain, NEW p \in Requested, NEW new \in Job, WalletJob(p, new),
         job' = [job EXCEPT ![p] = new], UNCHANGED <<family, wants, queue, landed, block, txfee>>,
         coins' \in [Wallets -> Nat]
  PROVE  BroadcastInv'
<1> USE DEF BroadcastInv
<1>1. BroadcastTypes'
  BY ReplacedIsTyped DEF BroadcastTypes
<1>2. job'[p] = new /\ \A q \in Requested : q # p => job'[q] = job[q]
  BY DEF BroadcastTypes
<1>3. WalletInv'
  BY <1>2 DEF WalletInv, WalletJob
<1> QED BY <1>1, <1>3 DEF OnChain

(* by one that is refused,                                                 *)
LEMMA WalletStops ==
  ASSUME BroadcastInv, ~OnChain, NEW p \in Requested, Stop(p), job[p].at # "sent",
         UNCHANGED <<family, wants, coins, queue, landed, block, txfee>>
  PROVE  BroadcastInv'
<1>1. PICK new \in Job : /\ job' = [job EXCEPT ![p] = new] /\ new.at = "refused"
                         /\ new.from = job[p].from /\ new.ahead = job[p].ahead
                         /\ new.beside = job[p].beside /\ new.fate = job[p].fate
                         /\ new.paid = job[p].paid /\ new.tag = job[p].tag
                         /\ new.read = job[p].read /\ new.rate = job[p].rate
  BY StopIsQuiet DEF BroadcastInv
<1>2. WalletJob(p, new)
  BY <1>1 DEF BroadcastInv, WalletInv, WalletJob
<1>3. coins' \in [Wallets -> Nat]
  BY DEF BroadcastInv, BroadcastTypes
<1> QED BY <1>1, <1>2, <1>3, WalletKeeps

(* A wallet that pays n, which is right for this request.                  *)
LEMMA PayingKeeps ==
  ASSUME BroadcastInv, ~OnChain, NEW p \in Requested, NEW n \in Nat, WalletPays(p, n),
         \/ n = wants[p].units
         \/ family = "monero" /\ job[p].read <= wants[p].units
         \/ family = "lightning",
         family = "bitcoin" => job[p].at = "found",
         UNCHANGED <<family, wants, queue, landed, block, txfee>>
  PROVE  BroadcastInv'
<1>1. job[p] \in Job /\ txfee \in Nat /\ 1 \in Wallets
  BY BroadcastsAssumption DEF BroadcastInv, BroadcastTypes
<1>0. PICK told \in BOOLEAN :
        job' = [job EXCEPT ![p].at = "sent", ![p].told = told, ![p].fate = "moved",
                           ![p].paid = n, ![p].rate = txfee]
  BY DEF WalletPays
<1>2. PICK new : new = [job[p] EXCEPT !.at = "sent", !.told = told, !.fate = "moved",
                                      !.paid = n, !.rate = txfee]
  OBVIOUS
<1>3. job' = [job EXCEPT ![p] = new]
  BY <1>0, <1>2
<1>4. /\ new \in Job /\ new.at = "sent" /\ new.fate = "moved" /\ new.paid = n
      /\ new.rate = txfee /\ new.beside = job[p].beside /\ new.read = job[p].read
  BY <1>1, <1>2 DEF Job
<1>5. WalletJob(p, new)
  BY <1>4 DEF WalletJob, BroadcastInv, WalletInv
<1>6. coins' \in [Wallets -> Nat]
  <2>1. coins \in [Wallets -> Nat] /\ coins[1] \in Nat
    BY <1>1 DEF BroadcastInv, BroadcastTypes
  <2>2. coins[1] >= n /\ coins' = [coins EXCEPT ![1] = @ - n]
    BY DEF WalletPays
  <2>3. coins[1] - n \in Nat
    BY <2>1, <2>2
  <2> QED BY <1>1, <2>1, <2>2, <2>3
<1> QED BY <1>3, <1>4, <1>5, <1>6, WalletKeeps

(* by setting the fee,                                                     *)
LEMMA FeeKeeps ==
  ASSUME BroadcastInv, ~OnChain, NEW p \in Requested, SetTxFee(p)
  PROVE  BroadcastInv'
<1> USE DEF BroadcastInv
<1>1. /\ family = "bitcoin" /\ job[p].at = "asked"
      /\ UNCHANGED <<family, wants, coins, queue, landed, block>>
  BY DEF SetTxFee, asking
<1>2. CASE Stop(p) /\ UNCHANGED txfee
  BY <1>1, <1>2, WalletStops
<1>3. CASE /\ txfee' = IF wants[p].fee = 0 THEN txfee ELSE wants[p].fee
           /\ job' = [q \in Requested |->
                IF q = p THEN [job[p] EXCEPT !.at = "found"]
                ELSE IF wants[p].fee # 0 /\ job[q].at = "found"
                THEN [job[q] EXCEPT !.beside = @ \cup {p}] ELSE job[q]]
  <2>1. wants[p].fee \in Nat /\ txfee' \in Nat
    BY <1>3 DEF BroadcastTypes
  <2>2. ASSUME NEW q \in Requested
        PROVE  /\ job[q] \in Job /\ job[q].fate \in {"none", "moved"}
               /\ job[q].at # "sent" => job[q].fate = "none"
               /\ job[q].fate = "moved" => job[q].paid = wants[q].units
    BY <1>1 DEF BroadcastTypes, WalletInv
  <2>3. /\ job'[p] \in Job /\ job'[p].at = "found" /\ job'[p].fate = job[p].fate
        /\ job'[p].paid = job[p].paid
    BY <1>3, <2>2 DEF Job
  <2>4. ASSUME NEW q \in Requested, q # p, wants[p].fee # 0, job[q].at = "found"
        PROVE  /\ job'[q] \in Job /\ job'[q].at = "found" /\ job'[q].fate = job[q].fate
               /\ job'[q].paid = job[q].paid /\ p \in job'[q].beside
    <3>1. job'[q] = [job[q] EXCEPT !.beside = @ \cup {p}]
      BY <1>3, <2>4
    <3>2. ASSUME NEW j \in Job, NEW k, k = [j EXCEPT !.beside = @ \cup {p}]
          PROVE  k \in Job /\ k.at = j.at /\ k.fate = j.fate /\ k.paid = j.paid /\ p \in k.beside
      BY <3>2 DEF Job
    <3> QED BY <2>2, <2>4, <3>1, <3>2
  <2>5. ASSUME NEW q \in Requested, q # p, ~(wants[p].fee # 0 /\ job[q].at = "found")
        PROVE  job'[q] = job[q]
    BY <1>3, <2>5
  <2>6. job' \in [Requested -> Job]
    <3>1. \A q \in Requested : job'[q] \in Job
      BY <2>2, <2>3, <2>4, <2>5
    <3> QED BY <1>3, <3>1
  <2>7. BroadcastTypes'
    BY <1>1, <2>1, <2>6 DEF BroadcastTypes
  <2>8. ASSUME NEW q \in Requested
        PROVE  /\ job'[q].fate \in {"none", "moved"}
               /\ job'[q].at # "sent" => job'[q].fate = "none"
               /\ job'[q].fate = "moved" => job'[q].paid = wants[q].units
    BY <1>1, <2>2, <2>3, <2>4, <2>5
  <2>9. ASSUME NEW q \in Requested, wants[q].fee # 0
        PROVE  /\ job'[q].at = "found" => txfee' = wants[q].fee \/ job'[q].beside # {}
               /\ job'[q].at = "sent" => job'[q].rate = wants[q].fee \/ job'[q].beside # {}
    <3>1. CASE q = p
      BY <1>3, <2>3, <2>9, <3>1
    <3>2. CASE q # p /\ wants[p].fee # 0 /\ job[q].at = "found"
      BY <2>4, <3>2
    <3>3. CASE q # p /\ ~(wants[p].fee # 0 /\ job[q].at = "found")
      BY <1>1, <1>3, <2>5, <2>9, <3>3 DEF WalletInv
    <3> QED BY <3>1, <3>2, <3>3
  <2>10. WalletInv'
    BY <1>1, <2>8, <2>9 DEF WalletInv
  <2> QED BY <1>1, <2>7, <2>10 DEF OnChain
<1> QED BY <1>2, <1>3 DEF SetTxFee

(* hence by every step.                                                    *)
LEMMA WalletStep ==
  ASSUME BroadcastInv, ~OnChain, BroadcastsNext
  PROVE  BroadcastInv'
<1>1. CASE Block
  <2>1. UNCHANGED <<family, wants, queue, landed, txfee, job>> /\ block' = block + 1
        /\ coins' \in [Wallets -> Nat]
    BY <1>1 DEF Block, asking, BroadcastInv, BroadcastTypes
  <2>2. BroadcastTypes'
    BY <2>1 DEF BroadcastInv, BroadcastTypes
  <2> QED BY <2>1, <2>2 DEF BroadcastInv, WalletInv, OnChain
<1>2. ASSUME NEW t \in queue, Land(t) PROVE BroadcastInv'
  BY <1>2 DEF BroadcastInv, WalletInv
<1>3. ASSUME NEW p \in Requested, SetTxFee(p) PROVE BroadcastInv'
  BY <1>3, FeeKeeps
<1>4. ASSUME NEW p \in Requested PROVE wants[p].units \in Nat /\ wants[p].invoice \in Nat
  BY DEF BroadcastInv, BroadcastTypes
<1>5. ASSUME NEW p \in Requested, SendBitcoin(p) \/ SendXRP(p) PROVE BroadcastInv'
  <2>1. /\ UNCHANGED <<family, wants, queue, landed, block, txfee>>
        /\ job[p].at # "sent" /\ (family = "bitcoin" => job[p].at = "found")
        /\ WalletPays(p, wants[p].units) \/ (Stop(p) /\ UNCHANGED coins)
    BY <1>5 DEF SendBitcoin, SendXRP, asking
  <2> QED BY <1>4, <2>1, PayingKeeps, WalletStops
<1>6. ASSUME NEW p \in Requested, SendLightning(p) PROVE BroadcastInv'
  <2>1. /\ UNCHANGED <<family, wants, queue, landed, block, txfee>> /\ family = "lightning"
        /\ job[p].at # "sent"
        /\ WalletPays(p, wants[p].invoice) \/ (Stop(p) /\ UNCHANGED coins)
    BY <1>6 DEF SendLightning, asking
  <2> QED BY <1>4, <2>1, PayingKeeps, WalletStops
<1>7. ASSUME NEW p \in Requested, SendMonero(p) PROVE BroadcastInv'
  <2>1. /\ UNCHANGED <<family, wants, queue, landed, block, txfee>> /\ family = "monero"
        /\ job[p].at # "sent"
        /\ \/ WalletPays(p, IF wants[p].units >= job[p].read THEN coins[1] ELSE wants[p].units)
           \/ Stop(p) /\ UNCHANGED coins
    BY <1>7 DEF SendMonero, asking
  <2>2. coins[1] \in Nat /\ job[p].read \in Nat
    BY BroadcastsAssumption DEF BroadcastInv, BroadcastTypes, Job
  <2>3. CASE WalletPays(p, coins[1]) /\ job[p].read <= wants[p].units
    BY <2>1, <2>2, <2>3, PayingKeeps
  <2>4. CASE WalletPays(p, wants[p].units)
    BY <1>4, <2>1, <2>4, PayingKeeps
  <2> QED BY <1>4, <2>1, <2>2, <2>3, <2>4, WalletStops
<1>8. ASSUME NEW p \in Requested, ReadUnlocked(p) PROVE BroadcastInv'
  <2>1. /\ UNCHANGED <<family, wants, coins, queue, landed, block, txfee>>
        /\ family = "monero" /\ job[p].at = "asked"
        /\ job' = [job EXCEPT ![p].at = "found", ![p].read = coins[1]] \/ Stop(p)
    BY <1>8 DEF ReadUnlocked, asking, nodeSide
  <2>2. coins[1] \in Nat /\ job[p] \in Job /\ coins \in [Wallets -> Nat]
    BY BroadcastsAssumption DEF BroadcastInv, BroadcastTypes
  <2>3. CASE job' = [job EXCEPT ![p].at = "found", ![p].read = coins[1]]
    <3>1. PICK new : new = [job[p] EXCEPT !.at = "found", !.read = coins[1]]
      OBVIOUS
    <3>2. /\ new \in Job /\ new.at = "found" /\ new.fate = job[p].fate
          /\ new.paid = job[p].paid /\ new.read = coins[1]
      BY <2>2, <3>1 DEF Job
    <3>3. job' = [job EXCEPT ![p] = new]
      BY <2>3, <3>1
    <3>4. WalletJob(p, new)
      BY <2>1, <3>2 DEF WalletJob, BroadcastInv, WalletInv
    <3> QED BY <2>1, <2>2, <3>2, <3>3, <3>4, WalletKeeps
  <2> QED BY <2>1, <2>3, WalletStops
<1>9. \A p \in Requested : ~(FindEVMAccount(p) \/ FindSolanaAccount(p) \/ TakeNonce(p)
                             \/ TakeBlockhash(p) \/ SendEVM(p) \/ SendSolana(p))
  BY DEF OnChain, FindEVMAccount, FindSolanaAccount, TakeNonce, TakeBlockhash, SendEVM, SendSolana
<1> QED BY <1>1, <1>2, <1>3, <1>5, <1>6, <1>7, <1>8, <1>9 DEF BroadcastsNext

(* The invariant holds before the first request.                           *)
LEMMA BroadcastStarts == BroadcastsInit => BroadcastInv
<1> SUFFICES ASSUME BroadcastsInit PROVE BroadcastInv
  OBVIOUS
<1>1. \A p \in Requested : job[p] = Fresh
  BY DEF BroadcastsInit
<1>2. Fresh \in Job
  BY BroadcastsAssumption DEF Fresh, Job
<1>3. BroadcastTypes
  <2>1. wants \in [Requested -> [units : Nat, fee : Nat, invoice : Nat]]
    <3>1. wants \in [Requested -> [units : Units, fee : Fees, invoice : Units]]
      BY DEF BroadcastsInit
    <3>2. Units \subseteq Nat /\ Fees \subseteq Nat
      BY BroadcastsAssumption
    <3> QED BY <3>1, <3>2
  <2>2. coins \in [Wallets -> Nat] /\ landed \in [Wallets -> SUBSET Nat]
    BY DEF BroadcastsInit
  <2>3. job \in [Requested -> Job]
    BY <1>2 DEF BroadcastsInit
  <2> QED BY <2>1, <2>2, <2>3 DEF BroadcastTypes, BroadcastsInit
<1>4. queue = {} /\ \A a : QueueOf(a) = {}
  BY DEF BroadcastsInit, QueueOf
<1>5. Live = {}
  BY <1>1, <1>4 DEF Live, RequestsBy, Fresh
<1>6. ChainInv
  BY <1>1, <1>4, <1>5
  DEF Fresh, ChainInv, QueueIsTrue, MeetingsAreKept, NeighboursMet, CoveredUnlessMet, FatesExplained
<1>7. NonceInv
  <2>1. \A a \in Wallets : Taken(a) = {} /\ landed[a] = {}
    BY <1>4 DEF BroadcastsInit, Taken, TagsOf
  <2>2. {} = 0..(0 - 1)
    OBVIOUS
  <2>3. TagsFollow
    BY <1>4, <2>1, <2>2 DEF TagsFollow
  <2> QED BY <1>1, <2>3 DEF NonceInv, NoncesFollow, Fresh
<1>8. WalletInv
  BY <1>1, <1>4 DEF Fresh, WalletInv
<1> QED BY <1>3, <1>6, <1>7, <1>8 DEF BroadcastInv

(* Every step keeps it, on a chain and in a wallet.                        *)
LEMMA BroadcastStep == BroadcastInv /\ [BroadcastsNext]_broadcastVars => BroadcastInv'
<1>1. ASSUME BroadcastInv, UNCHANGED broadcastVars PROVE BroadcastInv'
  <2>1. UNCHANGED <<family, wants, coins, queue, landed, block, txfee, job>>
    BY <1>1 DEF broadcastVars
  <2>2. BroadcastTypes' /\ (OnChain' <=> OnChain)
    BY <1>1, <2>1 DEF BroadcastInv, BroadcastTypes, OnChain
  <2>3. OnChain => ChainInv'
    BY <1>1, <2>1 DEF BroadcastInv, ChainInv, QueueIsTrue, Transaction, MeetingsAreKept,
       NeighboursMet, CoveredUnlessMet, FatesExplained, Live, RequestsBy, Met, Beside
  <2>4. family = "evm" => NonceInv'
    BY <1>1, <2>1 DEF BroadcastInv, NonceInv, TagsFollow, NoncesFollow, Taken, TagsOf, QueueOf
  <2>5. ~OnChain => WalletInv'
    BY <1>1, <2>1 DEF BroadcastInv, WalletInv
  <2> QED BY <2>1, <2>2, <2>3, <2>4, <2>5 DEF BroadcastInv
<1> QED BY <1>1, ChainStep, WalletStep

(* It says what an answer means.                                           *)
LEMMA BroadcastInvImplies == BroadcastInv => SentMeansPaid
<1> SUFFICES ASSUME BroadcastInv, NEW p \in Requested, job[p].at = "sent"
             PROVE  /\ job[p].fate = "reverted" =>
                         Beside(p) \cup job[p].ahead \cup {q \in Requested : p \in job[q].ahead} # {}
                    /\ job[p].fate = "replaced" => Beside(p) # {}
                    /\ job[p].fate = "shared" =>
                         \E q \in Requested \ {p} : wants[q].units = wants[p].units
                                                    /\ job[q].tag = job[p].tag
                    /\ job[p].fate = "moved" /\ job[p].paid # wants[p].units =>
                         \/ family = "monero" /\ job[p].read <= wants[p].units
                         \/ family = "lightning"
                    /\ family = "bitcoin" /\ wants[p].fee \notin {0, job[p].rate}
                         => job[p].beside # {}
  BY DEF SentMeansPaid
<1>1. CASE OnChain
  BY <1>1 DEF BroadcastInv, ChainInv, FatesExplained, Met, OnChain
<1>2. CASE ~OnChain
  BY <1>2 DEF BroadcastInv, WalletInv
<1> QED BY <1>1, <1>2

(* A payout that was sent is paid as asked, on any chain: what goes        *)
(* wrong with it was met by it.  (the broadcasts of internal/chainworker)  *)
THEOREM SentPayoutsArePaid == BroadcastsSpec => []SentMeansPaid
<1> QED BY BroadcastStarts, BroadcastStep, BroadcastInvImplies, PTL DEF BroadcastsSpec

-----------------------------------------------------------------------------
(***************************************************************************)
(* The accounts of a worker (WorkerAccounts).                              *)
(***************************************************************************)
AccountRow == {AccountOf(o) : o \in OldRows} \cup [address : NewAddresses, coin : AllCoins, key : {"sealed"}]

AccountTypes ==
  /\ rows \in Seq(AccountRow) /\ DOMAIN old = 1..2 /\ Len(old) = 2 /\ (\A i \in 1..2 : old[i] \in OldRows)
  /\ importing \in [next : 0..2, through : BOOLEAN]

(* The coins the old worker knew an address by.                            *)
OldCoins(a) == {CoinOf(old[i]) : i \in OldAt(a)}

RowsAreSingle == \A i, j \in DOMAIN rows : rows[i].address = rows[j].address => i = j

RowsAreExplained ==
  \A i \in DOMAIN rows : \/ <<rows[i].address, rows[i].coin, rows[i].coin>> \in promised
                         \/ rows[i].coin \in OldCoins(rows[i].address)

(* An answered address has its row, under its coin unless it was another's *)
(* when answered or an import can have given it another.                   *)
PromisesHaveRows ==
  \A p \in promised : \E i \in DOMAIN rows :
    /\ rows[i].address = p[1]
    /\ rows[i].coin = p[2] \/ p[3] # p[2] \/ \E c \in OldCoins(p[1]) : c # p[2]

(* What an import has passed is in the table.                              *)
ImportedIsThere ==
  \A i \in DOMAIN old :
    old[i].key # "" /\ (importing.through \/ i < importing.next)
      => old[i].address \in AddressesOf(DOMAIN rows)

AccountsInv ==
  AccountTypes /\ RowsAreSingle /\ RowsAreExplained /\ PromisesHaveRows /\ ImportedIsThere

-----------------------------------------------------------------------------
(* A row is added, or takes the place of the row of its address.           *)
Stored(r) ==
  \/ r.address \notin AddressesOf(DOMAIN rows) /\ rows' = Append(rows, r)
  \/ /\ r.address \in AddressesOf(DOMAIN rows)
     /\ rows' = [i \in DOMAIN rows |-> IF rows[i].address = r.address THEN r ELSE rows[i]]

(* Storing a row adds it or puts it where its address was.                 *)
LEMMA StoredRows ==
  ASSUME AccountTypes, RowsAreSingle, NEW r \in AccountRow, Stored(r)
  PROVE  /\ rows' \in Seq(AccountRow) /\ RowsAreSingle' /\ DOMAIN rows \subseteq DOMAIN rows'
         /\ \E k \in DOMAIN rows' : rows'[k] = r
         /\ \A k \in DOMAIN rows' : rows'[k] # r => k \in DOMAIN rows /\ rows'[k] = rows[k]
         /\ \A k \in DOMAIN rows : \/ rows'[k] = rows[k]
                                   \/ rows'[k] = r /\ rows[k].address = r.address
<1>0. rows \in Seq(AccountRow)
  BY DEF AccountTypes
<1>1. CASE r.address \notin AddressesOf(DOMAIN rows) /\ rows' = Append(rows, r)
  <2>1. /\ rows' \in Seq(AccountRow) /\ DOMAIN rows = 1..Len(rows) /\ Len(rows) \in Nat
        /\ DOMAIN rows' = 1..(Len(rows) + 1) /\ rows'[Len(rows) + 1] = r
        /\ \A k \in 1..Len(rows) : rows'[k] = rows[k]
    BY <1>0, <1>1, AppendProperties, LenProperties
  <2>2. \A k \in DOMAIN rows : rows[k].address # r.address
    BY <1>1 DEF AddressesOf
  <2>3. \A k \in DOMAIN rows' : k \in DOMAIN rows \/ k = Len(rows) + 1
    BY <2>1
  <2>4. RowsAreSingle'
    BY <2>1, <2>2, <2>3 DEF RowsAreSingle
  <2> QED BY <2>1, <2>3, <2>4
<1>2. CASE /\ r.address \in AddressesOf(DOMAIN rows)
           /\ rows' = [i \in DOMAIN rows |-> IF rows[i].address = r.address THEN r ELSE rows[i]]
  <2>1. DOMAIN rows' = DOMAIN rows /\ DOMAIN rows = 1..Len(rows) /\ Len(rows) \in Nat
    BY <1>0, <1>2, LenProperties
  <2>2. rows' \in Seq(AccountRow)
    <3>1. \A k \in 1..Len(rows) : rows'[k] \in AccountRow
      BY <1>0, <1>2, <2>1, ElementOfSeq
    <3>2. rows' \in [1..Len(rows) -> AccountRow]
      BY <1>2, <2>1, <3>1
    <3> QED BY <2>1, <3>2, SeqDef
  <2>3. \A k \in DOMAIN rows : rows'[k].address = rows[k].address
    BY <1>2
  <2>4. RowsAreSingle'
    BY <2>1, <2>3 DEF RowsAreSingle
  <2>5. \E k \in DOMAIN rows' : rows'[k] = r
    BY <1>2, <2>1 DEF AddressesOf
  <2>6. \A k \in DOMAIN rows : \/ rows'[k] = rows[k]
                               \/ rows'[k] = r /\ rows[k].address = r.address
    BY <1>2
  <2> QED BY <2>1, <2>2, <2>4, <2>5, <2>6
<1> QED BY <1>1, <1>2 DEF Stored

(* Storing a row that is promised or was in the old table explains every   *)
(* row and keeps every promise that the old table does not break.          *)
LEMMA StoredKeeps ==
  ASSUME AccountsInv, NEW r \in AccountRow, Stored(r), UNCHANGED old, promised \subseteq promised',
         \/ r.address \notin AddressesOf(DOMAIN rows) /\ <<r.address, r.coin, r.coin>> \in promised'
         \/ r.coin \in OldCoins(r.address)
  PROVE  /\ RowsAreExplained' /\ AddressesOf(DOMAIN rows) \subseteq AddressesOf(DOMAIN rows)'
         /\ r.address \in AddressesOf(DOMAIN rows)'
         /\ \A p \in promised : \E i \in DOMAIN rows' :
              /\ rows'[i].address = p[1]
              /\ rows'[i].coin = p[2] \/ p[3] # p[2] \/ \E c \in OldCoins(p[1]) : c # p[2]
<1>1. /\ DOMAIN rows \subseteq DOMAIN rows'
      /\ \E k \in DOMAIN rows' : rows'[k] = r
      /\ \A k \in DOMAIN rows' : rows'[k] # r => k \in DOMAIN rows /\ rows'[k] = rows[k]
      /\ \A k \in DOMAIN rows : \/ rows'[k] = rows[k]
                                \/ rows'[k] = r /\ rows[k].address = r.address
  BY StoredRows DEF AccountsInv
<1>2. \A a : OldCoins(a)' = OldCoins(a)
  BY DEF OldCoins, OldAt, CoinOf
<1> HIDE DEF OldCoins
<1>3. RowsAreExplained'
  BY <1>1, <1>2 DEF AccountsInv, RowsAreExplained
<1>4. AddressesOf(DOMAIN rows) \subseteq AddressesOf(DOMAIN rows)'
      /\ r.address \in AddressesOf(DOMAIN rows)'
  BY <1>1 DEF AddressesOf
<1>5. ASSUME NEW p \in promised
      PROVE  \E i \in DOMAIN rows' :
               /\ rows'[i].address = p[1]
               /\ rows'[i].coin = p[2] \/ p[3] # p[2] \/ \E c \in OldCoins(p[1]) : c # p[2]
  <2>1. PICK i \in DOMAIN rows : /\ rows[i].address = p[1]
                                 /\ rows[i].coin = p[2] \/ p[3] # p[2] \/ \E c \in OldCoins(p[1]) : c # p[2]
    BY DEF AccountsInv, PromisesHaveRows
  <2>2. CASE rows'[i] = rows[i]
    BY <1>1, <2>1, <2>2
  <2>3. CASE rows'[i] = r /\ rows[i].address = r.address
    <3>1. rows'[i].address = p[1] /\ i \in DOMAIN rows' /\ rows'[i].coin = r.coin
      BY <1>1, <2>1, <2>3
    <3>2. CASE r.coin \in OldCoins(r.address)
      BY <2>1, <2>3, <3>1, <3>2
    <3>3. CASE r.address \notin AddressesOf(DOMAIN rows)
      BY <2>1, <2>3, <3>3 DEF AddressesOf
    <3> QED BY <3>2, <3>3
  <2> QED BY <1>1, <2>2, <2>3
<1> QED BY <1>3, <1>4, <1>5

(* An account that is generated keeps the invariant.                       *)
LEMMA GeneratedKeeps ==
  ASSUME AccountsInv, NEW c \in AllCoins, NEW a \in NewAddresses, NewAccount(c, a)
  PROVE  AccountsInv'
<1> DEFINE r == [address |-> a, coin |-> c, key |-> "sealed"]
<1>1. /\ a \notin AddressesOf(DOMAIN rows) /\ rows' = Append(rows, r)
      /\ promised' = promised \cup {<<a, c, c>>} /\ UNCHANGED <<old, importing>>
  BY DEF NewAccount, Answered
<1>2. r \in AccountRow /\ r.address = a /\ r.coin = c /\ Stored(r)
  BY <1>1 DEF AccountRow, Stored
<1> HIDE DEF r
<1>3. /\ rows' \in Seq(AccountRow) /\ RowsAreSingle' /\ \E k \in DOMAIN rows' : rows'[k] = r
  BY <1>2, StoredRows DEF AccountsInv
<1>4. /\ RowsAreExplained' /\ AddressesOf(DOMAIN rows) \subseteq AddressesOf(DOMAIN rows)'
      /\ \A p \in promised : \E i \in DOMAIN rows' :
           /\ rows'[i].address = p[1]
           /\ rows'[i].coin = p[2] \/ p[3] # p[2] \/ \E k \in OldCoins(p[1]) : k # p[2]
  BY <1>1, <1>2, StoredKeeps
<1>5. \E i \in DOMAIN rows' : rows'[i].address = <<a, c, c>>[1] /\ rows'[i].coin = <<a, c, c>>[2]
  BY <1>2, <1>3
<1>6. \A b : OldCoins(b)' = OldCoins(b)
  BY <1>1 DEF OldCoins, OldAt, CoinOf
<1> HIDE DEF OldCoins
<1>7. PromisesHaveRows'
  BY <1>1, <1>4, <1>5, <1>6 DEF PromisesHaveRows
<1>8. ImportedIsThere'
  BY <1>1, <1>4 DEF AccountsInv, ImportedIsThere
<1> QED BY <1>1, <1>3, <1>4, <1>7, <1>8 DEF AccountsInv, AccountTypes

(* So does a row that is imported.                                         *)
LEMMA ImportKeeps ==
  ASSUME AccountsInv, ImportRow
  PROVE  AccountsInv'
<1> DEFINE n == importing.next
           r == AccountOf(old[n])
<1>1. /\ n \in 1..2 /\ UNCHANGED <<old, promised>>
      /\ importing' = [next |-> IF n = 2 THEN 0 ELSE n + 1, through |-> importing.through \/ n = 2]
      /\ rows' = IF r.key = "" THEN rows ELSE UpsertAccount(r)
  BY DEF ImportRow, AccountsInv, AccountTypes
<1>2. r.address = old[n].address /\ r.coin = CoinOf(old[n]) /\ (r.key = "" <=> old[n].key = "")
  BY DEF AccountOf, KeyOf
<1>3. r \in AccountRow
  BY <1>1 DEF AccountRow, AccountsInv, AccountTypes
<1>4. \A b : OldCoins(b)' = OldCoins(b)
  BY <1>1 DEF OldCoins, OldAt, CoinOf
<1>5. /\ rows' \in Seq(AccountRow) /\ RowsAreSingle' /\ RowsAreExplained' /\ PromisesHaveRows'
      /\ AddressesOf(DOMAIN rows) \subseteq AddressesOf(DOMAIN rows)'
      /\ old[n].key # "" => old[n].address \in AddressesOf(DOMAIN rows)'
  <2>1. CASE r.key = ""
    <3>1. UNCHANGED rows
      BY <1>1, <2>1
    <3> HIDE DEF OldCoins, n, r
    <3>2. RowsAreSingle' /\ RowsAreExplained'
      BY <1>1, <1>4, <3>1 DEF AccountsInv, RowsAreSingle, RowsAreExplained
    <3>3. PromisesHaveRows'
      BY <1>1, <1>4, <3>1 DEF AccountsInv, PromisesHaveRows
    <3> QED BY <1>2, <2>1, <3>1, <3>2, <3>3 DEF AccountsInv, AccountTypes, AddressesOf
  <2>2. CASE r.key # ""
    <3>1. Stored(r)
      BY <1>1, <2>2 DEF Stored, UpsertAccount
    <3>2. r.coin \in OldCoins(r.address)
      <4>1. n \in OldAt(r.address)
        BY <1>1, <1>2, <2>2 DEF OldAt, AccountsInv, AccountTypes
      <4> QED BY <1>2, <4>1 DEF OldCoins
    <3> HIDE DEF n, r
    <3>3. rows' \in Seq(AccountRow) /\ RowsAreSingle'
      BY <1>3, <3>1, StoredRows DEF AccountsInv
    <3>4. /\ RowsAreExplained' /\ AddressesOf(DOMAIN rows) \subseteq AddressesOf(DOMAIN rows)'
          /\ r.address \in AddressesOf(DOMAIN rows)'
          /\ \A p \in promised : \E i \in DOMAIN rows' :
               /\ rows'[i].address = p[1]
               /\ rows'[i].coin = p[2] \/ p[3] # p[2] \/ \E k \in OldCoins(p[1]) : k # p[2]
      BY <1>1, <1>3, <3>1, <3>2, StoredKeeps
    <3> HIDE DEF OldCoins
    <3>5. PromisesHaveRows'
      BY <1>1, <1>4, <3>4 DEF PromisesHaveRows
    <3> QED BY <1>2, <3>3, <3>4, <3>5
  <2> QED BY <2>1, <2>2
<1>6. ImportedIsThere'
  <2> SUFFICES ASSUME NEW i \in DOMAIN old, old[i].key # "", importing'.through \/ i < importing'.next
               PROVE  old[i].address \in AddressesOf(DOMAIN rows)'
    BY <1>1 DEF ImportedIsThere
  <2>0. i \in 1..2 /\ n \in 1..2 /\ importing'.next = IF n = 2 THEN 0 ELSE n + 1
    BY <1>1 DEF AccountsInv, AccountTypes
  <2>5. importing'.through <=> (importing.through \/ n = 2)
    BY <1>1
  <2> HIDE DEF n
  <2>6. n = 2 \/ i < importing'.next => i <= n
    BY ONLY <2>0
  <2>1. importing.through \/ i <= n
    BY <2>5, <2>6
  <2>2. CASE i = n
    BY <1>5, <2>2
  <2>3. CASE importing.through \/ i < n
    <3>1. old[i].address \in AddressesOf(DOMAIN rows)
      BY <2>3 DEF AccountsInv, ImportedIsThere, n
    <3> QED BY <1>5, <3>1
  <2>4. i <= n => i = n \/ i < n
    BY ONLY <2>0
  <2> QED BY <2>1, <2>2, <2>3, <2>4
<1>7. importing' \in [next : 0..2, through : BOOLEAN]
  <2>1. importing.through \in BOOLEAN
    BY DEF AccountsInv, AccountTypes
  <2>2. \A k \in 1..2 : (IF k = 2 THEN 0 ELSE k + 1) \in 0..2
    OBVIOUS
  <2>3. (importing.through \/ n = 2) \in BOOLEAN
    BY <2>1
  <2> QED BY <1>1, <2>2, <2>3
<1> QED BY <1>1, <1>5, <1>6, <1>7 DEF AccountsInv, AccountTypes

(* Every step keeps it.                                                    *)
LEMMA AccountsStep == AccountsInv /\ [AccountsNext]_accountVars => AccountsInv'
<1> SUFFICES ASSUME AccountsInv, [AccountsNext]_accountVars PROVE AccountsInv'
  OBVIOUS
<1>1. ASSUME NEW c \in AllCoins, NEW a \in NewAddresses, NewAccount(c, a) PROVE AccountsInv'
  BY <1>1, GeneratedKeeps
<1>2. CASE ImportRow
  BY <1>2, ImportKeeps
<1>3. ASSUME UNCHANGED <<rows, old>>, promised' = promised,
             importing' \in [next : 0..2, through : BOOLEAN],
             importing'.through = importing.through, importing'.next <= 1
      PROVE  AccountsInv'
  <2>1. \A b : OldCoins(b)' = OldCoins(b) /\ AddressesOf(DOMAIN rows)' = AddressesOf(DOMAIN rows)
    BY <1>3 DEF OldCoins, OldAt, CoinOf, AddressesOf
  <2> HIDE DEF OldCoins, AddressesOf
  <2>2. AccountTypes' /\ RowsAreSingle' /\ RowsAreExplained' /\ PromisesHaveRows'
    BY <1>3, <2>1
    DEF AccountsInv, AccountTypes, RowsAreSingle, RowsAreExplained, PromisesHaveRows
  <2>3. ImportedIsThere'
    <3> SUFFICES ASSUME NEW i \in DOMAIN old, old[i].key # "",
                        importing'.through \/ i < importing'.next
                 PROVE  old[i].address \in AddressesOf(DOMAIN rows)
      BY <1>3, <2>1 DEF ImportedIsThere
    <3>1. i \in 1..2 /\ importing'.next \in 0..2 /\ importing'.next <= 1
      BY <1>3 DEF AccountsInv, AccountTypes
    <3>2. ~(i < importing'.next)
      BY ONLY <3>1
    <3>3. importing.through
      BY <1>3, <3>2
    <3> QED BY <3>3 DEF AccountsInv, ImportedIsThere
  <2> QED BY <2>2, <2>3 DEF AccountsInv
<1>0. ASSUME UNCHANGED <<rows, old, importing, promised>> PROVE AccountsInv'
  <2>1. \A b : OldCoins(b)' = OldCoins(b) /\ AddressesOf(DOMAIN rows)' = AddressesOf(DOMAIN rows)
    BY <1>0 DEF OldCoins, OldAt, CoinOf, AddressesOf
  <2> HIDE DEF OldCoins, AddressesOf
  <2>2. AccountTypes' /\ RowsAreSingle' /\ RowsAreExplained' /\ PromisesHaveRows'
    BY <1>0, <2>1
    DEF AccountsInv, AccountTypes, RowsAreSingle, RowsAreExplained, PromisesHaveRows
  <2>3. ImportedIsThere'
    BY <1>0, <2>1 DEF AccountsInv, ImportedIsThere
  <2> QED BY <2>2, <2>3 DEF AccountsInv
<1>4. ASSUME NEW c \in AllCoins, NEW a \in NewAddresses, AddressOfWallet(c, a) PROVE AccountsInv'
  <2>1. PICK i \in DOMAIN rows : /\ rows[i].address = a /\ UNCHANGED <<rows, old, importing>>
                                 /\ promised' = promised \cup {<<a, c, rows[i].coin>>}
    BY <1>4 DEF AddressOfWallet, Answered
  <2>2. \A b : OldCoins(b)' = OldCoins(b) /\ AddressesOf(DOMAIN rows)' = AddressesOf(DOMAIN rows)
    BY <2>1 DEF OldCoins, OldAt, CoinOf, AddressesOf
  <2> HIDE DEF OldCoins, AddressesOf
  <2>3. AccountTypes' /\ RowsAreSingle' /\ RowsAreExplained'
    BY <2>1, <2>2 DEF AccountsInv, AccountTypes, RowsAreSingle, RowsAreExplained
  <2>4. ImportedIsThere'
    BY <2>1, <2>2 DEF AccountsInv, ImportedIsThere
  <2>5. PromisesHaveRows'
    <3> DEFINE new == <<a, c, rows[i].coin>>
    <3>1. new[1] = a /\ new[2] = c /\ new[3] = rows[i].coin /\ promised' = promised \cup {new}
      BY <2>1
    <3> HIDE DEF new
    <3> QED BY <2>1, <2>2, <3>1 DEF AccountsInv, PromisesHaveRows
  <2> QED BY <2>3, <2>4, <2>5 DEF AccountsInv
<1>5. CASE StartImport \/ ImportStops
  <2>1. UNCHANGED <<rows, old, promised>>
        /\ \E k \in {0, 1} : importing' = [importing EXCEPT !.next = k]
    BY <1>5 DEF StartImport, ImportStops
  <2>2. /\ importing' \in [next : 0..2, through : BOOLEAN]
        /\ importing'.through = importing.through /\ importing'.next <= 1
    BY <2>1 DEF AccountsInv, AccountTypes
  <2> QED BY <1>3, <2>1, <2>2
<1>6. CASE UNCHANGED accountVars
  BY <1>0, <1>6 DEF accountVars
<1> QED BY <1>1, <1>2, <1>4, <1>5, <1>6 DEF AccountsNext

(* It holds of the empty table.                                            *)
LEMMA AccountsStart == AccountsInit => AccountsInv
<1> SUFFICES ASSUME AccountsInit PROVE AccountsInv
  OBVIOUS
<1>1. PICK x \in OldRows, y \in OldRows : old = <<x, y>>
  BY DEF AccountsInit
<1>2. DOMAIN old = 1..2 /\ Len(old) = 2 /\ \A i \in 1..2 : old[i] \in OldRows
  BY <1>1
<1>3. rows = <<>> /\ promised = {} /\ importing = [next |-> 0, through |-> FALSE]
  BY DEF AccountsInit
<1>4. rows \in Seq(AccountRow) /\ DOMAIN rows = {}
  BY <1>3
<1> QED BY <1>2, <1>3, <1>4 DEF AccountsInv, AccountTypes, RowsAreSingle, RowsAreExplained,
                                PromisesHaveRows, ImportedIsThere

-----------------------------------------------------------------------------
(* An address has one position.                                            *)
LEMMA PositionIsOnly ==
  ASSUME RowsAreSingle, NEW i \in DOMAIN rows
  PROVE  Position(rows[i].address) = i
BY DEF Position, RowsAreSingle

(* A row that its coin does not list has as many newer ones as the list    *)
(* holds.                                                                  *)
LEMMA CountedOrOld ==
  ASSUME AccountsInv, NEW i \in DOMAIN rows
  PROVE  \/ rows[i].address \in Counted(rows[i].coin)
         \/ Cardinality(Newer(rows[i].address)) >= Newest
<1> DEFINE c  == rows[i].coin
           on == {j \in OfCoin(c) : j > i}
<1>1. Newer(rows[i].address) = on
  BY PositionIsOnly DEF AccountsInv, Newer
<1>2. i \in OfCoin(c)
  BY DEF OfCoin
<1>3. Cardinality(on) \in Nat
  <2>1. DOMAIN rows = 1..Len(rows) /\ Len(rows) \in Nat
    BY LenProperties DEF AccountsInv, AccountTypes
  <2>2. IsFiniteSet(DOMAIN rows)
    BY <2>1, FS_Interval
  <2>3. IsFiniteSet(on)
    BY <2>2, FS_Subset DEF OfCoin
  <2> QED BY <2>3, FS_CardinalityType
<1>4. Newest \in Nat
  BY AccountsAssumption
<1>5. CASE Cardinality(on) < Newest
  <2>1. i \in Listed(OfCoin(c))
    BY <1>2, <1>5 DEF Listed
  <2>2. Counted(c) = AddressesOf(Listed(OfCoin(c)))
    BY <1>2 DEF Counted
  <2> QED BY <2>1, <2>2 DEF AddressesOf
<1>6. CASE Cardinality(on) >= Newest
  BY <1>1, <1>6
<1> QED BY <1>3, <1>4, <1>5, <1>6

(* The invariant says that an answered address stays.                      *)
LEMMA AccountsInvImplies == AccountsInv => AnsweredStaysOwned
<1> SUFFICES ASSUME AccountsInv PROVE AnsweredStaysOwned
  OBVIOUS
<1>1. ASSUME NEW p \in promised
      PROVE  \/ p[1] \in Counted(p[2])
             \/ p[3] # p[2]
             \/ \E i \in OldAt(p[1]) : CoinOf(old[i]) # p[2]
             \/ Cardinality(Newer(p[1])) >= Newest
  <2>1. PICK i \in DOMAIN rows : /\ rows[i].address = p[1]
                                 /\ rows[i].coin = p[2] \/ p[3] # p[2] \/ \E c \in OldCoins(p[1]) : c # p[2]
    BY DEF AccountsInv, PromisesHaveRows
  <2>2. CASE rows[i].coin = p[2]
    BY <2>1, <2>2, CountedOrOld
  <2>3. CASE \E c \in OldCoins(p[1]) : c # p[2]
    BY <2>3 DEF OldCoins
  <2> QED BY <2>1, <2>2, <2>3
<1>2. ASSUME importing.through, NEW k \in DOMAIN old, old[k].key # ""
      PROVE  /\ old[k].address \in AddressesOf(DOMAIN rows)
             /\ \/ rows[Position(old[k].address)].coin
                     \in {CoinOf(old[j]) : j \in OldAt(old[k].address)}
                \/ LET c == rows[Position(old[k].address)].coin
                   IN <<old[k].address, c, c>> \in promised
  <2>1. old[k].address \in AddressesOf(DOMAIN rows)
    BY <1>2 DEF AccountsInv, ImportedIsThere
  <2>2. PICK i \in DOMAIN rows : rows[i].address = old[k].address
    BY <2>1 DEF AddressesOf
  <2>3. Position(old[k].address) = i
    BY <2>2, PositionIsOnly DEF AccountsInv
  <2>4. \/ <<rows[i].address, rows[i].coin, rows[i].coin>> \in promised
        \/ rows[i].coin \in OldCoins(rows[i].address)
    BY DEF AccountsInv, RowsAreExplained
  <2> QED BY <2>1, <2>2, <2>3, <2>4 DEF OldCoins
<1> QED BY <1>1, <1>2 DEF AnsweredStaysOwned, AccountsInv, RowsAreSingle

(* An address the worker answered stays its own, and an import that went   *)
(* through is complete, however often it stopped and whatever was generated*)
(* meanwhile.  (generateAddress, UpsertAccount, importLegacyAccountRows)   *)
THEOREM AnsweredAddressesStay == AccountsSpec => []AnsweredStaysOwned
<1> QED BY AccountsStart, AccountsStep, AccountsInvImplies, PTL DEF AccountsSpec

-----------------------------------------------------------------------------
(* What the workers answer about transactions.                             *)

(* What the model sums up, for answers and movements that are given.       *)
Told(told, a, category) == {r \in told : r.address = a /\ r.category = category}
SumTold(told, a, category) ==
  Total([r \in Told(told, a, category) |-> r.units], Told(told, a, category))
Into(a)  == {i \in DOMAIN moves \ inner : moves[i].of = asset /\ moves[i].to = a}
OutOf(a) == {i \in DOMAIN moves : moves[i].of = asset /\ moves[i].from = a}
SumMoved(J) == Total([i \in J |-> moves[i].units], J)
Gain(a) == SumMoved(Into(a)) - SumMoved(OutOf(a)) - Charged(a)

(* The sums of the model are the ones that the lemmas speak of.            *)
LEMMA SumsAreTotals ==
  /\ \A a, category : SumOf(a, category) = SumTold(answer, a, category)
  /\ \A a : In(a) = SumMoved(Into(a)) /\ Out(a) = SumMoved(OutOf(a))
<1>1. ASSUME NEW J PROVE MapThenSumSet(LAMBDA i : moves[i].units, J) = SumMoved(J)
  BY DEF SumMoved, Total, MapThenSumSet, MapThenFoldSet
<1>2. ASSUME NEW J
      PROVE  MapThenSumSet(LAMBDA r : r.units, J) = Total([r \in J |-> r.units], J)
  BY DEF Total, MapThenSumSet, MapThenFoldSet
<1>3. \A a, category : SumOf(a, category) = SumTold(answer, a, category)
  BY <1>2 DEF SumOf, SumTold, Told
<1>4. \A a : In(a) = SumMoved(Into(a)) /\ Out(a) = SumMoved(OutOf(a))
  BY <1>1 DEF In, Out, Into, OutOf
<1> QED BY <1>3, <1>4

TransferTypes ==
  /\ ledger \in Ledgers /\ asset \in Assets /\ fails \in BOOLEAN
  /\ moves \in Seq(Movements) /\ Len(moves) \in {1, 2}
  /\ inner \in SUBSET DOMAIN moves
  /\ head \in Nat /\ mined \in Nat /\ mined <= head
  /\ asked \in [at : {"no", "latest", "answered"}, latest : Nat, seen : BOOLEAN]
  /\ asked.latest <= head

(* Only tokens are asked for among other movements, but on Solana, and on  *)
(* three chains a payment is a transaction of its own.                     *)
MovesAreOfOneAsset ==
  /\ ledger \notin WithTokens => asset = "coin"
  /\ ledger \in OnePayment => Len(moves) = 1
  /\ asset # "coin" \/ ledger \notin {"evm", "tron"} => inner = {}
  /\ ledger = "evm" /\ asset = "coin" => DOMAIN moves \ inner \subseteq {1}
  /\ ledger # "solana" /\ asset = "coin" => \A i \in DOMAIN moves : moves[i].of = "coin"

ToldIsReceived ==
  asked.at = "answered" /\ asked.seen /\ ~fails => \A a \in Own :
    /\ ledger \in {"evm", "tron", "bitcoin"} =>
         SumTold(answer, a, "receive") = SumMoved(Into(a))
    /\ ledger \in {"xrp", "lightning"} /\ named = moves[1].units =>
         SumTold(answer, a, "receive") = SumMoved(Into(a))
    /\ ledger = "monero" /\ moves[1].from \notin Own =>
         SumTold(answer, a, "receive") = SumMoved(Into(a))
    /\ ledger = "solana" /\ (asset = "coin" => a \notin loaded) =>
         SumTold(answer, a, "receive") - SumTold(answer, a, "send") = Gain(a)

ConfirmationsAreTrue ==
  asked.at = "answered" =>
    /\ asked.seen => mined # 0
    /\ \A r \in answer : r.confirmations \in Int /\ (r.confirmations > 0 =>
         /\ asked.seen /\ (ledger # "lightning" => r.confirmations <= head - mined + 1)
         /\ ~fails \/ (ledger \in {"evm", "tron"} /\ asset = "coin"))

TransferInv == TransferTypes /\ MovesAreOfOneAsset /\ ToldIsReceived /\ ConfirmationsAreTrue

-----------------------------------------------------------------------------
(* Movements are finitely many, of natural numbers of units.               *)
LEMMA SomeMoves ==
  ASSUME TransferTypes, NEW J \in SUBSET DOMAIN moves
  PROVE  /\ IsFiniteSet(J) /\ \A i \in J : moves[i].units \in Nat
         /\ \A i \in J : moves[i] \in Movements
<1>1. DOMAIN moves = 1..Len(moves) /\ Len(moves) \in Nat
  BY DEF TransferTypes
<1>2. IsFiniteSet(1..Len(moves))
  BY <1>1, FS_Interval
<1>3. \A i \in J : moves[i] \in Movements
  BY <1>1 DEF TransferTypes
<1> QED BY <1>1, <1>2, <1>3, FS_Subset, TransfersAssumption DEF Movements

(* Rows that show one movement each add up to what has moved.              *)
LEMMA RowsAddUp ==
  ASSUME TransferTypes, NEW J \in SUBSET DOMAIN moves, NEW b,
         \A i \in J : b[i].units = moves[i].units /\ b[i].nr = i,
         NEW told, NEW a, NEW category, Told(told, a, category) = {b[i] : i \in J}
  PROVE  SumTold(told, a, category) = SumMoved(J)
<1> DEFINE R == {b[i] : i \in J}
           f == [i \in J |-> moves[i].units]
           h == [r \in R |-> r.units]
<1>1. IsFiniteSet(J) /\ \A i \in J : f[i] \in Nat
  BY SomeMoves
<1>2. \A i, j \in J : b[i] = b[j] => i = j
  OBVIOUS
<1>3. \A i \in J : h[b[i]] = f[i]
  OBVIOUS
<1>4. Total(h, {b[i] : i \in J}) = Total(f, J)
  <2> HIDE DEF f, h
  <2> QED BY <1>1, <1>2, <1>3, TotalRenamed
<1> QED BY <1>4 DEF SumTold, SumMoved

(* The rows named by receivers add up to what these have received.         *)
LEMMA ShownAddUp ==
  ASSUME TransferTypes, NEW I \in SUBSET DOMAIN moves, NEW c, NEW a \in Own
  PROVE  SumTold(RowsOf(I, c), a, "receive") = SumMoved({i \in I : moves[i].to = a})
<1> DEFINE J == {i \in I : moves[i].to = a}
           b == [i \in J |-> Row(i, moves[i].to, moves[i].units,
                                 Category(moves[i].from \in Own, moves[i].to \in Own), c)]
<1>1. \A i \in J : b[i].units = moves[i].units /\ b[i].nr = i
  BY DEF Row
<1>2. Told(RowsOf(I, c), a, "receive") = {b[i] : i \in J}
  <2> DEFINE row(i) == Row(i, moves[i].to, moves[i].units,
                           Category(moves[i].from \in Own, moves[i].to \in Own), c)
  <2>1. \A i : row(i).address = moves[i].to /\ (moves[i].to = a => row(i).category = "receive")
    BY DEF Row, Category
  <2>2. \A r : r \in RowsOf(I, c) <=> r.category # "" /\ \E i \in I : r = row(i)
    BY DEF RowsOf
  <2>3. \A i \in J : b[i] = row(i)
    OBVIOUS
  <2> DEFINE T == Told(RowsOf(I, c), a, "receive")
  <2> HIDE DEF row, b
  <2>4. ASSUME NEW r \in T PROVE \E i \in J : r = b[i]
    <3>1. r \in RowsOf(I, c) /\ r.address = a
      BY DEF Told
    <3>2. PICK i \in I : r = row(i)
      BY <2>2, <3>1
    <3> QED BY <2>1, <2>3, <3>1, <3>2
  <2>5. ASSUME NEW i \in J PROVE b[i] \in T
    <3>1. row(i).address = a /\ row(i).category = "receive"
      BY <2>1
    <3>2. row(i) \in RowsOf(I, c)
      BY <2>2, <3>1
    <3> QED BY <2>3, <3>1, <3>2 DEF Told
  <2> HIDE DEF T
  <2>6. T = {b[i] : i \in J}
    BY <2>4, <2>5
  <2> QED BY <2>6 DEF T
<1> HIDE DEF b
<1> QED BY <1>1, <1>2, RowsAddUp

(* So do the rows of a wallet that lists both sides.                       *)
LEMMA BitcoinAddsUp ==
  ASSUME TransferTypes, NEW c, NEW a \in Own
  PROVE  SumTold(BitcoinRows(c), a, "receive") = SumMoved({i \in DOMAIN moves : moves[i].to = a})
<1> DEFINE J == {i \in DOMAIN moves : moves[i].to = a}
           b == [i \in J |-> Row(i, moves[i].to, moves[i].units, "receive", c)]
<1>1. \A i \in J : b[i].units = moves[i].units /\ b[i].nr = i
  BY DEF Row
<1>2. Told(BitcoinRows(c), a, "receive") = {b[i] : i \in J}
  <2> DEFINE row(i, category) == Row(i, moves[i].to, moves[i].units, category, c)
  <2>1. \A i, category : row(i, category).address = moves[i].to
                         /\ row(i, category).category = category
    BY DEF Row
  <2>2. \A r : r \in BitcoinRows(c) <=>
               \/ \E i \in DOMAIN moves : moves[i].from \in Own /\ r = row(i, "send")
               \/ \E i \in DOMAIN moves : moves[i].to \in Own /\ r = row(i, "receive")
    BY DEF BitcoinRows
  <2>3. \A i \in J : b[i] = row(i, "receive")
    OBVIOUS
  <2> HIDE DEF row, b
  <2> QED BY <2>1, <2>2, <2>3 DEF Told
<1> HIDE DEF b
<1> QED BY <1>1, <1>2, RowsAddUp

(* A single row that says what was received.                               *)
LEMMA OneRowAddsUp ==
  ASSUME TransferTypes, Len(moves) = 1, NEW c, NEW a
  PROVE  SumTold({Row(1, moves[1].to, moves[1].units, "receive", c)}, a, "receive") =
           SumMoved({i \in DOMAIN moves : moves[i].to = a})
<1> DEFINE J == {i \in DOMAIN moves : moves[i].to = a}
           b == [i \in J |-> Row(1, moves[1].to, moves[1].units, "receive", c)]
<1>1. DOMAIN moves = {1}
  BY DEF TransferTypes
<1>2. \A i \in J : b[i].units = moves[i].units /\ b[i].nr = i
  BY <1>1 DEF Row
<1>3. Told({Row(1, moves[1].to, moves[1].units, "receive", c)}, a, "receive") = {b[i] : i \in J}
  <2> DEFINE row == Row(1, moves[1].to, moves[1].units, "receive", c)
  <2>1. row.address = moves[1].to /\ row.category = "receive"
    BY DEF Row
  <2>2. \A i \in J : b[i] = row /\ i = 1
    BY <1>1
  <2>3. 1 \in J <=> moves[1].to = a
    BY <1>1
  <2> HIDE DEF row, b, J
  <2>4. Told({row}, a, "receive") = {b[i] : i \in J}
    BY <2>1, <2>2, <2>3 DEF Told
  <2> QED BY <2>4 DEF row
<1>4. J \in SUBSET DOMAIN moves
  OBVIOUS
<1> DEFINE told == {Row(1, moves[1].to, moves[1].units, "receive", c)}
<1>5. Told(told, a, "receive") = {b[i] : i \in J}
  BY <1>3
<1>6. \A i \in J : b[i].units = moves[i].units /\ b[i].nr = i
  BY <1>2
<1> HIDE DEF b, J, told
<1>7. SumTold(told, a, "receive") = SumMoved(J)
  BY <1>4, <1>5, <1>6, RowsAddUp
<1> QED BY <1>7 DEF told, J

(* Sums of none and of one.                                                *)
LEMMA SmallSums ==
  ASSUME NEW told, NEW a, NEW category
  PROVE  /\ Told(told, a, category) = {} => SumTold(told, a, category) = 0
         /\ \A r : Told(told, a, category) = {r} /\ r.units \in Nat =>
              SumTold(told, a, category) = r.units
<1>1. \A f : Total(f, {}) = 0
  BY TotalStep, FS_EmptySet
<1>2. ASSUME NEW r, NEW f, f[r] \in Nat PROVE Total(f, {r}) = f[r]
  <2>1. Total(f, {} \cup {r}) = Total(f, {}) + f[r] 
    BY <1>2, TotalAdd, FS_EmptySet
  <2>2. {} \cup {r} = {r}
    OBVIOUS
  <2> QED BY <1>1, <1>2, <2>1, <2>2
<1>3. ASSUME NEW r, Told(told, a, category) = {r}, r.units \in Nat
      PROVE  SumTold(told, a, category) = r.units
  <2> DEFINE f == [q \in {r} |-> q.units]
  <2>1. f[r] = r.units
    OBVIOUS
  <2>2. SumTold(told, a, category) = Total(f, {r})
    BY <1>3 DEF SumTold
  <2> HIDE DEF f
  <2> QED BY <1>2, <1>3, <2>1, <2>2
<1> QED BY <1>1, <1>3 DEF SumTold

(* What an account gains is a number, the one the model has.               *)
LEMMA GainIsInt ==
  ASSUME TransferTypes, NEW a
  PROVE  Gain(a) \in Int /\ Delta(a) = Gain(a)
<1>1. ASSUME NEW J \in SUBSET DOMAIN moves PROVE SumMoved(J) \in Nat
  <2> DEFINE f == [i \in J |-> moves[i].units]
  <2>1. IsFiniteSet(J) /\ \A i \in J : f[i] \in Nat
    BY SomeMoves
  <2> HIDE DEF f
  <2>2. Total(f, J) \in Nat
    BY <2>1, TotalIsNat
  <2> QED BY <2>2 DEF SumMoved, f
<1>2. SumMoved(Into(a)) \in Nat /\ SumMoved(OutOf(a)) \in Nat
  BY <1>1 DEF Into, OutOf
<1> QED BY <1>2, SumsAreTotals DEF Gain, Delta, Charged, NetworkFee

(* A change of balance as one row.                                         *)
LEMMA BalancesAddUp ==
  ASSUME TransferTypes, NEW accounts, NEW latest, NEW a \in accounts
  PROVE  SumTold(ByBalance(accounts, latest), a, "receive")
           - SumTold(ByBalance(accounts, latest), a, "send") = Gain(a)
<1> DEFINE d == Gain(a)
           c == Confirmations(latest, mined)
           told == ByBalance(accounts, latest)
           T(category) == Told(told, a, category)
<1>1. d \in Int /\ Delta(a) = d
  BY GainIsInt
<1>2. told = {Row(0, b, IF Delta(b) > 0 THEN Delta(b) ELSE -Delta(b),
                  IF Delta(b) > 0 THEN "receive" ELSE "send", c) : b \in {x \in accounts : Delta(x) # 0}}
  BY DEF ByBalance
<1> HIDE DEF told, d, c
<1>3. CASE d = 0
  <2>1. T("receive") = {} /\ T("send") = {}
    BY <1>1, <1>2, <1>3 DEF Told, Row
  <2> QED BY <1>3, <2>1, SmallSums DEF told, d
<1>4. CASE d > 0
  <2> DEFINE r == Row(0, a, d, "receive", c)
  <2>1. T("receive") = {r} /\ T("send") = {} /\ r.units = d
    BY <1>1, <1>2, <1>4 DEF Told, Row
  <2>2. SumTold(told, a, "send") = 0
    BY <2>1, SmallSums
  <2>3. SumTold(told, a, "receive") = d
    <3> HIDE DEF r
    <3> QED BY <1>1, <1>4, <2>1, SmallSums
  <2> QED BY <1>1, <2>2, <2>3 DEF told, d
<1>5. CASE d < 0
  <2> DEFINE r == Row(0, a, -d, "send", c)
  <2>1. T("send") = {r} /\ T("receive") = {} /\ r.units = -d
    BY <1>1, <1>2, <1>5 DEF Told, Row
  <2>2. SumTold(told, a, "receive") = 0
    BY <2>1, SmallSums
  <2>3. SumTold(told, a, "send") = -d
    <3> HIDE DEF r
    <3> QED BY <1>1, <1>5, <2>1, SmallSums
  <2> QED BY <1>1, <2>2, <2>3 DEF told, d
<1> QED BY <1>1, <1>3, <1>4, <1>5

-----------------------------------------------------------------------------
(* What a row shows of how deep the transaction is.                        *)
LEMMA RowsShow ==
  ASSUME NEW c
  PROVE  /\ \A I : \A r \in RowsOf(I, c) : r.confirmations = c
         /\ \A r \in BitcoinRows(c) : r.confirmations = c
         /\ RowsOf({}, c) = {}
         /\ \A i, a, n, category : Row(i, a, n, category, c).confirmations = c
<1>1. \A i, a, n, category : Row(i, a, n, category, c).confirmations = c
  BY DEF Row
<1>2. ASSUME NEW I, NEW r \in RowsOf(I, c) PROVE r.confirmations = c
  BY <1>1, <1>2 DEF RowsOf
<1>3. ASSUME NEW r \in BitcoinRows(c) PROVE r.confirmations = c
  BY <1>1, <1>3 DEF BitcoinRows
<1>4. RowsOf({}, c) = {}
  BY DEF RowsOf
<1> QED BY <1>1, <1>2, <1>3, <1>4

(* Confirmations counted from an earlier newest block are there.           *)
LEMMA ConfirmedIsDeep ==
  ASSUME TransferTypes, NEW latest \in Nat, latest <= head
  PROVE  /\ Confirmations(latest, mined) \in Int
         /\ Confirmations(latest, mined) > 0 =>
              mined # 0 /\ Confirmations(latest, mined) <= head - mined + 1
BY DEF Confirmations, TransferTypes

(* What has moved depends on the question only.                            *)
LEMMA SameQuestion ==
  ASSUME UNCHANGED question
  PROVE  \A a : SumMoved(Into(a))' = SumMoved(Into(a)) /\ Gain(a)' = Gain(a)
BY DEF question, SumMoved, Into, OutOf, Gain, Charged, NetworkFee

(* What an answer must be for the invariant to hold after it.              *)
TrueAnswer(told) ==
  /\ \A r \in told : r.confirmations \in Int /\ (r.confirmations > 0 =>
       /\ mined # 0 /\ (ledger # "lightning" => r.confirmations <= head - mined + 1)
       /\ ~fails \/ (ledger \in {"evm", "tron"} /\ asset = "coin"))
  /\ mined # 0 /\ ~fails => \A a \in Own :
       /\ ledger \in {"evm", "tron", "bitcoin"} =>
            SumTold(told, a, "receive") = SumMoved(Into(a))
       /\ ledger \in {"xrp", "lightning"} /\ named = moves[1].units =>
            SumTold(told, a, "receive") = SumMoved(Into(a))
       /\ ledger = "monero" /\ moves[1].from \notin Own =>
            SumTold(told, a, "receive") = SumMoved(Into(a))
       /\ ledger = "solana" /\ (asset = "coin" => a \notin loaded) =>
            SumTold(told, a, "receive") - SumTold(told, a, "send") = Gain(a)

(* An answer that is true establishes the invariant.                       *)
LEMMA TrueAnswersDo ==
  ASSUME TransferInv, NEW told, TrueAnswer(told), Answers(told)
  PROVE  TransferInv'
<1>1. /\ answer' = told /\ asked' = [asked EXCEPT !.at = "answered", !.seen = mined # 0]
      /\ UNCHANGED <<ledger, asset, moves, fails, inner, named, loaded, head, mined>>
  BY DEF Answers, question
<1>2. /\ TransferTypes /\ MovesAreOfOneAsset
      /\ asked \in [at : {"no", "latest", "answered"}, latest : Nat, seen : BOOLEAN]
  BY DEF TransferInv, TransferTypes
<1>3. asked'.at = "answered" /\ asked'.seen = (mined # 0) /\ asked'.latest = asked.latest
  BY <1>1, <1>2
<1>4. TransferTypes'
  BY <1>1, <1>2 DEF TransferTypes
<1>5. MovesAreOfOneAsset'
  BY <1>1, <1>2 DEF MovesAreOfOneAsset
<1>6. \A a : SumMoved(Into(a))' = SumMoved(Into(a)) /\ Gain(a)' = Gain(a)
  BY <1>1, SameQuestion DEF question
<1>7. \A a, category : SumTold(answer, a, category)' = SumTold(told, a, category)
  BY <1>1 DEF SumTold, Told
<1>8. ToldIsReceived'
  BY <1>1, <1>3, <1>6, <1>7 DEF ToldIsReceived, TrueAnswer
<1>9. ConfirmationsAreTrue'
  BY <1>1, <1>3 DEF ConfirmationsAreTrue, TrueAnswer
<1> QED BY <1>4, <1>5, <1>8, <1>9 DEF TransferInv

-----------------------------------------------------------------------------
(* The invariant holds before the question.                                *)
LEMMA TransfersStart == TransfersInit => TransferInv
<1> SUFFICES ASSUME TransfersInit PROVE TransferInv
  OBVIOUS
<1>1. moves \in Seq(Movements) /\ Len(moves) \in {1, 2}
  <2>1. \A m \in Movements : <<m>> \in Seq(Movements) /\ Len(<<m>>) = 1
    OBVIOUS
  <2>2. \A m, n \in Movements : <<m, n>> \in Seq(Movements) /\ Len(<<m, n>>) = 2
    OBVIOUS
  <2>3. CASE moves \in {<<m>> : m \in Movements}
    BY <2>1, <2>3
  <2>4. CASE moves \in Movements \X Movements
    <3>1. PICK m \in Movements, n \in Movements : moves = <<m, n>>
      BY <2>4
    <3> QED BY <2>2, <3>1
  <2> QED BY <2>3, <2>4 DEF TransfersInit
<1>2. TransferTypes
  BY <1>1, TransfersAssumption DEF TransfersInit, TransferTypes, Carried
<1>3. MovesAreOfOneAsset
  BY DEF TransfersInit, MovesAreOfOneAsset, Carried, OnePayment
<1>4. ToldIsReceived /\ ConfirmationsAreTrue
  BY DEF TransfersInit, ToldIsReceived, ConfirmationsAreTrue
<1> QED BY <1>2, <1>3, <1>4 DEF TransferInv

(* Blocks that are added keep answers true.                                *)
LEMMA BlocksKeepAnswers == TransferInv /\ NewBlock => TransferInv'
<1> SUFFICES ASSUME TransferInv, NewBlock PROVE TransferInv'
  OBVIOUS
<1>1. /\ head' = head + 1 /\ mined' \in IF mined = 0 THEN {0, head + 1} ELSE {mined}
      /\ UNCHANGED <<ledger, asset, moves, fails, inner, named, loaded, asked, answer>>
  BY DEF NewBlock, question
<1>2. TransferTypes /\ MovesAreOfOneAsset /\ ToldIsReceived /\ ConfirmationsAreTrue
  BY DEF TransferInv
<1>3. TransferTypes'
  <2>1. head' \in Nat /\ mined' \in Nat /\ mined' <= head' /\ asked'.latest <= head'
    BY <1>1, <1>2 DEF TransferTypes
  <2> QED BY <1>1, <1>2, <2>1 DEF TransferTypes
<1>4. MovesAreOfOneAsset'
  BY <1>1, <1>2 DEF MovesAreOfOneAsset
<1>5. ToldIsReceived'
  <2>1. \A a : SumMoved(Into(a))' = SumMoved(Into(a)) /\ Gain(a)' = Gain(a)
    BY <1>1, SameQuestion DEF question
  <2>2. \A a, category : SumTold(answer, a, category)' = SumTold(answer, a, category)
    BY <1>1 DEF SumTold, Told
  <2> QED BY <1>1, <1>2, <2>1, <2>2 DEF ToldIsReceived
<1>6. ConfirmationsAreTrue'
  <2>1. head \in Nat /\ mined \in Nat
    BY <1>2 DEF TransferTypes
  <2>2. mined # 0 => mined' = mined
    BY <1>1
  <2> SUFFICES ASSUME asked.at = "answered"
               PROVE  /\ asked.seen => mined' # 0
                      /\ \A r \in answer : r.confirmations \in Int /\ (r.confirmations > 0 =>
                           /\ asked.seen
                           /\ ledger # "lightning" => r.confirmations <= head' - mined' + 1
                           /\ ~fails \/ (ledger \in {"evm", "tron"} /\ asset = "coin"))
    BY <1>1 DEF ConfirmationsAreTrue
  <2>3. asked.seen => mined # 0 /\ mined' = mined
    BY <1>2, <2>2 DEF ConfirmationsAreTrue
  <2> QED BY <1>1, <1>2, <2>1, <2>3 DEF ConfirmationsAreTrue
<1> QED BY <1>3, <1>4, <1>5, <1>6 DEF TransferInv

(* Asking for the newest block answers nothing.                            *)
LEMMA QuestionsAreAsked == TransferInv /\ AskLatest => TransferInv'
<1> SUFFICES ASSUME TransferInv, AskLatest PROVE TransferInv'
  OBVIOUS
<1>1. /\ asked' = [asked EXCEPT !.at = "latest", !.latest = head]
      /\ UNCHANGED <<ledger, asset, moves, fails, inner, named, loaded, head, mined, answer>>
  BY DEF AskLatest, question
<1>2. TransferTypes /\ MovesAreOfOneAsset
  BY DEF TransferInv
<1>3. asked'.at = "latest" /\ TransferTypes'
  <2>1. /\ asked \in [at : {"no", "latest", "answered"}, latest : Nat, seen : BOOLEAN]
        /\ head \in Nat
    BY <1>2 DEF TransferTypes
  <2>2. /\ asked'.at = "latest" /\ asked'.latest = head
        /\ asked' \in [at : {"no", "latest", "answered"}, latest : Nat, seen : BOOLEAN]
    BY <1>1, <2>1
  <2>3. asked'.latest <= head'
    BY <1>1, <2>1, <2>2
  <2> QED BY <1>1, <1>2, <2>2, <2>3 DEF TransferTypes
<1>4. MovesAreOfOneAsset'
  BY <1>1, <1>2 DEF MovesAreOfOneAsset
<1>5. ToldIsReceived' /\ ConfirmationsAreTrue'
  BY <1>3 DEF ToldIsReceived, ConfirmationsAreTrue
<1> QED BY <1>3, <1>4, <1>5 DEF TransferInv

(* A payment of its own is the movement that brings something.             *)
LEMMA AloneIsAll ==
  ASSUME TransferTypes, MovesAreOfOneAsset, ledger \in OnePayment, NEW a
  PROVE  /\ DOMAIN moves = {1} /\ Len(moves) = 1
         /\ Into(a) = {i \in {1} : moves[i].to = a}
<1>1. /\ Len(moves) = 1 /\ asset = "coin" /\ inner = {}
      /\ \A i \in DOMAIN moves : moves[i].of = "coin"
  BY DEF MovesAreOfOneAsset, OnePayment, WithTokens
<1>2. DOMAIN moves = {1}
  BY <1>1 DEF TransferTypes
<1> QED BY <1>1, <1>2 DEF Into

(* The rows of the movements of the chains that name them by receivers.    *)
LEMMA LogsAddUp ==
  ASSUME TransferTypes, inner = {}, NEW c, NEW a \in Own, mined # 0, ~fails
  PROVE  SumTold(RowsOf(Logs, c), a, "receive") = SumMoved(Into(a))
<1>1. Logs \in SUBSET DOMAIN moves /\ {i \in Logs : moves[i].to = a} = Into(a)
  BY DEF Logs, Into
<1> QED BY <1>1, ShownAddUp

(* So do those of what a transaction moves itself, when all is coin.       *)
LEMMA CoinsAddUp ==
  ASSUME TransferTypes, asset = "coin", \A i \in DOMAIN moves : moves[i].of = "coin",
         NEW c, NEW a \in Own
  PROVE  SumTold(RowsOf(DOMAIN moves \ inner, c), a, "receive") = SumMoved(Into(a))
<1>1. Into(a) = {i \in DOMAIN moves \ inner : moves[i].to = a}
  BY DEF Into
<1>2. DOMAIN moves \ inner \in SUBSET DOMAIN moves
  OBVIOUS
<1> QED BY <1>1, <1>2, ShownAddUp

(* An EVM worker answers truly: by the transaction for the coin, by its    *)
(* logs for a token.                                                       *)
LEMMA EVMIsTrue == TransferInv /\ AskEVM => TransferInv'
<1> SUFFICES ASSUME TransferInv, AskEVM PROVE TransferInv'
  OBVIOUS
<1> DEFINE c == Confirmations(asked.latest, mined)
           told == IF asset = "coin" THEN RowsOf({1} \ inner, c) ELSE RowsOf(Logs, c)
<1>1. TransferTypes /\ MovesAreOfOneAsset /\ ledger = "evm" /\ Answers(told)
  BY DEF TransferInv, AskEVM, EVMNative, EVMToken
<1>2. c \in Int /\ (c > 0 => mined # 0 /\ c <= head - mined + 1)
  <2>1. asked.latest \in Nat /\ asked.latest <= head
    BY <1>1 DEF TransferTypes
  <2> QED BY <1>1, <2>1, ConfirmedIsDeep
<1> HIDE DEF c
<1>3. \A r \in told : r.confirmations = c
  BY RowsShow
<1>4. fails /\ asset # "coin" => told = {}
  BY RowsShow DEF Logs
<1>5. mined # 0 /\ ~fails => \A a \in Own : SumTold(told, a, "receive") = SumMoved(Into(a))
  <2>1. CASE asset = "coin"
    <3>1. /\ DOMAIN moves \ inner \subseteq {1}
          /\ \A i \in DOMAIN moves : moves[i].of = "coin"
      BY <1>1, <2>1 DEF MovesAreOfOneAsset
    <3>2. 1 \in DOMAIN moves
      BY <1>1 DEF TransferTypes
    <3>3. {1} \ inner = DOMAIN moves \ inner
      BY <3>1, <3>2
    <3> QED BY <1>1, <2>1, <3>1, <3>3, CoinsAddUp
  <2>2. CASE asset # "coin"
    <3>1. inner = {}
      BY <1>1, <2>2 DEF MovesAreOfOneAsset
    <3> QED BY <1>1, <2>2, <3>1, LogsAddUp
  <2> QED BY <2>1, <2>2
<1> HIDE DEF told
<1>6. TrueAnswer(told)
  BY <1>1, <1>2, <1>3, <1>4, <1>5 DEF TrueAnswer
<1> QED BY <1>1, <1>6, TrueAnswersDo

(* So does a TRON worker.                                                  *)
LEMMA TRONIsTrue == TransferInv /\ AskTRON => TransferInv'
<1> SUFFICES ASSUME TransferInv, AskTRON PROVE TransferInv'
  OBVIOUS
<1> DEFINE c == Confirmations(asked.latest, mined)
           told == IF asset = "coin" THEN RowsOf(DOMAIN moves \ inner, c) ELSE RowsOf(Logs, c)
<1>1. TransferTypes /\ MovesAreOfOneAsset /\ ledger = "tron" /\ Answers(told)
  BY DEF TransferInv, AskTRON, TRONNative, TRONToken
<1>2. c \in Int /\ (c > 0 => mined # 0 /\ c <= head - mined + 1)
  <2>1. asked.latest \in Nat /\ asked.latest <= head
    BY <1>1 DEF TransferTypes
  <2> QED BY <1>1, <2>1, ConfirmedIsDeep
<1> HIDE DEF c
<1>3. \A r \in told : r.confirmations = c
  BY RowsShow
<1>4. fails /\ asset # "coin" => told = {}
  BY RowsShow DEF Logs
<1>5. mined # 0 /\ ~fails => \A a \in Own : SumTold(told, a, "receive") = SumMoved(Into(a))
  <2>1. CASE asset = "coin"
    <3>1. \A i \in DOMAIN moves : moves[i].of = "coin"
      BY <1>1, <2>1 DEF MovesAreOfOneAsset
    <3> QED BY <1>1, <2>1, <3>1, CoinsAddUp
  <2>2. CASE asset # "coin"
    <3>1. inner = {}
      BY <1>1, <2>2 DEF MovesAreOfOneAsset
    <3> QED BY <1>1, <2>2, <3>1, LogsAddUp
  <2> QED BY <2>1, <2>2
<1> HIDE DEF told
<1>6. TrueAnswer(told)
  BY <1>1, <1>2, <1>3, <1>4, <1>5 DEF TrueAnswer
<1> QED BY <1>1, <1>6, TrueAnswersDo

(* So does a Solana worker, by the change of balances.                     *)
LEMMA SolanaIsTrue == TransferInv /\ AskSolana => TransferInv'
<1> SUFFICES ASSUME TransferInv, AskSolana PROVE TransferInv'
  OBVIOUS
<1> DEFINE c == Confirmations(asked.latest, mined)
           accounts == IF asset = "coin" THEN Own \ loaded ELSE Own
           told == ByBalance(accounts, asked.latest)
<1>1. /\ TransferTypes /\ ledger = "solana" /\ mined # 0 /\ ~fails /\ Answers(told)
  BY DEF TransferInv, AskSolana, SolanaNative, SolanaToken
<1>2. c \in Int /\ (c > 0 => mined # 0 /\ c <= head - mined + 1)
  <2>1. asked.latest \in Nat /\ asked.latest <= head
    BY <1>1 DEF TransferTypes
  <2> QED BY <1>1, <2>1, ConfirmedIsDeep
<1>3. \A r \in told : r.confirmations = c
  BY DEF ByBalance, Row
<1>4. \A a \in Own : (asset = "coin" => a \notin loaded) =>
        SumTold(told, a, "receive") - SumTold(told, a, "send") = Gain(a)
  <2>1. \A a \in Own : (asset = "coin" => a \notin loaded) => a \in accounts
    OBVIOUS
  <2> HIDE DEF accounts
  <2> QED BY <1>1, <2>1, BalancesAddUp
<1> HIDE DEF told, c
<1>5. TrueAnswer(told)
  BY <1>1, <1>2, <1>3, <1>4 DEF TrueAnswer
<1> QED BY <1>1, <1>5, TrueAnswersDo

(* So does an XRP worker, with or without the newest ledger.               *)
LEMMA XRPIsTrue == TransferInv /\ AskXRP => TransferInv'
<1> SUFFICES ASSUME TransferInv, AskXRP PROVE TransferInv'
  OBVIOUS
<1>1. /\ TransferTypes /\ MovesAreOfOneAsset /\ ledger = "xrp" /\ (fails => mined = 0)
      /\ asset = "coin"
  BY DEF TransferInv, AskXRP, MovesAreOfOneAsset, WithTokens
<1>2. PICK c \in {Confirmations(head, mined), IF mined = 0 THEN 0 ELSE 1} :
        XRPRow(c).category # "" /\ Answers({XRPRow(c)})
  BY DEF AskXRP
<1>3. c \in Int /\ (c > 0 => mined # 0 /\ c <= head - mined + 1)
  <2>1. head \in Nat /\ mined \in Nat /\ head <= head /\ mined <= head
    BY <1>1 DEF TransferTypes
  <2>2. CASE c = Confirmations(head, mined)
    BY <1>1, <2>1, <2>2, ConfirmedIsDeep
  <2>3. CASE c = IF mined = 0 THEN 0 ELSE 1
    BY <2>1, <2>3
  <2> QED BY <1>2, <2>2, <2>3
<1> DEFINE told == {XRPRow(c)}
<1>4. \A r \in told : r.confirmations = c
  BY DEF XRPRow, Row
<1>5. named = moves[1].units => \A a \in Own : SumTold(told, a, "receive") = SumMoved(Into(a))
  <2> SUFFICES ASSUME named = moves[1].units, NEW a \in Own
               PROVE  SumTold(told, a, "receive") = SumMoved(Into(a))
    OBVIOUS
  <2>1. told = RowsOf({1}, c)
    BY <1>2 DEF RowsOf, XRPRow
  <2>2. DOMAIN moves = {1} /\ inner = {} /\ \A i \in DOMAIN moves : moves[i].of = "coin"
    BY <1>1, AloneIsAll DEF MovesAreOfOneAsset, OnePayment
  <2>3. RowsOf({1}, c) = RowsOf(DOMAIN moves \ inner, c)
    BY <2>2
  <2> HIDE DEF told
  <2> QED BY <1>1, <2>1, <2>2, <2>3, CoinsAddUp
<1>6. Answers(told)
  BY <1>2
<1> HIDE DEF told
<1>7. TrueAnswer(told)
  BY <1>1, <1>3, <1>4, <1>5 DEF TrueAnswer
<1> QED BY <1>6, <1>7, TrueAnswersDo

(* So does a Bitcoin wallet, whose conflicts have -1.                      *)
LEMMA BitcoinIsTrue == TransferInv /\ AskBitcoin => TransferInv'
<1> SUFFICES ASSUME TransferInv, AskBitcoin PROVE TransferInv'
  OBVIOUS
<1> DEFINE c == IF fails THEN -1 ELSE Confirmations(head, mined)
           told == BitcoinRows(c)
<1>1. /\ TransferTypes /\ ledger = "bitcoin" /\ asset = "coin" /\ Answers(told)
      /\ inner = {} /\ \A i \in DOMAIN moves : moves[i].of = "coin"
  BY DEF TransferInv, AskBitcoin, MovesAreOfOneAsset, WithTokens
<1>2. c \in Int /\ (c > 0 => mined # 0 /\ ~fails /\ c <= head - mined + 1)
  <2>1. head \in Nat /\ head <= head
    BY <1>1 DEF TransferTypes
  <2> QED BY <1>1, <2>1, ConfirmedIsDeep
<1> HIDE DEF c
<1>3. \A r \in told : r.confirmations = c
  BY RowsShow
<1>4. ASSUME NEW a \in Own PROVE SumTold(told, a, "receive") = SumMoved(Into(a))
  <2>1. Into(a) = {i \in DOMAIN moves : moves[i].to = a}
    BY <1>1 DEF Into
  <2> QED BY <1>1, <2>1, BitcoinAddsUp
<1> HIDE DEF told
<1>5. TrueAnswer(told)
  BY <1>1, <1>2, <1>3, <1>4 DEF TrueAnswer
<1> QED BY <1>1, <1>5, TrueAnswersDo

(* So does a Monero wallet, for what it has not sent itself.               *)
LEMMA MoneroIsTrue == TransferInv /\ AskMonero => TransferInv'
<1> SUFFICES ASSUME TransferInv, AskMonero PROVE TransferInv'
  OBVIOUS
<1> DEFINE c == IF fails THEN 0 ELSE Confirmations(head, mined)
           told == MoneroRows
<1>1. /\ TransferTypes /\ MovesAreOfOneAsset /\ ledger = "monero" /\ asset = "coin"
      /\ Answers(told)
  BY DEF TransferInv, AskMonero, MovesAreOfOneAsset, WithTokens
<1>2. c \in Int /\ (c > 0 => mined # 0 /\ ~fails /\ c <= head - mined + 1)
  <2>1. head \in Nat /\ head <= head
    BY <1>1 DEF TransferTypes
  <2> QED BY <1>1, <2>1, ConfirmedIsDeep
<1>3. \A r \in told : r.confirmations = c
  BY DEF MoneroRows, Row
<1>4. ASSUME mined # 0, ~fails, moves[1].from \notin Own, NEW a \in Own
      PROVE  SumTold(told, a, "receive") = SumMoved(Into(a))
  <2>1. told = {Row(1, moves[1].to, moves[1].units, "receive", c)}
    BY <1>4 DEF MoneroRows, MoneroCategory
  <2>2. Len(moves) = 1 /\ Into(a) = {i \in DOMAIN moves : moves[i].to = a}
    BY <1>1, AloneIsAll DEF OnePayment
  <2> HIDE DEF told, c
  <2> QED BY <1>1, <2>1, <2>2, OneRowAddsUp
<1> HIDE DEF told, c
<1>5. TrueAnswer(told)
  BY <1>1, <1>2, <1>3, <1>4 DEF TrueAnswer
<1> QED BY <1>1, <1>5, TrueAnswersDo

(* So does a Lightning node, with LND's answer or without.                 *)
LEMMA LightningIsTrue == TransferInv /\ AskLightning => TransferInv'
<1> SUFFICES ASSUME TransferInv, AskLightning PROVE TransferInv'
  OBVIOUS
<1>1. PICK current \in BOOLEAN : Answers(LightningRows(current))
  BY DEF AskLightning
<1> DEFINE c == IF current /\ mined # 0 /\ ~fails THEN 999 ELSE 0
           told == {Row(1, moves[1].to, named, "receive", c)}
<1>2. /\ TransferTypes /\ MovesAreOfOneAsset /\ ledger = "lightning" /\ asset = "coin"
      /\ Answers(told)
  BY <1>1 DEF TransferInv, AskLightning, MovesAreOfOneAsset, WithTokens, LightningRows, Settled
<1>3. c \in Int /\ (c > 0 => mined # 0 /\ ~fails)
  OBVIOUS
<1>4. \A r \in told : r.confirmations = c
  BY DEF Row
<1>5. ASSUME NEW a \in Own, named = moves[1].units
      PROVE  SumTold(told, a, "receive") = SumMoved(Into(a))
  <2>1. Len(moves) = 1 /\ Into(a) = {i \in DOMAIN moves : moves[i].to = a}
    BY <1>2, AloneIsAll DEF OnePayment
  <2> HIDE DEF c
  <2> QED BY <1>2, <1>5, <2>1, OneRowAddsUp
<1> HIDE DEF told, c
<1>6. TrueAnswer(told)
  BY <1>2, <1>3, <1>4, <1>5 DEF TrueAnswer
<1> QED BY <1>2, <1>6, TrueAnswersDo

(* Every step keeps the invariant.                                         *)
LEMMA TransfersStep == TransferInv /\ [TransfersNext]_transferVars => TransferInv'
<1>1. TransferInv /\ UNCHANGED transferVars => TransferInv'
  <2> SUFFICES ASSUME TransferInv, UNCHANGED transferVars PROVE TransferInv'
    OBVIOUS
  <2>1. UNCHANGED <<ledger, asset, moves, fails, inner, named, loaded, head, mined, asked, answer>>
    BY DEF transferVars
  <2>2. \A a : SumMoved(Into(a))' = SumMoved(Into(a)) /\ Gain(a)' = Gain(a)
    BY <2>1, SameQuestion DEF question
  <2>3. \A a, category : SumTold(answer, a, category)' = SumTold(answer, a, category)
    BY <2>1 DEF SumTold, Told
  <2>4. TransferTypes' /\ MovesAreOfOneAsset'
    BY <2>1 DEF TransferInv, TransferTypes, MovesAreOfOneAsset
  <2>5. ToldIsReceived'
    BY <2>1, <2>2, <2>3 DEF TransferInv, ToldIsReceived
  <2>6. ConfirmationsAreTrue'
    BY <2>1 DEF TransferInv, ConfirmationsAreTrue
  <2> QED BY <2>4, <2>5, <2>6 DEF TransferInv
<1> QED
  BY <1>1, BlocksKeepAnswers, QuestionsAreAsked, EVMIsTrue, TRONIsTrue, SolanaIsTrue, XRPIsTrue,
     BitcoinIsTrue, MoneroIsTrue, LightningIsTrue DEF TransfersNext

(* Whatever the chain, however its blocks are added while the worker asks, *)
(* and whatever a transaction moves: once it is in a block and did not     *)
(* fail, the rows that the worker answers add up to what the transaction   *)
(* brought its accounts of the asked coin, and no row claims confirmations *)
(* that are not there.  Left out is what ReportedIsReceived leaves out: the*)
(* coin that contracts move, partial payments of XRP, Lightning invoices   *)
(* paid with more, and three cases more.  (transfersByTx)                  *)
THEOREM ReportsAreTrue == TransfersSpec => []ReportedIsReceived
<1>1. TransferInv => ReportedIsReceived
  <2> SUFFICES ASSUME TransferInv PROVE ReportedIsReceived
    OBVIOUS
  <2>1. TransferTypes /\ ToldIsReceived /\ ConfirmationsAreTrue
    BY DEF TransferInv
  <2>2. \A a : /\ In(a) = SumMoved(Into(a)) /\ Delta(a) = Gain(a)
               /\ \A category : SumOf(a, category) = SumTold(answer, a, category)
    BY <2>1, SumsAreTotals, GainIsInt
  <2> QED BY <2>1, <2>2 DEF ToldIsReceived, ConfirmationsAreTrue, ReportedIsReceived
<1> QED BY <1>1, TransfersStart, TransfersStep, PTL DEF TransfersSpec

----------------------------------------------------------------------------
(* What is written for the chains.  A recursive definition is met through  *)
(* the equation it satisfies, and a claim about all numbers or lengths by  *)
(* the smallest one for which it would fail.                               *)

(* The bases of the formats: 256 and 58.                                   *)
Bases == Nat \ {0, 1}

(* A set of numbers has a smallest one.                                    *)
LEMMA SmallestNumber ==
  ASSUME NEW T \in SUBSET Nat, T # {}
  PROVE  \E m \in T : \A k \in T : m <= k
<1> DEFINE R == {ss \in Nat \X Nat : ss[1] < ss[2]}
<1>1. IsWellFoundedOn(R, Nat)
  BY NatLessThanWellFounded DEF OpToRel
<1>2. \E m \in T : \A k \in T : <<k, m>> \notin R
  <2> HIDE DEF R
  <2> QED BY <1>1, WFMin
<1>3. PICK m \in T : \A k \in T : <<k, m>> \notin R
  BY <1>2
<1>4. ASSUME NEW k \in T PROVE m <= k
  <2>1. <<k, m>> \in Nat \X Nat /\ <<k, m>>[1] = k /\ <<k, m>>[2] = m
    OBVIOUS
  <2>2. ~(k < m)
    BY <1>3, <2>1
  <2> QED BY <2>1, <2>2
<1> QED BY <1>4

(* What a digit leaves of a number is smaller than the number.             *)
LEMMA DivisionIs ==
  ASSUME NEW base \in Bases, NEW k \in Nat
  PROVE  /\ k \div base \in Nat /\ k % base \in 0..(base - 1)
         /\ k = (k \div base) * base + (k % base)
         /\ k > 0 => k \div base < k
BY DEF Bases

(* A number made of a quotient and a digit is taken apart again.           *)
LEMMA DivisionGives ==
  ASSUME NEW base \in Bases, NEW v \in Nat, NEW d \in 0..(base - 1)
  PROVE  /\ v * base + d \in Nat
         /\ (v * base + d) \div base = v /\ (v * base + d) % base = d
         /\ v > 0 \/ d > 0 => v * base + d > 0
<1>1. v * base \in Nat /\ (v > 0 => v * base > 0)
  BY DEF Bases
<1> QED BY <1>1 DEF Bases

----------------------------------------------------------------------------
(* The function that Digits defines by recursion, as an equation it        *)
(* satisfies.                                                              *)
DigitsRule(base, n, d) ==
  [k \in 0..n |-> IF k = 0 THEN <<>> ELSE Append(d[k \div base], k % base)]
DigitsUpTo(base, n) == CHOOSE d : d = DigitsRule(base, n, d)

(* The digits of a number do not depend on how far they are tabulated.     *)
LEMMA DigitsAgree ==
  ASSUME NEW base \in Bases, NEW n \in Nat, NEW m \in 0..n, NEW d, NEW e,
         d = DigitsRule(base, n, d), e = DigitsRule(base, m, e), NEW j \in 0..m
  PROVE  d[j] = e[j]
<1> DEFINE T == {k \in 0..m : d[k] # e[k]}
<1> SUFFICES ASSUME T # {} PROVE FALSE
  OBVIOUS
<1>1. PICK k \in T : \A i \in T : k <= i
  <2>1. T \in SUBSET Nat
    OBVIOUS
  <2> HIDE DEF T
  <2> QED BY <2>1, SmallestNumber
<1>2. k \in 0..m /\ k \in 0..n /\ d[k] # e[k]
  OBVIOUS
<1>3. d[k] = IF k = 0 THEN <<>> ELSE Append(d[k \div base], k % base)
  BY <1>2 DEF DigitsRule
<1>4. e[k] = IF k = 0 THEN <<>> ELSE Append(e[k \div base], k % base)
  BY <1>2 DEF DigitsRule
<1>5. k # 0 => k \div base \in 0..m /\ k \div base < k
  BY <1>2, DivisionIs
<1>6. k # 0 => d[k \div base] = e[k \div base]
  BY <1>1, <1>2, <1>5
<1> QED BY <1>2, <1>3, <1>4, <1>6

(* There is a table of digits up to any number.                            *)
LEMMA DigitsExist ==
  ASSUME NEW base \in Bases, NEW n \in Nat
  PROVE  DigitsUpTo(base, n) = DigitsRule(base, n, DigitsUpTo(base, n))
<1> DEFINE T == {m \in Nat : ~ \E d : d = DigitsRule(base, m, d)}
<1> SUFFICES ASSUME T # {} PROVE FALSE
  BY DEF DigitsUpTo
<1>1. PICK m \in T : \A i \in T : m <= i
  <2>1. T \in SUBSET Nat
    OBVIOUS
  <2> HIDE DEF T
  <2> QED BY <2>1, SmallestNumber
<1>2. m # 0
  <2> DEFINE d == [k \in 0..0 |-> <<>>]
  <2>1. d = DigitsRule(base, 0, d)
    BY DEF DigitsRule
  <2> QED BY <2>1
<1>3. m - 1 \in Nat /\ m - 1 \notin T
  BY <1>1, <1>2
<1>4. PICK e : e = DigitsRule(base, m - 1, e)
  BY <1>3
<1> DEFINE d == [k \in 0..m |-> IF k = m THEN Append(e[m \div base], m % base) ELSE e[k]]
<1>5. d = DigitsRule(base, m, d)
  <2>1. ASSUME NEW k \in 0..m
        PROVE  d[k] = IF k = 0 THEN <<>> ELSE Append(d[k \div base], k % base)
    <3>1. k # 0 => k \div base \in 0..m /\ k \div base # m
      BY DivisionIs
    <3>2. k # 0 => d[k \div base] = e[k \div base]
      BY <3>1
    <3>3. CASE k = m
      BY <3>2, <3>3, <1>2
    <3>4. CASE k # m
      <4>1. k \in 0..(m - 1)
        BY <3>4
      <4>2. e[k] = IF k = 0 THEN <<>> ELSE Append(e[k \div base], k % base)
        BY <4>1, <1>4 DEF DigitsRule
      <4> QED BY <3>2, <3>4, <4>2
    <3> QED BY <3>3, <3>4
  <2> HIDE DEF d
  <2>2. d = [k \in 0..m |-> d[k]]
    BY DEF d
  <2> QED BY <2>1, <2>2 DEF DigitsRule
<1> QED BY <1>5

(* Digits, number by number.                                               *)
LEMMA DigitsAre ==
  ASSUME NEW base \in Bases, NEW n \in Nat
  PROVE  /\ Digits(0, base) = <<>>
         /\ n > 0 => Digits(n, base) = Append(Digits(n \div base, base), n % base)
<1>1. ASSUME NEW k \in Nat
      PROVE  Digits(k, base) = DigitsUpTo(base, k)[k]
  BY DEF Digits, DigitsUpTo, DigitsRule
<1>2. ASSUME NEW k \in Nat
      PROVE  Digits(k, base) =
               IF k = 0 THEN <<>> ELSE Append(DigitsUpTo(base, k)[k \div base], k % base)
  <2> DEFINE d == DigitsUpTo(base, k)
  <2>1. d = DigitsRule(base, k, d)
    BY DigitsExist
  <2> HIDE DEF d
  <2>2. d[k] = IF k = 0 THEN <<>> ELSE Append(d[k \div base], k % base)
    <3>1. k \in 0..k
      OBVIOUS
    <3> QED BY <2>1, <3>1 DEF DigitsRule
  <2> QED BY <2>2, <1>1 DEF d
<1>3. n > 0 => DigitsUpTo(base, n)[n \div base] = Digits(n \div base, base)
  <2> SUFFICES ASSUME n > 0
               PROVE  DigitsUpTo(base, n)[n \div base] = Digits(n \div base, base)
    OBVIOUS
  <2>1. n \div base \in Nat /\ n \div base \in 0..n
    BY DivisionIs
  <2>2. DigitsUpTo(base, n) = DigitsRule(base, n, DigitsUpTo(base, n))
    BY DigitsExist
  <2>3. DigitsUpTo(base, n \div base) =
          DigitsRule(base, n \div base, DigitsUpTo(base, n \div base))
    BY <2>1, DigitsExist
  <2>4. n \div base \in 0..(n \div base)
    BY <2>1
  <2>5. DigitsUpTo(base, n)[n \div base] = DigitsUpTo(base, n \div base)[n \div base]
    BY <2>1, <2>2, <2>3, <2>4, DigitsAgree
  <2> QED BY <2>1, <2>5, <1>1
<1> QED BY <1>2, <1>3

----------------------------------------------------------------------------
(* The same of ValueOf.                                                    *)
ValuesRule(s, base, n, v) ==
  [i \in 0..n |-> IF i = 0 THEN 0 ELSE v[i - 1] * base + s[i]]
ValuesUpTo(s, base, n) == CHOOSE v : v = ValuesRule(s, base, n, v)

(* Two tables of values agree where their texts do.                        *)
LEMMA ValuesAgree ==
  ASSUME NEW base, NEW s, NEW t, NEW n \in Nat, NEW m \in 0..n, NEW v, NEW w,
         \A i \in 1..m : s[i] = t[i],
         v = ValuesRule(s, base, n, v), w = ValuesRule(t, base, m, w), NEW j \in 0..m
  PROVE  v[j] = w[j]
<1> DEFINE T == {k \in 0..m : v[k] # w[k]}
<1> SUFFICES ASSUME T # {} PROVE FALSE
  OBVIOUS
<1>1. PICK k \in T : \A i \in T : k <= i
  <2>1. T \in SUBSET Nat
    OBVIOUS
  <2> HIDE DEF T
  <2> QED BY <2>1, SmallestNumber
<1>2. k \in 0..m /\ k \in 0..n /\ v[k] # w[k]
  OBVIOUS
<1>3. v[k] = IF k = 0 THEN 0 ELSE v[k - 1] * base + s[k]
  BY <1>2 DEF ValuesRule
<1>4. w[k] = IF k = 0 THEN 0 ELSE w[k - 1] * base + t[k]
  BY <1>2 DEF ValuesRule
<1>5. k # 0 => k - 1 \in 0..m /\ v[k - 1] = w[k - 1] /\ s[k] = t[k]
  BY <1>1, <1>2
<1> QED BY <1>2, <1>3, <1>4, <1>5

(* There is a table of the values of a text's beginnings.                  *)
LEMMA ValuesExist ==
  ASSUME NEW base, NEW s, NEW n \in Nat
  PROVE  ValuesUpTo(s, base, n) = ValuesRule(s, base, n, ValuesUpTo(s, base, n))
<1> DEFINE T == {m \in Nat : ~ \E v : v = ValuesRule(s, base, m, v)}
<1> SUFFICES ASSUME T # {} PROVE FALSE
  BY DEF ValuesUpTo
<1>1. PICK m \in T : \A i \in T : m <= i
  <2>1. T \in SUBSET Nat
    OBVIOUS
  <2> HIDE DEF T
  <2> QED BY <2>1, SmallestNumber
<1>2. m # 0
  <2> DEFINE v == [i \in 0..0 |-> 0]
  <2>1. v = ValuesRule(s, base, 0, v)
    BY DEF ValuesRule
  <2> QED BY <2>1
<1>3. m - 1 \in Nat /\ m - 1 \notin T
  BY <1>1, <1>2
<1>4. PICK w : w = ValuesRule(s, base, m - 1, w)
  BY <1>3
<1> DEFINE v == [i \in 0..m |-> IF i = m THEN w[m - 1] * base + s[m] ELSE w[i]]
<1>5. v = ValuesRule(s, base, m, v)
  <2>1. ASSUME NEW i \in 0..m
        PROVE  v[i] = IF i = 0 THEN 0 ELSE v[i - 1] * base + s[i]
    <3>1. i # 0 => v[i - 1] = w[i - 1]
      OBVIOUS
    <3>2. CASE i = m
      BY <3>1, <3>2, <1>2
    <3>3. CASE i # m
      <4>1. w[i] = IF i = 0 THEN 0 ELSE w[i - 1] * base + s[i]
        BY <3>3, <1>4 DEF ValuesRule
      <4> QED BY <3>1, <3>3, <4>1
    <3> QED BY <3>2, <3>3
  <2> HIDE DEF v
  <2>2. v = [i \in 0..m |-> v[i]]
    BY DEF v
  <2> QED BY <2>1, <2>2 DEF ValuesRule
<1> QED BY <1>5

(* A text that goes on has the value of its beginning on the way.          *)
LEMMA ValuesOfPrefix ==
  ASSUME NEW base, NEW s, NEW t, NEW n \in Nat, NEW v, NEW w,
         \A i \in 1..n : s[i] = t[i],
         v = ValuesRule(s, base, n + 1, v), w = ValuesRule(t, base, n, w)
  PROVE  v[n] = w[n]
<1>1. n \in 0..(n + 1) /\ n + 1 \in Nat /\ n \in 0..n
  OBVIOUS
<1>2. (\A i \in 1..n : s[i] = t[i]) => v[n] = w[n]
  BY <1>1, ValuesAgree
<1> QED BY <1>2

(* The value of a string, digit by digit.                                  *)
LEMMA ValueOfAppend ==
  ASSUME NEW base
  PROVE  /\ ValueOf(<<>>, base) = 0
         /\ \A t \in Seq(Nat), d \in Nat :
              ValueOf(Append(t, d), base) = ValueOf(t, base) * base + d
<1>1. ASSUME NEW t \in Seq(Nat)
      PROVE  ValueOf(t, base) = ValuesUpTo(t, base, Len(t))[Len(t)]
  BY DEF ValueOf, ValuesUpTo, ValuesRule
<1>2. ASSUME NEW t \in Seq(Nat)
      PROVE  ValueOf(t, base) =
               IF Len(t) = 0 THEN 0
               ELSE ValuesUpTo(t, base, Len(t))[Len(t) - 1] * base + t[Len(t)]
  <2> DEFINE n == Len(t)  v == ValuesUpTo(t, base, n)
  <2>1. n \in Nat
    OBVIOUS
  <2>2. v = ValuesRule(t, base, n, v)
    BY <2>1, ValuesExist
  <2>3. v[n] = IF n = 0 THEN 0 ELSE v[n - 1] * base + t[n]
    <3> HIDE DEF v, n
    <3> QED BY <2>1, <2>2 DEF ValuesRule
  <2> QED BY <2>3, <1>1
<1>3. ASSUME NEW t \in Seq(Nat), NEW d \in Nat
      PROVE  ValueOf(Append(t, d), base) = ValueOf(t, base) * base + d
  <2> DEFINE n == Len(t)  s == Append(t, d)
  <2>1. /\ n \in Nat /\ s \in Seq(Nat) /\ Len(s) = n + 1 /\ s[n + 1] = d
        /\ \A i \in 1..n : s[i] = t[i]
    OBVIOUS
  <2> HIDE DEF s
  <2>2. ValuesUpTo(s, base, n + 1) = ValuesRule(s, base, n + 1, ValuesUpTo(s, base, n + 1))
    BY <2>1, ValuesExist
  <2>3. ValuesUpTo(t, base, n) = ValuesRule(t, base, n, ValuesUpTo(t, base, n))
    BY <2>1, ValuesExist
  <2>4. ValuesUpTo(s, base, n + 1)[n] = ValuesUpTo(t, base, n)[n]
    <3> HIDE DEF n
    <3> QED BY <2>1, <2>2, <2>3, ValuesOfPrefix
  <2>5. ValueOf(s, base) = ValuesUpTo(s, base, n + 1)[n] * base + d
    BY <1>2, <2>1, SMTT(60)
  <2> QED BY <2>4, <2>5, <1>1 DEF s
<1>4. ValueOf(<<>>, base) = 0
  <2>1. <<>> \in Seq(Nat) /\ Len(<<>>) = 0
    OBVIOUS
  <2> QED BY <1>2, <2>1
<1> QED BY <1>3, <1>4

(* A value is a number, and not zero if the first digit is not.            *)
LEMMA ValueIsNatural ==
  ASSUME NEW base \in Bases, NEW s \in Seq(Nat)
  PROVE  /\ ValueOf(s, base) \in Nat
         /\ s # <<>> /\ s[1] # 0 => ValueOf(s, base) > 0
<1> DEFINE Good(u) == /\ ValueOf(u, base) \in Nat
                      /\ u # <<>> /\ u[1] # 0 => ValueOf(u, base) > 0
           T == {n \in Nat : \E u \in Seq(Nat) : Len(u) = n /\ ~Good(u)}
<1> SUFFICES ASSUME T # {} PROVE FALSE
  OBVIOUS
<1>1. PICK m \in T : \A i \in T : m <= i
  <2>1. T \in SUBSET Nat
    OBVIOUS
  <2> HIDE DEF T
  <2> QED BY <2>1, SmallestNumber
<1>2. PICK u \in Seq(Nat) : Len(u) = m /\ ~Good(u)
  OBVIOUS
<1>3. CASE u = <<>>
  BY <1>2, <1>3, ValueOfAppend
<1>4. CASE u # <<>>
  <2>1. PICK t \in Seq(Nat), d \in Nat : u = Append(t, d)
    BY <1>4, SequenceEmptyOrAppend
  <2>2. Len(t) = m - 1 /\ Len(t) \in Nat
    BY <1>2, <2>1
  <2>3. Good(t)
    BY <2>2, <1>1
  <2>4. ValueOf(u, base) = ValueOf(t, base) * base + d
    BY <2>1, ValueOfAppend
  <2>5. ValueOf(t, base) * base \in Nat /\ (ValueOf(t, base) > 0 => ValueOf(t, base) * base > 0)
    BY <2>3 DEF Bases
  <2>6. t = <<>> => u[1] = d
    BY <2>1
  <2>7. t # <<>> => u[1] = t[1]
    BY <2>1
  <2>8. ValueOf(u, base) \in Nat
    BY <2>4, <2>5
  <2>9. ASSUME u[1] # 0 PROVE ValueOf(u, base) > 0
    <3>1. CASE t = <<>>
      BY <3>1, <2>4, <2>5, <2>6, <2>9
    <3>2. CASE t # <<>>
      BY <3>2, <2>3, <2>4, <2>5, <2>7, <2>9
    <3> QED BY <3>1, <3>2
  <2> QED BY <1>2, <2>8, <2>9
<1> QED BY <1>3, <1>4

(* The digits of a number stand for it, and the first one is not zero.     *)
LEMMA ValueOfDigits ==
  ASSUME NEW base \in Bases, NEW n \in Nat
  PROVE  /\ Digits(n, base) \in Seq(0..(base - 1))
         /\ Digits(n, base) # <<>> => Digits(n, base)[1] # 0
         /\ n > 0 => Digits(n, base) # <<>>
         /\ ValueOf(Digits(n, base), base) = n
<1> DEFINE Good(k) == /\ Digits(k, base) \in Seq(0..(base - 1))
                      /\ Digits(k, base) # <<>> => Digits(k, base)[1] # 0
                      /\ k > 0 => Digits(k, base) # <<>>
                      /\ ValueOf(Digits(k, base), base) = k
           T == {k \in Nat : ~Good(k)}
<1> SUFFICES ASSUME T # {} PROVE FALSE
  OBVIOUS
<1>1. PICK m \in T : \A i \in T : m <= i
  <2>1. T \in SUBSET Nat
    OBVIOUS
  <2> HIDE DEF T
  <2> QED BY <2>1, SmallestNumber
<1>2. CASE m = 0
  <2>2. ValueOf(<<>>, base) = 0
    BY ValueOfAppend
  <2>3. <<>> \in Seq(0..(base - 1))
    OBVIOUS
  <2>4. Digits(0, base) = <<>>
    BY DigitsAre
  <2> DEFINE ds == Digits(0, base)
  <2>6. /\ ds \in Seq(0..(base - 1)) /\ (ds # <<>> => ds[1] # 0) /\ (0 > 0 => ds # <<>>)
        /\ ValueOf(ds, base) = 0
    <3> HIDE DEF ds
    <3>1. ds = <<>>
      BY <2>4 DEF ds
    <3> QED BY <2>2, <2>3, <3>1
  <2>5. Good(m)
    BY <1>2, <2>6
  <2> QED BY <2>5
<1>3. CASE m > 0
  <2> DEFINE k == m \div base  d == m % base
  <2>1. k \in Nat /\ d \in 0..(base - 1) /\ m = k * base + d /\ k < m
    BY <1>3, DivisionIs
  <2>2. Digits(m, base) = Append(Digits(k, base), d)
    BY <1>3, DigitsAre
  <2> HIDE DEF k, d
  <2>3. Good(k)
    BY <2>1, <1>1
  <2>4. Digits(k, base) \in Seq(0..(base - 1)) /\ Digits(m, base) \in Seq(0..(base - 1))
    <3>1. Digits(k, base) \in Seq(0..(base - 1))
      BY <2>3
    <3> DEFINE Digit == 0..(base - 1)  ds == Digits(k, base)
    <3>2. ds \in Seq(Digit) /\ d \in Digit /\ Digits(m, base) = Append(ds, d)
      BY <3>1, <2>1, <2>2
    <3> HIDE DEF Digit, ds
    <3>3. Digits(m, base) \in Seq(Digit)
      BY <3>2
    <3> QED BY <3>1, <3>3 DEF Digit
  <2>5. Digits(k, base) \in Seq(Nat) /\ Digits(m, base) \in Seq(Nat) /\ d \in Nat
    <3>1. 0..(base - 1) \subseteq Nat
      OBVIOUS
    <3> QED BY <3>1, <2>1, <2>4, SeqMonotonic
  <2>6. ValueOf(Digits(m, base), base) = k * base + d
    <3>1. ValueOf(Digits(k, base), base) = k
      BY <2>3
    <3>2. ValueOf(Append(Digits(k, base), d), base) = ValueOf(Digits(k, base), base) * base + d
      BY <2>5, ValueOfAppend
    <3> QED BY <2>2, <3>1, <3>2
  <2>7. Digits(m, base)[1] # 0
    <3>1. CASE k = 0
      <4>1. Digits(k, base) = <<>>
        BY <3>1, DigitsAre
      <4>2. Digits(m, base)[1] = d
        BY <2>2, <4>1
      <4>3. d # 0
        BY <3>1, <2>1, <1>3 DEF Bases
      <4> QED BY <4>2, <4>3
    <3>2. CASE k # 0
      <4>1. Digits(k, base) # <<>>
        BY <3>2, <2>1, <2>3
      <4>2. Digits(m, base)[1] = Digits(k, base)[1]
        BY <2>2, <2>5, <4>1
      <4> QED BY <4>1, <4>2, <2>3
    <3> QED BY <3>1, <3>2
  <2>8. Digits(m, base) # <<>>
    BY <2>2, <2>5
  <2>9. Good(m)
    BY <2>1, <2>4, <2>6, <2>7, <2>8
  <2> QED BY <2>9
<1> QED BY <1>2, <1>3

(* What digits stand for has these digits.                                 *)
LEMMA DigitsOfValue ==
  ASSUME NEW base \in Bases, NEW s \in Seq(0..(base - 1)), s # <<>> => s[1] # 0
  PROVE  Digits(ValueOf(s, base), base) = s
<1> DEFINE Digit == 0..(base - 1)
           Good(u) == (u # <<>> => u[1] # 0) => Digits(ValueOf(u, base), base) = u
           T == {n \in Nat : \E u \in Seq(Digit) : Len(u) = n /\ ~Good(u)}
<1> SUFFICES ASSUME T # {} PROVE FALSE
  OBVIOUS
<1>1. PICK m \in T : \A i \in T : m <= i
  <2>1. T \in SUBSET Nat
    OBVIOUS
  <2> HIDE DEF T
  <2> QED BY <2>1, SmallestNumber
<1>2. PICK u \in Seq(Digit) : Len(u) = m /\ ~Good(u)
  OBVIOUS
<1>3. CASE u = <<>>
  BY <1>2, <1>3, ValueOfAppend, DigitsAre
<1>4. CASE u # <<>>
  <2>1. PICK t \in Seq(Digit), d \in Digit : u = Append(t, d)
    BY <1>4, SequenceEmptyOrAppend
  <2>2. Len(t) = m - 1 /\ Len(t) \in Nat
    BY <1>2, <2>1
  <2>3. Good(t)
    BY <2>2, <1>1
  <2>4. u \in Seq(Nat) /\ t \in Seq(Nat) /\ d \in Nat /\ d \in 0..(base - 1)
    <3>1. Digit \subseteq Nat
      OBVIOUS
    <3> QED BY <3>1, <2>1, SeqMonotonic
  <2> DEFINE v == ValueOf(t, base)
  <2>5. ValueOf(u, base) = v * base + d
    BY <2>1, <2>4, ValueOfAppend
  <2>6. v \in Nat /\ (t # <<>> /\ t[1] # 0 => v > 0)
    BY <2>4, ValueIsNatural
  <2>7. u[1] # 0
    BY <1>2, <1>4
  <2>8. t = <<>> => u[1] = d
    BY <2>1
  <2>9. t # <<>> => u[1] = t[1]
    BY <2>1
  <2>10. v > 0 \/ d > 0
    BY <2>4, <2>6, <2>7, <2>8, <2>9
  <2>11. Digits(v, base) = t
    BY <2>3, <2>7, <2>9
  <2> HIDE DEF v
  <2>12. /\ v * base + d \in Nat /\ v * base + d > 0
         /\ (v * base + d) \div base = v /\ (v * base + d) % base = d
    BY <2>4, <2>6, <2>10, DivisionGives
  <2>13. Digits(v * base + d, base) = Append(Digits(v, base), d)
    BY <2>12, DigitsAre
  <2> QED BY <1>2, <2>1, <2>5, <2>11, <2>13
<1> QED BY <1>3, <1>4

(* Adding an element to what is joined adds it to the second.              *)
LEMMA ConcatAppend ==
  ASSUME NEW S, NEW s \in Seq(S), NEW t \in Seq(S), NEW d \in S
  PROVE  s \o Append(t, d) = Append(s \o t, d)
<1>1. <<d>> \in Seq(S) /\ s \o t \in Seq(S)
  OBVIOUS
<1>2. Append(t, d) = t \o <<d>> /\ Append(s \o t, d) = (s \o t) \o <<d>>
  BY <1>1, AppendIsConcat
<1> QED BY <1>1, <1>2, ConcatAssociative

(* The same of numbers.                                                    *)
LEMMA NaturalAppend ==
  \A s, t \in Seq(Nat), d \in Nat : s \o Append(t, d) = Append(s \o t, d)
BY ConcatAppend

(* A sequence is its beginning and its rest.                               *)
LEMMA SplitAt ==
  ASSUME NEW S, NEW s \in Seq(S), NEW k \in 0..Len(s)
  PROVE  s = SubSeq(s, 1, k) \o SubSeq(s, k + 1, Len(s))
<1>1. 1 \in 1..(Len(s) + 1) /\ k \in (1 - 1)..Len(s) /\ Len(s) \in k..Len(s)
  OBVIOUS
<1> QED BY <1>1, ConcatAdjacentSubSeq, SubSeqFull

(* Zeroes before a text do not change its value.                           *)
LEMMA ValueOfZeroes ==
  ASSUME NEW base \in Bases, NEW k \in Nat, NEW s \in Seq(Nat)
  PROVE  ValueOf(Zeroes(k) \o s, base) = ValueOf(s, base)
<1> DEFINE Good(j, u) == ValueOf(Zeroes(j) \o u, base) = ValueOf(u, base)
           T == {n \in Nat : \E j \in Nat, u \in Seq(Nat) : j + Len(u) = n /\ ~Good(j, u)}
<1> SUFFICES ASSUME T # {} PROVE FALSE
  <2>1. k + Len(s) \in Nat
    OBVIOUS
  <2> QED BY <2>1
<1>1. PICK m \in T : \A i \in T : m <= i
  <2>1. T \in SUBSET Nat
    OBVIOUS
  <2> HIDE DEF T
  <2> QED BY <2>1, SmallestNumber
<1>2. PICK j \in Nat, u \in Seq(Nat) : j + Len(u) = m /\ ~Good(j, u)
  OBVIOUS
<1>3. ASSUME NEW i \in Nat PROVE Zeroes(i) \in Seq(Nat) /\ Len(Zeroes(i)) = i
  BY DEF Zeroes
<1>4. CASE u = <<>> /\ j = 0
  <2>1. Zeroes(0) \o u = u
    BY <1>4 DEF Zeroes
  <2> QED BY <1>2, <1>4, <2>1
<1>5. CASE u = <<>> /\ j # 0
  <2>1. j - 1 \in Nat /\ (j - 1) + Len(u) = m - 1 /\ m - 1 \in Nat
    BY <1>2, <1>5
  <2>2. Good(j - 1, u)
    BY <2>1, <1>1
  <2>3. Zeroes(j) = Append(Zeroes(j - 1), 0)
    BY <1>5 DEF Zeroes
  <2>4. Zeroes(j) \o u = Zeroes(j) /\ Zeroes(j - 1) \o u = Zeroes(j - 1)
    BY <1>5, <1>3, <2>1
  <2>5. ValueOf(Zeroes(j), base) = ValueOf(Zeroes(j - 1), base) * base + 0
    <3> DEFINE z == Zeroes(j - 1)
    <3>1. z \in Seq(Nat) /\ Zeroes(j) = Append(z, 0) /\ 0 \in Nat
      BY <1>3, <2>1, <2>3
    <3> HIDE DEF z
    <3>2. ValueOf(Append(z, 0), base) = ValueOf(z, base) * base + 0
      BY <3>1, ValueOfAppend, Zenon
    <3> QED BY <3>1, <3>2 DEF z
  <2>6. ValueOf(<<>>, base) = 0
    BY ValueOfAppend
  <2> QED BY <1>2, <1>5, <2>2, <2>4, <2>5, <2>6 DEF Bases
<1>6. CASE u # <<>>
  <2>1. PICK t \in Seq(Nat), d \in Nat : u = Append(t, d)
    BY <1>6, SequenceEmptyOrAppend
  <2>2. j + Len(t) = m - 1 /\ j + Len(t) \in Nat
    BY <1>2, <2>1
  <2>3. Good(j, t)
    BY <2>2, <1>1
  <2>4. Zeroes(j) \o u = Append(Zeroes(j) \o t, d)
    <3>1. Zeroes(j) \in Seq(Nat)
      BY <1>3
    <3> DEFINE z == Zeroes(j)
    <3>2. z \in Seq(Nat) /\ t \in Seq(Nat) /\ d \in Nat
      BY <3>1
    <3> HIDE DEF z, Good, T
    <3>3. z \o Append(t, d) = Append(z \o t, d)
      BY <3>2, NaturalAppend, SMTT(30)
    <3> QED BY <3>3, <2>1 DEF z
  <2>5. ValueOf(Zeroes(j) \o u, base) = ValueOf(Zeroes(j) \o t, base) * base + d
    <3> DEFINE z == Zeroes(j) \o t
    <3>1. z \in Seq(Nat) /\ Zeroes(j) \o u = Append(z, d)
      BY <1>3, <2>4
    <3> HIDE DEF z
    <3>2. ValueOf(Append(z, d), base) = ValueOf(z, base) * base + d
      BY <3>1, ValueOfAppend, Zenon
    <3> QED BY <3>1, <3>2 DEF z
  <2>6. ValueOf(u, base) = ValueOf(t, base) * base + d
    BY <2>1, ValueOfAppend
  <2>7. Good(j, u)
    BY <2>3, <2>5, <2>6
  <2> QED BY <1>2, <2>7
<1> QED BY <1>4, <1>5, <1>6

(* How many zeroes a string begins with.                                   *)
LEMMA LeadingZeroesAre ==
  ASSUME NEW s \in Seq(Nat), NEW k \in 0..Len(s), \A i \in 1..k : s[i] = 0,
         k < Len(s) => s[k + 1] # 0
  PROVE  LeadingZeroes(s) = k
<1>1. {i \in 1..Len(s) : \A j \in 1..i : s[j] = 0} = 1..k
  <2>1. ASSUME NEW i \in 1..Len(s), \A j \in 1..i : s[j] = 0 PROVE i <= k
    <3>1. SUFFICES ASSUME i > k PROVE FALSE
      OBVIOUS
    <3>2. k + 1 \in 1..i /\ k < Len(s)
      BY <3>1
    <3> QED BY <3>2, <2>1
  <2> QED BY <2>1
<1>2. Cardinality(1..k) = k
  BY FS_Interval
<1> QED BY <1>1, <1>2 DEF LeadingZeroes

(* A string is its leading zeroes and the rest.                            *)
LEMMA ZeroesAndRest ==
  ASSUME NEW s \in Seq(Nat)
  PROVE  \E k \in 0..Len(s) :
           /\ LeadingZeroes(s) = k
           /\ s = Zeroes(k) \o SubSeq(s, k + 1, Len(s))
           /\ k < Len(s) => s[k + 1] # 0
<1> DEFINE T == {i \in 1..(Len(s) + 1) : i = Len(s) + 1 \/ s[i] # 0}
<1>1. T # {} /\ T \in SUBSET Nat
  <2>1. Len(s) + 1 \in T
    OBVIOUS
  <2> QED BY <2>1
<1>2. PICK m \in T : \A i \in T : m <= i
  <2> HIDE DEF T
  <2> QED BY <1>1, SmallestNumber
<1> DEFINE k == m - 1
<1>3. k \in 0..Len(s) /\ (k < Len(s) => s[k + 1] # 0) /\ \A i \in 1..k : s[i] = 0
  <2>1. ASSUME NEW i \in 1..k PROVE s[i] = 0
    <3>1. i \in 1..(Len(s) + 1) /\ i < m
      OBVIOUS
    <3> QED BY <3>1, <1>2
  <2> QED BY <2>1
<1>4. s = Zeroes(k) \o SubSeq(s, k + 1, Len(s))
  <2> HIDE DEF k
  <2>1. /\ SubSeq(s, 1, k) \in Seq(Nat) /\ Len(SubSeq(s, 1, k)) = k
        /\ \A i \in 1..k : SubSeq(s, 1, k)[i] = 0
    BY <1>3
  <2>2. /\ Zeroes(k) \in Seq(Nat) /\ Len(Zeroes(k)) = k
        /\ \A i \in 1..k : Zeroes(k)[i] = 0
    BY <1>3 DEF Zeroes
  <2>3. SubSeq(s, 1, k) = Zeroes(k)
    BY <2>1, <2>2, SeqEqual
  <2> QED BY <1>3, <2>3, SplitAt
<1> QED BY <1>3, <1>4, LeadingZeroesAre

(* Zeroes put before a text that does not begin with one are counted.      *)
LEMMA LeadingZeroesOf ==
  ASSUME NEW k \in Nat, NEW t \in Seq(Nat), t # <<>> => t[1] # 0
  PROVE  LeadingZeroes(Zeroes(k) \o t) = k
<1> DEFINE s == Zeroes(k) \o t
<1>1. Zeroes(k) \in Seq(Nat) /\ Len(Zeroes(k)) = k /\ \A i \in 1..k : Zeroes(k)[i] = 0
  BY DEF Zeroes
<1>2. s \in Seq(Nat) /\ Len(s) = k + Len(t) /\ \A i \in 1..k : s[i] = 0
  BY <1>1
<1>3. k < Len(s) => s[k + 1] = t[1] /\ t # <<>>
  BY <1>1, <1>2
<1> HIDE DEF s
<1>4. LeadingZeroes(s) = k
  <2>1. k \in 0..Len(s) /\ (k < Len(s) => s[k + 1] # 0)
    BY <1>2, <1>3
  <2> QED BY <1>2, <2>1, LeadingZeroesAre
<1> QED BY <1>4 DEF s

(* Other digits for the same number, with as many zeroes in front, lead    *)
(* back.                                                                   *)
LEMMA DigitsLeadBack ==
  ASSUME NEW base \in Bases, NEW other \in Bases,
         NEW Digit, Digit = 0..(base - 1), NEW s \in Seq(Digit),
         NEW t, t = Zeroes(LeadingZeroes(s)) \o Digits(ValueOf(s, base), other)
  PROVE  s = Zeroes(LeadingZeroes(t)) \o Digits(ValueOf(t, other), base)
<1>1. s \in Seq(Nat)
  <2>1. 0..(base - 1) \subseteq Nat
    OBVIOUS
  <2> QED BY <2>1, SeqMonotonic
<1>2. PICK k \in 0..Len(s) : /\ LeadingZeroes(s) = k
                             /\ s = Zeroes(k) \o SubSeq(s, k + 1, Len(s))
                             /\ k < Len(s) => s[k + 1] # 0
  BY <1>1, ZeroesAndRest
<1> DEFINE rest == SubSeq(s, k + 1, Len(s))
<1>3. /\ rest \in Seq(0..(base - 1)) /\ rest \in Seq(Nat)
      /\ rest # <<>> => rest[1] # 0
  <2>1. rest \in Seq(0..(base - 1)) /\ rest \in Seq(Nat)
    <3> DEFINE Ones == 0..(base - 1)
    <3>1. s \in Seq(Ones) /\ k + 1 \in Int /\ Len(s) \in Int
      BY <1>2
    <3> HIDE DEF Ones
    <3>2. \A i \in (k + 1)..Len(s) : s[i] \in Ones
      BY <3>1, <1>2
    <3>3. rest \in Seq(Ones)
      BY <3>1, <3>2, SubSeqProperties
    <3> QED BY <3>3, <1>1, <1>2 DEF Ones
  <2>2. ASSUME rest # <<>> PROVE rest[1] # 0
    <3>1. k < Len(s)
      BY <1>1, <1>2, <2>2
    <3>2. rest[1] = s[k + 1]
      BY <1>1, <1>2, <3>1
    <3> QED BY <1>2, <3>1, <3>2
  <2> QED BY <2>1, <2>2
<1>4. s = Zeroes(k) \o rest /\ k \in Nat
  <2>1. s = Zeroes(k) \o rest
    BY <1>2, Zenon
  <2>2. k \in Nat
    OBVIOUS
  <2> QED BY <2>1, <2>2, Zenon
<1> HIDE DEF rest
<1> DEFINE v == ValueOf(rest, base)  digits == Digits(v, other)
<1>5. ValueOf(s, base) = v
  BY <1>3, <1>4, ValueOfZeroes
<1>6. v \in Nat
  BY <1>3, ValueIsNatural
<1> HIDE DEF v
<1>7. /\ digits \in Seq(0..(other - 1)) /\ (digits # <<>> => digits[1] # 0)
      /\ ValueOf(digits, other) = v
  BY <1>6, ValueOfDigits
<1>8. digits \in Seq(Nat)
  <2>1. 0..(other - 1) \subseteq Nat
    OBVIOUS
  <2> QED BY <2>1, <1>7, SeqMonotonic
<1> HIDE DEF digits
<1>9. t = Zeroes(k) \o digits
  BY <1>2, <1>5 DEF digits
<1>10. LeadingZeroes(t) = k
  BY <1>4, <1>7, <1>8, <1>9, LeadingZeroesOf
<1>11. ValueOf(t, other) = v
  BY <1>4, <1>7, <1>8, <1>9, ValueOfZeroes
<1>12. Digits(v, base) = rest
  BY <1>3, DigitsOfValue DEF v
<1> QED BY <1>4, <1>10, <1>11, <1>12

(* base58 of any bytes is read as these bytes.                             *)
LEMMA Base58LeadsBack ==
  ASSUME NEW data \in Seq(Byte)
  PROVE  Unbase58(Base58(data)) = data
<1> DEFINE base == 256  other == 58  text == Base58(data)
<1>1. base \in Bases /\ other \in Bases /\ Byte = 0..(base - 1)
  BY DEF Bases, Byte
<1>2. text = Zeroes(LeadingZeroes(data)) \o Digits(ValueOf(data, base), other)
  BY DEF Base58
<1>3. Unbase58(text) = Zeroes(LeadingZeroes(text)) \o Digits(ValueOf(text, other), base)
  BY DEF Unbase58
<1> HIDE DEF base, other, text
<1>4. data = Zeroes(LeadingZeroes(text)) \o Digits(ValueOf(text, other), base)
  BY <1>1, <1>2, DigitsLeadBack
<1> QED BY <1>3, <1>4 DEF text

(* The same of the library's FlattenSeq.                                   *)
FlattenRule(ss, f) == [i \in 1..Len(ss) |-> IF i = 1 THEN ss[i] ELSE f[i - 1] \o ss[i]]
Flattened(ss) == CHOOSE f : f = FlattenRule(ss, f)

(* Joining lists can be begun and gone on with.                            *)
LEMMA FlattenExists ==
  ASSUME NEW ss, Len(ss) \in Nat
  PROVE  Flattened(ss) = FlattenRule(ss, Flattened(ss))
<1> DEFINE Rule(m, f) == [i \in 1..m |-> IF i = 1 THEN ss[i] ELSE f[i - 1] \o ss[i]]
           T == {m \in Nat : ~ \E f : f = Rule(m, f)}
<1>1. T = {}
  <2> SUFFICES ASSUME T # {} PROVE FALSE
    OBVIOUS
  <2>1. PICK m \in T : \A i \in T : m <= i
    <3>1. T \in SUBSET Nat
      OBVIOUS
    <3> HIDE DEF T
    <3> QED BY <3>1, SmallestNumber
  <2>2. m # 0
    <3> DEFINE f == [i \in 1..0 |-> 0]
    <3>1. f = Rule(0, f)
      OBVIOUS
    <3> QED BY <3>1
  <2>3. m - 1 \in Nat /\ m - 1 \notin T
    <3>1. m \in Nat
      OBVIOUS
    <3> HIDE DEF T
    <3> QED BY <2>1, <2>2, <3>1
  <2>4. PICK g : g = Rule(m - 1, g)
    BY <2>3
  <2> DEFINE f == [i \in 1..m |-> IF i = m
                                  THEN IF i = 1 THEN ss[i] ELSE g[i - 1] \o ss[i] ELSE g[i]]
  <2>5. f = Rule(m, f)
    <3>1. ASSUME NEW i \in 1..m
          PROVE  f[i] = IF i = 1 THEN ss[i] ELSE f[i - 1] \o ss[i]
      <4>1. i # 1 => i - 1 \in 1..m /\ i - 1 # m
        OBVIOUS
      <4>2. i # 1 => f[i - 1] = g[i - 1]
        BY <4>1
      <4>3. CASE i = m
        BY <4>2, <4>3
      <4>4. CASE i # m
        <5>1. i \in 1..(m - 1)
          BY <4>4
        <5>2. g[i] = IF i = 1 THEN ss[i] ELSE g[i - 1] \o ss[i]
          BY <5>1, <2>4
        <5>3. f[i] = g[i]
          BY <4>4
        <5> QED BY <4>2, <5>2, <5>3
      <4> QED BY <4>3, <4>4
    <3> HIDE DEF f
    <3>2. f = [i \in 1..m |-> f[i]]
      BY DEF f
    <3> QED BY <3>1, <3>2
  <2> QED BY <2>5
<1>2. \E f : f = FlattenRule(ss, f)
  <2>1. Len(ss) \notin T
    BY <1>1
  <2>2. \E f : f = Rule(Len(ss), f)
    BY <2>1
  <2> QED BY <2>2 DEF FlattenRule
<1> QED BY <1>2 DEF Flattened

(* Joining adds one list after the other.                                  *)
LEMMA FlattenIs ==
  ASSUME NEW ss, Len(ss) \in Nat \ {0}
  PROVE  /\ FlattenSeq(ss) = Flattened(ss)[Len(ss)]
         /\ \A i \in 1..Len(ss) :
              Flattened(ss)[i] = IF i = 1 THEN ss[i] ELSE Flattened(ss)[i - 1] \o ss[i]
<1>1. FlattenSeq(ss) = Flattened(ss)[Len(ss)]
  BY DEF FlattenSeq, Flattened, FlattenRule
<1> DEFINE f == Flattened(ss)
<1>2. f = FlattenRule(ss, f)
  BY FlattenExists
<1> HIDE DEF f
<1>3. \A i \in 1..Len(ss) : f[i] = IF i = 1 THEN ss[i] ELSE f[i - 1] \o ss[i]
  BY <1>2 DEF FlattenRule
<1> QED BY <1>1, <1>3 DEF f

(* Where the parts of a joined list are: at[k] is the end of the k-th.     *)
PartsAt(whole, parts, n, at) ==
  /\ at[0] = 0 /\ Len(whole) = at[n]
  /\ \A k \in 1..n : /\ at[k] = at[k - 1] + Len(parts[k])
                     /\ at[k] <= at[n]
                     /\ \A i \in 1..Len(parts[k]) : whole[at[k - 1] + i] = parts[k][i]

(* What is joined holds the first sequence and then the second.            *)
LEMMA ConcatIs ==
  ASSUME NEW S, NEW a \in Seq(S), NEW b \in Seq(S), NEW c, c = a \o b
  PROVE  /\ c \in Seq(S) /\ Len(c) = Len(a) + Len(b)
         /\ \A i \in 1..(Len(a) + Len(b)) : c[i] = IF i <= Len(a) THEN a[i] ELSE b[i - Len(a)]
BY ConcatProperties

(* A place of a part is a place of the whole.                              *)
LEMMA PlaceInside ==
  ASSUME NEW a \in Nat, NEW n \in Nat, NEW i \in 1..n, NEW l \in Nat, a + n <= l
  PROVE  a + i \in 1..l
OBVIOUS

(* A joined list holds its parts one after the other.                      *)
LEMMA FlattenedParts ==
  ASSUME NEW S, NEW ss \in Seq(Seq(S)), Len(ss) # 0
  PROVE  /\ FlattenSeq(ss) \in Seq(S)
         /\ \E at \in [0..Len(ss) -> Nat] : PartsAt(FlattenSeq(ss), ss, Len(ss), at)
<1> DEFINE f == Flattened(ss)
           Good(m) == f[m] \in Seq(S) /\ \E at \in [0..m -> Nat] : PartsAt(f[m], ss, m, at)
           T == {m \in 1..Len(ss) : ~Good(m)}
<1>1. /\ Len(ss) \in Nat \ {0} /\ FlattenSeq(ss) = f[Len(ss)]
      /\ \A i \in 1..Len(ss) : f[i] = IF i = 1 THEN ss[i] ELSE f[i - 1] \o ss[i]
      /\ \A i \in 1..Len(ss) : ss[i] \in Seq(S)
  <2>1. Len(ss) \in Nat \ {0}
    OBVIOUS
  <2> QED BY <2>1, FlattenIs
<1> HIDE DEF f
<1>2. T = {}
  <2> SUFFICES ASSUME T # {} PROVE FALSE
    OBVIOUS
  <2>1. PICK m \in T : \A i \in T : m <= i
    <3>1. T \in SUBSET Nat
      BY <1>1
    <3> HIDE DEF T
    <3> QED BY <3>1, SmallestNumber
  <2>2. m \in 1..Len(ss) /\ m \in Nat /\ ss[m] \in Seq(S) /\ Len(ss[m]) \in Nat
    BY <1>1
  <2>3. CASE m = 1
    <3> DEFINE at == [k \in 0..1 |-> IF k = 0 THEN 0 ELSE Len(ss[1])]
    <3>1. at \in [0..1 -> Nat] /\ at[0] = 0 /\ at[1] = Len(ss[1])
      BY <2>2, <2>3
    <3>2. f[1] = ss[1]
      BY <1>1, <2>2, <2>3
    <3> HIDE DEF at
    <3>3. PartsAt(f[1], ss, 1, at)
      <4>1. \A i \in 1..Len(ss[1]) : f[1][0 + i] = ss[1][i]
        BY <3>2
      <4>2. \A k \in 1..1 : k = 1 /\ k - 1 = 0
        OBVIOUS
      <4> QED BY <2>2, <2>3, <3>1, <3>2, <4>1, <4>2 DEF PartsAt
    <3> QED BY <2>2, <2>3, <3>1, <3>2, <3>3
  <2>4. CASE m # 1
    <3>1. m - 1 \in 1..Len(ss) /\ m - 1 \notin T
      <4> HIDE DEF T
      <4> QED BY <2>1, <2>2, <2>4
    <3>2. f[m - 1] \in Seq(S)
      BY <3>1
    <3>3. PICK at \in [0..(m - 1) -> Nat] : PartsAt(f[m - 1], ss, m - 1, at)
      BY <3>1
    <3> DEFINE new == [k \in 0..m |-> IF k = m THEN at[m - 1] + Len(ss[m]) ELSE at[k]]
    <3>4. /\ new \in [0..m -> Nat] /\ new[m] = at[m - 1] + Len(ss[m])
          /\ \A k \in 0..(m - 1) : new[k] = at[k]
      BY <2>2, <2>4
    <3> HIDE DEF new
    <3>5. f[m] = f[m - 1] \o ss[m]
      BY <1>1, <2>2, <2>4
    <3> DEFINE whole == f[m]  begun == f[m - 1]
    <3>6. /\ whole \in Seq(S) /\ Len(whole) = Len(begun) + Len(ss[m])
          /\ \A i \in 1..(Len(begun) + Len(ss[m])) :
               whole[i] = IF i <= Len(begun) THEN begun[i] ELSE ss[m][i - Len(begun)]
      <4> DEFINE last == ss[m]
      <4>1. begun \in Seq(S) /\ last \in Seq(S) /\ whole = begun \o last
        BY <3>2, <3>5, <2>2
      <4> HIDE DEF whole, begun, last
      <4>2. /\ whole \in Seq(S) /\ Len(whole) = Len(begun) + Len(last)
            /\ \A i \in 1..(Len(begun) + Len(last)) :
                 whole[i] = IF i <= Len(begun) THEN begun[i] ELSE last[i - Len(begun)]
        BY <4>1, ConcatIs
      <4> QED BY <4>2 DEF last
    <3>7. Len(begun) = at[m - 1] /\ at[0] = 0 /\ Len(begun) \in Nat
      BY <3>2, <3>3 DEF PartsAt
    <3>8. PartsAt(whole, ss, m, new)
      <4> HIDE DEF whole, begun
      <4>1. new[0] = 0 /\ Len(whole) = new[m]
        BY <2>2, <2>4, <3>4, <3>6, <3>7
      <4>2. ASSUME NEW k \in 1..m
            PROVE  /\ new[k] = new[k - 1] + Len(ss[k]) /\ new[k] <= new[m]
                   /\ \A i \in 1..Len(ss[k]) : whole[new[k - 1] + i] = ss[k][i]
        <5>1. new[k - 1] = at[k - 1] /\ at[k - 1] \in Nat
          BY <2>2, <3>4
        <5>2. CASE k = m
          <6>1. new[k] = new[k - 1] + Len(ss[k])
            BY <5>1, <5>2, <3>4
          <6>2. ASSUME NEW i \in 1..Len(ss[k]) PROVE whole[new[k - 1] + i] = ss[k][i]
            <7>1. new[k - 1] = Len(begun)
              BY <5>1, <5>2, <3>7
            <7>2. Len(begun) + i \in 1..(Len(begun) + Len(ss[m])) /\ ~(Len(begun) + i <= Len(begun))
                  /\ (Len(begun) + i) - Len(begun) = i
              BY <5>2, <2>2, <3>7
            <7> QED BY <7>1, <7>2, <5>2, <3>6
          <6> QED BY <6>1, <6>2, <5>2, <3>4, <2>2
        <5>3. CASE k # m
          <6>1. k \in 1..(m - 1) /\ new[k] = at[k]
            BY <2>2, <3>4, <5>3
          <6>2. at[k] = at[k - 1] + Len(ss[k]) /\ at[k] <= at[m - 1]
                /\ \A i \in 1..Len(ss[k]) : begun[at[k - 1] + i] = ss[k][i]
            BY <6>1, <3>3 DEF PartsAt, begun
          <6>3. ss[k] \in Seq(S) /\ Len(ss[k]) \in Nat /\ at[k] \in Nat /\ at[m - 1] \in Nat
            <7>1. ss[k] \in Seq(S)
              BY <1>1
            <7>2. k \in 0..(m - 1) /\ m - 1 \in 0..(m - 1)
              BY <2>2, <6>1
            <7> QED BY <7>1, <7>2
          <6>4. ASSUME NEW i \in 1..Len(ss[k]) PROVE whole[new[k - 1] + i] = ss[k][i]
            <7>1. at[k - 1] + i \in 1..Len(begun)
              <8>1. at[k - 1] + Len(ss[k]) <= Len(begun)
                BY <6>2, <3>7
              <8> DEFINE a == at[k - 1]  n == Len(ss[k])  l == Len(begun)
              <8>2. a \in Nat /\ n \in Nat /\ i \in 1..n /\ l \in Nat /\ a + n <= l
                BY <8>1, <5>1, <6>3, <3>7
              <8> HIDE DEF a, n, l
              <8>3. a + i \in 1..l
                BY <8>2, PlaceInside
              <8> QED BY <8>3 DEF a, l
            <7>2. whole[at[k - 1] + i] = begun[at[k - 1] + i]
              <8> DEFINE x == at[k - 1] + i
              <8>1. x \in 1..(Len(begun) + Len(ss[m])) /\ x <= Len(begun)
                BY <7>1, <2>2, <3>7, SMTT(60)
              <8> HIDE DEF x
              <8>2. whole[x] = begun[x]
                BY <8>1, <3>6
              <8> QED BY <8>2 DEF x
            <7> QED BY <7>2, <5>1, <6>2
          <6>5. new[k] = new[k - 1] + Len(ss[k])
            BY <5>1, <6>1, <6>2
          <6>6. new[k] <= new[m]
            <7> DEFINE x == at[k]  y == at[m - 1]  n == Len(ss[m])
            <7>1. x \in Nat /\ y \in Nat /\ n \in Nat /\ x <= y /\ new[k] = x /\ new[m] = y + n
              BY <2>2, <3>4, <6>1, <6>2, <6>3
            <7> HIDE DEF x, y, n
            <7> QED BY <7>1
          <6> QED BY <6>4, <6>5, <6>6
        <5> QED BY <5>2, <5>3
      <4> QED BY <4>1, <4>2 DEF PartsAt
    <3> QED BY <2>2, <3>4, <3>6, <3>8
  <2> QED BY <2>3, <2>4
<1>3. Good(Len(ss))
  BY <1>1, <1>2
<1> QED BY <1>1, <1>3

----------------------------------------------------------------------------
LEMMA BytesAre ==
  ASSUME NEW n \in Nat
  PROVE  /\ BytesOf(n) \in Seq(Byte) /\ BytesOf(n) \in Seq(Nat) /\ Len(BytesOf(n)) \in Nat
         /\ n > 0 => Len(BytesOf(n)) > 0
         /\ ValueOf(BytesOf(n), 256) = n
<1> DEFINE base == 256
<1>1. base \in Bases /\ Byte = 0..(base - 1) /\ BytesOf(n) = Digits(n, base)
  BY DEF Bases, Byte, BytesOf
<1> HIDE DEF base
<1>2. /\ BytesOf(n) \in Seq(Byte) /\ (n > 0 => BytesOf(n) # <<>>)
      /\ ValueOf(BytesOf(n), base) = n
  BY <1>1, ValueOfDigits
<1>3. Byte \subseteq Nat
  BY DEF Byte
<1>4. BytesOf(n) \in Seq(Nat)
  BY <1>2, <1>3, SeqMonotonic
<1> QED BY <1>2, <1>4 DEF base

(* A head is at least one byte, and the first one names the kind.          *)
LEMMA PrefixIs ==
  ASSUME NEW offset \in Nat, NEW n \in Nat
  PROVE  /\ LengthPrefix(offset, n) \in Seq(Nat) /\ Len(LengthPrefix(offset, n)) \in Nat \ {0}
         /\ LengthPrefix(offset, n)[1] >= offset
<1>1. CASE n < 56
  BY <1>1 DEF LengthPrefix
<1>2. CASE n >= 56
  <2> DEFINE b == BytesOf(n)
  <2>1. b \in Seq(Nat) /\ Len(b) \in Nat
    BY BytesAre
  <2>2. LengthPrefix(offset, n) = <<offset + 55 + Len(b)>> \o b
    BY <1>2 DEF LengthPrefix
  <2> HIDE DEF b
  <2> QED BY <2>1, <2>2
<1> QED BY <1>1, <1>2

(* A string is at a place of another.                                      *)
IsAt(w, at, s) == \A i \in 1..Len(s) : w[at - 1 + i] = s[i]

(* Cutting out what is at a place gives it.                                *)
LEMMA ContentIs ==
  ASSUME NEW w \in Seq(Nat), NEW from \in Nat \ {0}, NEW s \in Seq(Nat), IsAt(w, from, s)
  PROVE  SubSeq(w, from, from - 1 + Len(s)) = s
<1> DEFINE to == from - 1 + Len(s)
<1>1. from \in Int /\ to \in Int /\ Len(s) \in Nat /\ to - from + 1 = Len(s)
      /\ (~(from <= to) => Len(s) = 0)
  OBVIOUS
<1>2. ASSUME NEW i \in from..to PROVE w[i] \in Nat
  <2>1. i - from + 1 \in 1..Len(s) /\ from - 1 + (i - from + 1) = i
    BY <1>1
  <2>2. w[from - 1 + (i - from + 1)] = s[i - from + 1]
    BY <2>1 DEF IsAt
  <2> QED BY <2>1, <2>2
<1>3. \A i \in 1..Len(s) : from + i - 1 = from - 1 + i
  OBVIOUS
<1>4. \A i \in 1..Len(s) : w[from + i - 1] = s[i]
  BY <1>3 DEF IsAt
<1> HIDE DEF to
<1>5. /\ SubSeq(w, from, to) \in Seq(Nat)
      /\ Len(SubSeq(w, from, to)) = IF from <= to THEN to - from + 1 ELSE 0
      /\ \A i \in 1..(to - from + 1) : SubSeq(w, from, to)[i] = w[from + i - 1]
  BY <1>1, <1>2, SubSeqProperties
<1>6. Len(SubSeq(w, from, to)) = Len(s) /\ \A i \in 1..Len(s) : SubSeq(w, from, to)[i] = s[i]
  BY <1>1, <1>4, <1>5
<1> DEFINE sub == SubSeq(w, from, to)
<1> HIDE DEF sub
<1>7. sub = s
  BY <1>5, <1>6, SeqEqual DEF sub
<1> QED BY <1>7 DEF sub, to

(* A head is read as the length it was written for.                        *)
LEMMA HeadIsRead ==
  ASSUME NEW w \in Seq(Nat), NEW at \in Nat \ {0}, NEW offset \in Nat, NEW n \in Nat,
         NEW p, p = LengthPrefix(offset, n), IsAt(w, at, p)
  PROVE  Span(w, at, offset) = [from |-> at + Len(p), to |-> at + Len(p) + n - 1]
<1>1. CASE n < 56
  <2>1. p = <<offset + n>>
    BY <1>1 DEF LengthPrefix
  <2>2. p \in Seq(Nat) /\ Len(p) = 1 /\ p[1] = offset + n
    BY <2>1
  <2>3. w[at] = offset + n
    BY <2>2 DEF IsAt
  <2>4. Span(w, at, offset) = [from |-> at + 1, to |-> at + n]
    BY <1>1, <2>3 DEF Span
  <2> QED BY <2>2, <2>4
<1>2. CASE n >= 56
  <2> DEFINE b == BytesOf(n)
  <2>1. b \in Seq(Nat) /\ Len(b) \in Nat /\ Len(b) > 0 /\ ValueOf(b, 256) = n
    BY <1>2, BytesAre
  <2>2. p = <<offset + 55 + Len(b)>> \o b
    BY <1>2 DEF LengthPrefix
  <2> HIDE DEF b
  <2>3. /\ p \in Seq(Nat) /\ Len(p) = Len(b) + 1 /\ p[1] = offset + 55 + Len(b)
        /\ \A i \in 1..Len(b) : p[i + 1] = b[i]
    BY <2>1, <2>2
  <2>4. w[at] = offset + 55 + Len(b) /\ \A i \in 1..Len(b) : w[at + i] = b[i]
    <3>1. w[at] = p[1]
      <4>1. 1 \in 1..Len(p) /\ at - 1 + 1 = at
        BY <2>1, <2>3
      <4> QED BY <4>1 DEF IsAt
    <3>2. ASSUME NEW i \in 1..Len(b) PROVE w[at + i] = b[i]
      <4>1. i + 1 \in 1..Len(p) /\ at - 1 + (i + 1) = at + i
        BY <2>1, <2>3
      <4>2. w[at - 1 + (i + 1)] = p[i + 1]
        BY <4>1 DEF IsAt
      <4> QED BY <4>1, <4>2, <2>3
    <3> QED BY <2>3, <3>1, <3>2
  <2> DEFINE width == w[at] - offset - 55  sub == SubSeq(w, at + 1, at + width)
  <2>5. width = Len(b)
    BY <2>1, <2>4
  <2>6. sub = b
    <3> DEFINE from == at + 1
    <3>1. from \in Nat \ {0} /\ at + width = from - 1 + Len(b)
      BY <2>1, <2>5, SMTT(60)
    <3>2. IsAt(w, from, b)
      BY <2>4 DEF IsAt
    <3> HIDE DEF from, width
    <3>3. SubSeq(w, from, from - 1 + Len(b)) = b
      BY <3>1, <3>2, <2>1, ContentIs
    <3> QED BY <3>1, <3>3 DEF from
  <2>7. Span(w, at, offset) = [from |-> at + Len(b) + 1, to |-> at + Len(b) + n]
    <3>1. ~(w[at] - offset < 56)
      BY <2>1, <2>4
    <3> HIDE DEF width, sub
    <3>2. Span(w, at, offset) = [from |-> at + width + 1, to |-> at + width + ValueOf(sub, 256)]
      BY <3>1 DEF Span, width, sub
    <3> QED BY <3>2, <2>1, <2>5, <2>6
  <2> QED BY <2>1, <2>3, <2>7
<1> QED BY <1>1, <1>2

(* Bytes are numbers.                                                      *)
LEMMA BytesAreNatural == Seq(Byte) \subseteq Seq(Nat)
<1>1. Byte \subseteq Nat
  BY DEF Byte
<1> QED BY <1>1, SeqMonotonic

(* What is joined at a place is there, part after part.                    *)
LEMMA JoinedAt ==
  ASSUME NEW w, NEW at \in Nat \ {0}, NEW a \in Seq(Nat), NEW b \in Seq(Nat),
         NEW c, c = a \o b, IsAt(w, at, c)
  PROVE  /\ c \in Seq(Nat) /\ Len(c) = Len(a) + Len(b)
         /\ IsAt(w, at, a) /\ IsAt(w, at + Len(a), b)
<1>1. /\ c \in Seq(Nat) /\ Len(c) = Len(a) + Len(b) /\ Len(a) \in Nat /\ Len(b) \in Nat
      /\ \A i \in 1..(Len(a) + Len(b)) : c[i] = IF i <= Len(a) THEN a[i] ELSE b[i - Len(a)]
  BY ConcatIs
<1>2. ASSUME NEW i \in 1..Len(a) PROVE w[at - 1 + i] = a[i]
  <2>1. i \in 1..Len(c) /\ i <= Len(a)
    BY <1>1
  <2> QED BY <2>1, <1>1 DEF IsAt
<1>3. ASSUME NEW i \in 1..Len(b) PROVE w[at + Len(a) - 1 + i] = b[i]
  <2>1. Len(a) + i \in 1..Len(c) /\ ~(Len(a) + i <= Len(a)) /\ (Len(a) + i) - Len(a) = i
        /\ at - 1 + (Len(a) + i) = at + Len(a) - 1 + i
    BY <1>1
  <2>2. w[at - 1 + (Len(a) + i)] = c[Len(a) + i]
    BY <2>1 DEF IsAt
  <2>3. c[Len(a) + i] = b[i]
    BY <2>1, <1>1
  <2> QED BY <2>1, <2>2, <2>3
<1> QED BY <1>1, <1>2, <1>3 DEF IsAt

(* A string is written as bytes.                                           *)
LEMMA StringIs ==
  ASSUME NEW s \in Seq(Byte)
  PROVE  RlpBytes(s) \in Seq(Nat)
<1>1. s \in Seq(Nat) /\ Len(s) \in Nat
  BY BytesAreNatural
<1>2. LengthPrefix(128, Len(s)) \in Seq(Nat)
  BY <1>1, PrefixIs
<1> QED BY <1>1, <1>2 DEF RlpBytes

(* An item is read as it was written.                                      *)
LEMMA ItemIsRead ==
  ASSUME NEW w \in Seq(Nat), NEW at \in Nat \ {0}, NEW s \in Seq(Byte),
         NEW e, e = RlpBytes(s), IsAt(w, at, e)
  PROVE  /\ ItemAt(w, at).to = at + Len(e) - 1
         /\ SubSeq(w, ItemAt(w, at).from, ItemAt(w, at).to) = s
<1>0. s \in Seq(Nat) /\ Len(s) \in Nat
  BY BytesAreNatural
<1>1. CASE Len(s) = 1 /\ s[1] < 128
  <2>1. e = s
    BY <1>1 DEF RlpBytes
  <2>2. w[at] = s[1]
    <3>1. 1 \in 1..Len(s) /\ at - 1 + 1 = at
      BY <1>1
    <3> QED BY <2>1, <3>1 DEF IsAt
  <2>3. ItemAt(w, at) = [from |-> at, to |-> at]
    BY <1>1, <2>2 DEF ItemAt
  <2>4. SubSeq(w, at, at - 1 + Len(s)) = s
    BY <1>0, <2>1, ContentIs
  <2>5. at - 1 + Len(s) = at
    BY <1>1
  <2>6. SubSeq(w, at, at) = s
    BY <2>4, <2>5
  <2>7. Len(e) = 1
    BY <1>1, <2>1
  <2>8. at + Len(e) - 1 = at
    BY <2>7
  <2> QED BY <2>3, <2>6, <2>8
<1>2. CASE ~(Len(s) = 1 /\ s[1] < 128)
  <2> DEFINE p == LengthPrefix(128, Len(s))
  <2>1. e = p \o s
    BY <1>2 DEF RlpBytes
  <2>2. p \in Seq(Nat) /\ Len(p) \in Nat \ {0} /\ p[1] >= 128
    BY <1>0, PrefixIs
  <2>3. /\ IsAt(w, at, p) /\ IsAt(w, at + Len(p), s) /\ Len(e) = Len(p) + Len(s)
    <3> HIDE DEF p
    <3>1. p \in Seq(Nat) /\ s \in Seq(Nat) /\ e = p \o s /\ IsAt(w, at, e)
      BY <1>0, <2>1, <2>2
    <3>2. /\ e \in Seq(Nat) /\ Len(e) = Len(p) + Len(s)
          /\ IsAt(w, at, p) /\ IsAt(w, at + Len(p), s)
      BY <3>1, JoinedAt
    <3> QED BY <3>2
  <2>4. Span(w, at, 128) = [from |-> at + Len(p), to |-> at + Len(p) + Len(s) - 1]
    BY <1>0, <2>3, HeadIsRead
  <2> HIDE DEF p
  <2>5. w[at] = p[1]
    <3>1. 1 \in 1..Len(p) /\ at - 1 + 1 = at
      BY <2>2
    <3> QED BY <2>3, <3>1 DEF IsAt
  <2>6. ItemAt(w, at) = Span(w, at, 128)
    <3>1. ~(w[at] < 128)
      BY <2>2, <2>5
    <3> QED BY <3>1 DEF ItemAt
  <2> DEFINE from == at + Len(p)
  <2>7. from \in Nat \ {0} /\ at + Len(p) + Len(s) - 1 = from - 1 + Len(s)
        /\ at + Len(e) - 1 = from - 1 + Len(s)
    BY <1>0, <2>2, <2>3
  <2>8. ItemAt(w, at) = [from |-> from, to |-> from - 1 + Len(s)] /\ IsAt(w, from, s)
    BY <2>3, <2>4, <2>6, <2>7
  <2> HIDE DEF from
  <2>9. SubSeq(w, from, from - 1 + Len(s)) = s
    BY <1>0, <2>7, <2>8, ContentIs
  <2> QED BY <2>7, <2>8, <2>9
<1> QED BY <1>1, <1>2

(* The same of ItemEnds.                                                   *)
EndsRule(s, n, f) ==
  [k \in 0..n |-> IF k = 0 THEN Span(s, 1, 192).from - 1 ELSE ItemAt(s, f[k - 1] + 1).to]

(* The ends of the items are the only ones that follow the rule.           *)
LEMMA EndsAre ==
  ASSUME NEW s, NEW n \in Nat, NEW ends, ends = EndsRule(s, n, ends)
  PROVE  ItemEnds(s, n) = ends
<1> DEFINE g == ItemEnds(s, n)
<1>1. g = EndsRule(s, n, g)
  <2>1. \E f : f = EndsRule(s, n, f)
    OBVIOUS
  <2>2. g = CHOOSE f : f = EndsRule(s, n, f)
    BY DEF ItemEnds, EndsRule
  <2> HIDE DEF g
  <2> QED BY <2>1, <2>2
<1> DEFINE T == {k \in 0..n : g[k] # ends[k]}
<1>2. T = {}
  <2> SUFFICES ASSUME T # {} PROVE FALSE
    OBVIOUS
  <2> HIDE DEF g
  <2>1. PICK m \in T : \A i \in T : m <= i
    <3>1. T \in SUBSET Nat
      OBVIOUS
    <3> HIDE DEF T
    <3> QED BY <3>1, SmallestNumber
  <2>2. m \in 0..n /\ m \in Nat
    OBVIOUS
  <2>3. /\ g[m] = IF m = 0 THEN Span(s, 1, 192).from - 1 ELSE ItemAt(s, g[m - 1] + 1).to
        /\ ends[m] = IF m = 0 THEN Span(s, 1, 192).from - 1 ELSE ItemAt(s, ends[m - 1] + 1).to
    BY <1>1, <2>2 DEF EndsRule
  <2>4. m # 0 => g[m - 1] = ends[m - 1]
    <3>1. m # 0 => m - 1 \in 0..n /\ m - 1 \notin T
      <4>1. m # 0 => m - 1 \in 0..n /\ ~(m <= m - 1)
        BY <2>2
      <4> HIDE DEF T
      <4> QED BY <2>1, <4>1
    <3> QED BY <3>1
  <2> QED BY <2>3, <2>4
<1> HIDE DEF g
<1>3. g = [k \in 0..n |-> g[k]] /\ ends = [k \in 0..n |-> ends[k]]
  BY <1>1 DEF EndsRule
<1> QED BY <1>2, <1>3 DEF g

(* A list of strings is read as these strings.                             *)
LEMMA ListIsRead ==
  ASSUME NEW items \in Seq(Seq(Byte)), Len(items) # 0, NEW w, w = RlpList(items)
  PROVE  IsListOf(w, Len(items)) /\ ListItems(w, Len(items)) = items
<1> DEFINE n == Len(items)
           parts == [i \in DOMAIN items |-> RlpBytes(items[i])]
           body == FlattenSeq(parts)
           p == LengthPrefix(192, Len(body))
           h == Len(p)
<1>1. n \in Nat \ {0} /\ \A k \in 1..n : items[k] \in Seq(Byte) /\ k \in DOMAIN items
  OBVIOUS
<1>2. parts \in Seq(Seq(Nat)) /\ Len(parts) = n /\ \A k \in 1..n : parts[k] = RlpBytes(items[k])
  <2>1. ASSUME NEW k \in 1..n PROVE RlpBytes(items[k]) \in Seq(Nat)
    BY <1>1, StringIs
  <2>2. DOMAIN items = 1..n
    OBVIOUS
  <2> HIDE DEF n
  <2> QED BY <1>1, <2>1, <2>2
<1>3. w = p \o body
  BY DEF RlpList
<1> HIDE DEF n, parts
<1>4. body \in Seq(Nat) /\ Len(body) \in Nat
      /\ \E at \in [0..n -> Nat] : PartsAt(body, parts, n, at)
  <2>1. Len(parts) # 0
    BY <1>1, <1>2
  <2>2. /\ FlattenSeq(parts) \in Seq(Nat)
        /\ \E at \in [0..Len(parts) -> Nat] :
             PartsAt(FlattenSeq(parts), parts, Len(parts), at)
    BY <1>2, <2>1, FlattenedParts
  <2> QED BY <1>2, <2>2
<1>5. PICK at \in [0..n -> Nat] : PartsAt(body, parts, n, at)
  BY <1>4
<1> HIDE DEF body
<1>6. p \in Seq(Nat) /\ h \in Nat \ {0}
  <2> DEFINE size == Len(body)
  <2>1. size \in Nat /\ 192 \in Nat
    BY <1>4
  <2> HIDE DEF size
  <2>2. LengthPrefix(192, size) \in Seq(Nat) /\ Len(LengthPrefix(192, size)) \in Nat \ {0}
    BY <2>1, PrefixIs, ZenonT(60)
  <2> QED BY <2>2 DEF size
<1>7. /\ w \in Seq(Nat) /\ Len(w) = h + Len(body)
      /\ IsAt(w, 1, p) /\ IsAt(w, 1 + h, body)
  <2> HIDE DEF p
  <2>1. IsAt(w, 1, w)
    BY DEF IsAt
  <2>2. w = p \o body /\ p \in Seq(Nat) /\ body \in Seq(Nat) /\ 1 \in Nat \ {0}
    BY <1>3, <1>4, <1>6
  <2>3. /\ w \in Seq(Nat) /\ Len(w) = Len(p) + Len(body)
        /\ IsAt(w, 1, p) /\ IsAt(w, 1 + Len(p), body)
    BY <2>1, <2>2, JoinedAt
  <2> QED BY <2>3
<1>8. Span(w, 1, 192) = [from |-> 1 + h, to |-> h + Len(body)]
  <2>1. Span(w, 1, 192) = [from |-> 1 + h, to |-> 1 + h + Len(body) - 1]
    <3> DEFINE size == Len(body)
    <3>1. size \in Nat /\ 192 \in Nat /\ 1 \in Nat \ {0} /\ p = LengthPrefix(192, size)
      BY <1>4
    <3> HIDE DEF size, p
    <3>2. Span(w, 1, 192) = [from |-> 1 + Len(p), to |-> 1 + Len(p) + size - 1]
      BY <1>7, <3>1, HeadIsRead
    <3> QED BY <3>2 DEF size
  <2>2. 1 + h + Len(body) - 1 = h + Len(body)
    BY <1>4, <1>6
  <2> QED BY <2>1, <2>2
<1> HIDE DEF p, h
<1> DEFINE ends == [k \in 0..n |-> h + at[k]]
<1>9. ASSUME NEW k \in 1..n
      PROVE  /\ ends[k - 1] = h + at[k - 1]
             /\ ItemAt(w, ends[k - 1] + 1).to = ends[k]
             /\ SubSeq(w, ItemAt(w, ends[k - 1] + 1).from, ItemAt(w, ends[k - 1] + 1).to) = items[k]
  <2>1. /\ k - 1 \in 0..n /\ at[k - 1] \in Nat /\ at[k] \in Nat /\ at[n] \in Nat
        /\ ends[k - 1] = h + at[k - 1] /\ ends[k] = h + at[k]
    BY <1>1
  <2>2. /\ at[k] = at[k - 1] + Len(parts[k]) /\ at[k] <= at[n] /\ at[n] = Len(body)
        /\ \A i \in 1..Len(parts[k]) : body[at[k - 1] + i] = parts[k][i]
    BY <1>5 DEF PartsAt
  <2> HIDE DEF ends
  <2> DEFINE e == parts[k]  from == ends[k - 1] + 1
  <2>3. e = RlpBytes(items[k]) /\ e \in Seq(Nat) /\ Len(e) \in Nat /\ items[k] \in Seq(Byte)
        /\ from \in Nat \ {0}
    <3>1. e \in Seq(Nat) /\ e = RlpBytes(items[k])
      BY <1>2
    <3>2. from \in Nat \ {0}
      BY <1>6, <2>1
    <3>3. items[k] \in Seq(Byte)
      BY <1>1
    <3> HIDE DEF e, from
    <3>4. Len(e) \in Nat
      BY <3>1
    <3> QED BY <3>1, <3>2, <3>3, <3>4
  <2>4. IsAt(w, from, e)
    <3>1. ASSUME NEW i \in 1..Len(e) PROVE w[from - 1 + i] = e[i]
      <4>1. at[k - 1] + i \in 1..Len(body)
        <5> DEFINE a == at[k - 1]  l == Len(body)  m == Len(e)
        <5>1. a \in Nat /\ l \in Nat /\ m \in Nat /\ i \in 1..m /\ a + m <= l
          BY <1>4, <2>1, <2>2, <2>3
        <5> HIDE DEF a, l, m
        <5>2. a + i \in 1..l
          BY <5>1, PlaceInside
        <5> QED BY <5>2 DEF a, l
      <4> DEFINE x == at[k - 1] + i
      <4>2. w[(1 + h) - 1 + x] = body[x]
        <5>1. x \in 1..Len(body)
          BY <4>1
        <5>2. \A j \in 1..Len(body) : w[(1 + h) - 1 + j] = body[j]
          BY <1>7 DEF IsAt
        <5> HIDE DEF x
        <5> QED BY <5>1, <5>2
      <4>3. (1 + h) - 1 + x = from - 1 + i
        BY <1>6, <2>1
      <4>4. body[x] = e[i]
        BY <2>2
      <4> HIDE DEF x, from, e
      <4> QED BY <4>2, <4>3, <4>4
    <3> HIDE DEF from, e
    <3> QED BY <3>1 DEF IsAt
  <2> HIDE DEF from, e
  <2>5. /\ ItemAt(w, from).to = from + Len(e) - 1
        /\ SubSeq(w, ItemAt(w, from).from, ItemAt(w, from).to) = items[k]
    BY <1>7, <2>3, <2>4, ItemIsRead, ZenonT(60)
  <2>6. from + Len(e) - 1 = ends[k]
    <3>1. from = h + at[k - 1] + 1 /\ Len(e) = Len(parts[k])
      BY <2>1 DEF from, e
    <3>2. ends[k] = h + (at[k - 1] + Len(e)) /\ Len(e) \in Nat /\ at[k - 1] \in Nat
      BY <2>1, <2>2, <2>3, <3>1
    <3> DEFINE l == Len(e)  a == at[k - 1]  x == ends[k]
    <3>3. l \in Nat /\ a \in Nat /\ h \in Nat /\ from = h + a + 1 /\ x = h + (a + l)
      BY <1>6, <3>1, <3>2
    <3> HIDE DEF l, a, x
    <3>4. from + l - 1 = x
      BY <3>3
    <3> QED BY <3>4 DEF l, x
  <2> QED BY <2>1, <2>5, <2>6 DEF from
<1>10. ItemEnds(w, n) = ends
  <2>1. ends[0] = Span(w, 1, 192).from - 1
    <3>1. at[0] = 0
      BY <1>5 DEF PartsAt
    <3>2. ends[0] = h
      BY <1>1, <1>6, <3>1
    <3>3. Span(w, 1, 192).from - 1 = h
      BY <1>6, <1>8
    <3> QED BY <3>2, <3>3
  <2>2. ends = [k \in 0..n |-> ends[k]]
    OBVIOUS
  <2> HIDE DEF ends
  <2>3. ASSUME NEW k \in 0..n
        PROVE  ends[k] = IF k = 0 THEN Span(w, 1, 192).from - 1
                         ELSE ItemAt(w, ends[k - 1] + 1).to
    <3>1. k # 0 => k \in 1..n
      BY <1>1
    <3> QED BY <1>9, <2>1, <3>1
  <2>4. ends = EndsRule(w, n, ends)
    BY <2>2, <2>3 DEF EndsRule
  <2> QED BY <1>1, <2>4, EndsAre
<1>11. IsListOf(w, n)
  <2>1. ends[n] = Len(w)
    <3>1. ends[n] = h + at[n] /\ at[n] = Len(body)
      BY <1>1, <1>5 DEF PartsAt
    <3> QED BY <1>7, <3>1
  <2> HIDE DEF ends
  <2> QED BY <1>7, <1>8, <1>10, <2>1 DEF IsListOf
<1>12. ListItems(w, n) = items
  <2> HIDE DEF ends
  <2>1. ListItems(w, n) = [k \in 1..n |->
          SubSeq(w, ItemAt(w, ends[k - 1] + 1).from, ItemAt(w, ends[k - 1] + 1).to)]
    BY <1>10 DEF ListItems
  <2>2. ListItems(w, n) = [k \in 1..n |-> items[k]]
    BY <1>9, <2>1
  <2>3. items = [k \in 1..n |-> items[k]]
    BY DEF n
  <2> QED BY <2>2, <2>3
<1> QED BY <1>11, <1>12 DEF n

(* The fields of a transaction are numbers and bytes.                      *)
LEMMA NumbersAreRead ==
  ASSUME NEW t \in Transactions
  PROVE  /\ t.nonce \in Nat /\ t.value \in Nat /\ t.chain \in Nat /\ t.data \in Seq(Byte)
         /\ t.to \in Seq(Byte)
<1>1. t.nonce \in Nat /\ t.value \in Nat /\ t.chain \in Nat /\ t.data \in Seq(Byte)
  <2>1. t.nonce \in Numbers /\ t.value \in Numbers
    BY DEF Transactions
  <2>2. t.data \in Strings
    BY DEF Transactions
  <2>3. t.chain \in Nat
    BY DEF Transactions
  <2>4. Numbers \subseteq Nat
    BY FormatsAssumption
  <2>5. Strings \subseteq Seq(Byte)
    BY FormatsAssumption
  <2>6. t.nonce \in Nat /\ t.value \in Nat
    BY <2>1, <2>4
  <2>7. t.data \in Seq(Byte)
    BY <2>2, <2>5
  <2> QED BY <2>3, <2>6, <2>7
<1>2. t.to = [i \in 1..20 |-> 7]
  BY DEF Transactions
<1>3. [i \in 1..20 |-> 7] \in Seq(Byte)
  <2>1. [i \in 1..20 |-> 7] \in [1..20 -> Byte] /\ 20 \in Nat
    BY DEF Byte
  <2> QED BY <2>1, SeqDef
<1> QED BY <1>1, <1>2, <1>3

(* A node reads of a signed transaction what was asked for.                *)
LEMMA TransactionIsRead ==
  ASSUME NEW t \in Transactions, NEW recovery \in {0, 1}, NEW r \in Seq(Byte),
         NEW signed, signed = SigningPayload(t), NEW sent, sent = RawTransaction(t, recovery, r)
  PROVE  /\ IsListOf(signed, 9) /\ IsListOf(sent, 9)
         /\ SubSeq(ListItems(sent, 9), 1, 6) = SubSeq(ListItems(signed, 9), 1, 6)
         /\ ListItems(signed, 9)[1] = BytesOf(t.nonce) /\ ListItems(signed, 9)[4] = t.to
         /\ ValueOf(ListItems(signed, 9)[5], 256) = t.value /\ ListItems(signed, 9)[6] = t.data
         /\ ValueOf(ListItems(signed, 9)[7], 256) = t.chain
         /\ (ValueOf(ListItems(sent, 9)[7], 256) - 35) \div 2 = t.chain
         /\ ListItems(sent, 9)[9] = r
<1> DEFINE v == 2 * t.chain + 35 + recovery
<1>1. t.nonce \in Nat /\ t.value \in Nat /\ t.chain \in Nat /\ t.data \in Seq(Byte)
      /\ t.to \in Seq(Byte) /\ v \in Nat /\ (v - 35) \div 2 = t.chain
  <2>1. t.nonce \in Nat /\ t.value \in Nat /\ t.chain \in Nat /\ t.data \in Seq(Byte)
        /\ t.to \in Seq(Byte)
    BY NumbersAreRead
  <2> DEFINE n == t.chain
  <2>2. n \in Nat
    BY <2>1
  <2> HIDE DEF n
  <2>3. 2 * n + 35 + recovery \in Nat /\ ((2 * n + 35 + recovery) - 35) \div 2 = n
    BY <2>2
  <2>4. v \in Nat /\ (v - 35) \div 2 = t.chain
    BY <2>3 DEF n
  <2> QED BY <2>1, <2>4
<1> DEFINE one == 1  gas == 21000
           a == BytesOf(t.nonce)  b == BytesOf(one)  c == BytesOf(gas)  d == BytesOf(t.value)
           e == BytesOf(t.chain)  f == BytesOf(v)  to == t.to  data == t.data
           payload == <<a, b, c, to, d, data, e, <<>>, <<>>>>
           raw == <<a, b, c, to, d, data, f, r, r>>
<1>2. /\ signed = RlpList(payload) /\ sent = RlpList(raw)
  BY DEF SigningPayload, RawTransaction
<1>3. a \in Seq(Byte) /\ b \in Seq(Byte) /\ c \in Seq(Byte)
      /\ d \in Seq(Byte) /\ ValueOf(d, 256) = t.value
      /\ e \in Seq(Byte) /\ ValueOf(e, 256) = t.chain
      /\ f \in Seq(Byte) /\ ValueOf(f, 256) = v
  <2>1. one \in Nat /\ gas \in Nat
    BY SMT
  <2> HIDE DEF v, one, gas
  <2>2. a \in Seq(Byte) /\ b \in Seq(Byte) /\ c \in Seq(Byte)
    <3>1. a \in Seq(Byte)
      BY <1>1, BytesAre
    <3>2. b \in Seq(Byte)
      BY <2>1, BytesAre
    <3>3. c \in Seq(Byte)
      BY <2>1, BytesAre
    <3> QED BY <3>1, <3>2, <3>3
  <2> DEFINE value == t.value  chain == t.chain
  <2>0. value \in Nat /\ chain \in Nat /\ v \in Nat
    BY <1>1
  <2> HIDE DEF value, chain
  <2>3. BytesOf(value) \in Seq(Byte) /\ ValueOf(BytesOf(value), 256) = value
    BY <2>0, BytesAre
  <2>4. BytesOf(chain) \in Seq(Byte) /\ ValueOf(BytesOf(chain), 256) = chain
    BY <2>0, BytesAre
  <2>5. f \in Seq(Byte) /\ ValueOf(f, 256) = v
    BY <2>0, BytesAre
  <2> USE DEF value, chain
  <2> QED BY <2>2, <2>3, <2>4, <2>5
<1>4. to \in Seq(Byte) /\ data \in Seq(Byte) /\ <<>> \in Seq(Byte)
  BY <1>1
<1> HIDE DEF a, b, c, d, e, f, to, data
<1>5. payload \in Seq(Seq(Byte)) /\ Len(payload) = 9
  BY <1>3, <1>4
<1>6. raw \in Seq(Seq(Byte)) /\ Len(raw) = 9
  BY <1>3, <1>4
<1>7. /\ payload[1] = a /\ payload[2] = b /\ payload[3] = c /\ payload[4] = to /\ payload[5] = d
      /\ payload[6] = data /\ payload[7] = e
      /\ raw[1] = a /\ raw[2] = b /\ raw[3] = c /\ raw[4] = to /\ raw[5] = d
      /\ raw[6] = data /\ raw[7] = f /\ raw[9] = r
  OBVIOUS
<1> HIDE DEF payload, raw
<1>8. IsListOf(signed, 9) /\ ListItems(signed, 9) = payload
  <2>1. IsListOf(signed, Len(payload)) /\ ListItems(signed, Len(payload)) = payload
    <3>1. Len(payload) # 0
      BY <1>5
    <3> QED BY <1>2, <1>5, <3>1, ListIsRead
  <2> QED BY <1>5, <2>1
<1>9. IsListOf(sent, 9) /\ ListItems(sent, 9) = raw
  <2>1. IsListOf(sent, Len(raw)) /\ ListItems(sent, Len(raw)) = raw
    <3>1. Len(raw) # 0
      BY <1>6
    <3> QED BY <1>2, <1>6, <3>1, ListIsRead
  <2> QED BY <1>6, <2>1
<1>10. SubSeq(raw, 1, 6) = SubSeq(payload, 1, 6)
  <2>1. \A i \in 1..6 : raw[i] = payload[i]
    BY <1>7
  <2>2. SubSeq(raw, 1, 6) = [i \in 1..6 |-> raw[i]]
    BY <1>6
  <2>3. SubSeq(payload, 1, 6) = [i \in 1..6 |-> payload[i]]
    BY <1>5
  <2> QED BY <2>1, <2>2, <2>3
<1>11. /\ payload[1] = BytesOf(t.nonce) /\ payload[4] = t.to /\ payload[6] = t.data
       /\ ValueOf(payload[5], 256) = t.value /\ ValueOf(payload[7], 256) = t.chain
       /\ ValueOf(raw[7], 256) = v /\ raw[9] = r
  BY <1>3, <1>7 DEF a, to, data
<1>12. (ValueOf(raw[7], 256) - 35) \div 2 = t.chain
  <2> HIDE DEF v
  <2> QED BY <1>1, <1>11
<1> QED BY <1>8, <1>9, <1>10, <1>11, <1>12

(* The lengths a shortvec of two bytes can hold.                           *)
TwoByteLengths == 0..16383

(* A length of one or two bytes is read as it was written.                 *)
LEMMA LengthLeadsBack ==
  ASSUME NEW n \in TwoByteLengths
  PROVE  n = (ShortVec(n)[1] % 128) + (IF ShortVec(n)[1] > 127 THEN ShortVec(n)[2] * 128 ELSE 0)
<1> DEFINE b == ShortVec(n)
<1>1. CASE n < 128
  BY <1>1, SMT DEF ShortVec, TwoByteLengths
<1>2. CASE n >= 128
  <2>1. b[1] = (n % 128) + 128 /\ b[2] = n \div 128
    BY <1>2, SMT DEF ShortVec, TwoByteLengths
  <2>2. /\ n % 128 \in 0..127 /\ n \div 128 \in Nat /\ n = (n % 128) + (n \div 128) * 128
        /\ ((n % 128) + 128) % 128 = n % 128
    BY SMT DEF TwoByteLengths
  <2> HIDE DEF b
  <2>3. n = (b[1] % 128) + (IF b[1] > 127 THEN b[2] * 128 ELSE 0)
    BY <2>1, <2>2, SMT
  <2> QED BY <2>3, SMT DEF b
<1> QED BY <1>1, <1>2, SMT DEF TwoByteLengths

(* What a sequence is after an element is added to it.                     *)
LEMMA AppendedIs ==
  ASSUME NEW s \in Seq(Nat), NEW x \in Nat, NEW n \in Nat, Len(s) = n,
         NEW t, t = Append(s, x), NEW m, m = n + 1
  PROVE  /\ t \in Seq(Nat) /\ Len(t) = m /\ t[m] = x
         /\ \A i \in 1..n : t[i] = s[i]
OBVIOUS

(* The value of four bytes.                                                *)
LEMMA FourBytes ==
  ASSUME NEW a \in Nat, NEW b \in Nat, NEW c \in Nat, NEW d \in Nat
  PROVE  ValueOf(<<d, c, b, a>>, 256) = ((d * 256 + c) * 256 + b) * 256 + a
<1> DEFINE base == 256  one == Append(<<>>, d)  two == Append(one, c)  three == Append(two, b)
           four == Append(three, a)
<1>1. <<>> \in Seq(Nat) /\ one \in Seq(Nat) /\ two \in Seq(Nat) /\ three \in Seq(Nat)
  OBVIOUS
<1>2. four = <<d, c, b, a>>
  <2>1. one \in Seq(Nat) /\ Len(one) = 1 /\ one[1] = d
    OBVIOUS
  <2> HIDE DEF one
  <2>2. two \in Seq(Nat) /\ Len(two) = 2 /\ two[2] = c /\ \A i \in 1..1 : two[i] = one[i]
    <3>1. two = Append(one, c) /\ 2 = 1 + 1 /\ 1 \in Nat
      OBVIOUS
    <3> HIDE DEF two
    <3> QED BY <2>1, <3>1, AppendedIs
  <2> HIDE DEF two
  <2>3. three \in Seq(Nat) /\ Len(three) = 3 /\ three[3] = b /\ \A i \in 1..2 : three[i] = two[i]
    <3>1. three = Append(two, b) /\ 3 = 2 + 1 /\ 2 \in Nat
      OBVIOUS
    <3> HIDE DEF three
    <3> QED BY <2>2, <3>1, AppendedIs
  <2> HIDE DEF three
  <2>4. four \in Seq(Nat) /\ Len(four) = 4 /\ four[4] = a /\ \A i \in 1..3 : four[i] = three[i]
    <3>1. four = Append(three, a) /\ 4 = 3 + 1 /\ 3 \in Nat
      OBVIOUS
    <3> HIDE DEF four
    <3>2. three \in Seq(Nat) /\ Len(three) = 3
      BY <2>3
    <3> HIDE DEF base
    <3>3. 3 \in Nat /\ 4 = 3 + 1
      OBVIOUS
    <3> DEFINE n == 3  m == 4
    <3>4. four = Append(three, a) /\ n \in Nat /\ m = n + 1 /\ three \in Seq(Nat) /\ Len(three) = n
      BY <3>1, <3>2
    <3> HIDE DEF n, m
    <3>5. four \in Seq(Nat) /\ Len(four) = m /\ four[m] = a /\ \A i \in 1..n : four[i] = three[i]
      BY <3>4, AppendedIs
    <3> QED BY <3>5 DEF n, m
  <2> DEFINE tuple == <<d, c, b, a>>
  <2>5. /\ tuple \in Seq(Nat) /\ Len(tuple) = 4
        /\ tuple[1] = d /\ tuple[2] = c /\ tuple[3] = b /\ tuple[4] = a
    OBVIOUS
  <2> HIDE DEF four, tuple
  <2>6. \A i \in 1..4 : four[i] = tuple[i]
    <3>1. \A i \in 1..4 : i = 1 \/ i = 2 \/ i = 3 \/ i = 4
      OBVIOUS
    <3> QED BY <3>1, <2>1, <2>2, <2>3, <2>4, <2>5
  <2>7. four = tuple
    BY <2>4, <2>5, <2>6, SeqEqual
  <2> QED BY <2>7 DEF tuple
<1> HIDE DEF base, one, two, three, four
<1>3. ValueOf(<<>>, base) = 0
  BY ValueOfAppend
<1>4. ValueOf(one, base) = ValueOf(<<>>, base) * base + d
  BY <1>1, ValueOfAppend DEF one
<1>5. ValueOf(two, base) = ValueOf(one, base) * base + c
  BY <1>1, ValueOfAppend DEF two
<1>6. ValueOf(three, base) = ValueOf(two, base) * base + b
  BY <1>1, ValueOfAppend DEF three
<1>7. ValueOf(four, base) = ValueOf(three, base) * base + a
  BY <1>1, ValueOfAppend DEF four
<1>8. ValueOf(one, 256) = d
  BY <1>3, <1>4 DEF base
<1> QED BY <1>2, <1>5, <1>6, <1>7, <1>8 DEF base

(* The four bytes of a tag lead back to it.                                *)
LEMMA TagLeadsBack ==
  ASSUME NEW n \in Nat, n \div 16777216 < 256
  PROVE  ((((n \div 16777216) % 256) * 256 + ((n \div 65536) % 256)) * 256
           + ((n \div 256) % 256)) * 256 + (n % 256) = n
<1> DEFINE p == n \div 256  q == p \div 256  r == q \div 256
<1>1. p \in Nat /\ q \in Nat /\ r \in Nat /\ n = p * 256 + (n % 256)
  BY SMT
<1>2. q = n \div 65536
  BY SMT
<1>3. r = n \div 16777216
  BY SMT
<1>4. p = q * 256 + (p % 256) /\ q = r * 256 + (q % 256)
  BY SMT
<1>5. r % 256 = r
  BY <1>1, <1>3, SMT
<1> HIDE DEF p, q, r
<1>6. ((r * 256 + (q % 256)) * 256 + (p % 256)) * 256 + (n % 256) = n
  BY <1>1, <1>4, SMT
<1>7. ((((n \div 16777216) % 256) * 256 + ((n \div 65536) % 256)) * 256
        + ((n \div 256) % 256)) * 256 + (n % 256)
      = (((r % 256) * 256 + (q % 256)) * 256 + (p % 256)) * 256 + (n % 256)
  BY <1>2, <1>3, SMT DEF p
<1> QED BY <1>5, <1>6, <1>7, SMT

(* An X-address is read as its address and its tag.                        *)
LEMMA AddressLeadsBack ==
  ASSUME NEW id \in {1, 2}, NEW tag \in {n \in Numbers : n \div 16777216 < 256} \cup {-1},
         NEW x, x = XAddress(id, tag)
  PROVE  Classic(x) = [id |-> id, tag |-> tag]
<1>1. CASE tag = -1
  <2>1. x = <<id>> \o Zeroes(5) \o Zeroes(4)
    BY <1>1 DEF XAddress
  <2>2. Zeroes(5) = <<0, 0, 0, 0, 0>> /\ Zeroes(4) = <<0, 0, 0, 0>>
    BY DEF Zeroes
  <2>3. x[1] = id /\ x[2] = 0
    BY <2>1, <2>2
  <2> QED BY <1>1, <2>3 DEF Classic
<1>2. CASE tag # -1
  <2>1. tag \in Nat /\ tag \div 16777216 < 256
    BY <1>2, FormatsAssumption
  <2> DEFINE a == tag % 256  b == (tag \div 256) % 256  c == (tag \div 65536) % 256
             d == (tag \div 16777216) % 256
  <2>2. a \in Nat /\ b \in Nat /\ c \in Nat /\ d \in Nat
    BY <2>1
  <2>3. ((d * 256 + c) * 256 + b) * 256 + a = tag
    BY <2>1, TagLeadsBack
  <2>4. x = <<id>> \o (<<1>> \o <<a, b, c, d>>) \o Zeroes(4)
    BY <1>2 DEF XAddress, LittleEndian
  <2> HIDE DEF a, b, c, d
  <2>5. Zeroes(4) = <<0, 0, 0, 0>>
    BY DEF Zeroes
  <2>6. x[1] = id /\ x[2] = 1 /\ x[3] = a /\ x[4] = b /\ x[5] = c /\ x[6] = d
    BY <2>4, <2>5
  <2>7. ValueOf(<<x[6], x[5], x[4], x[3]>>, 256) = tag
    BY <2>2, <2>3, <2>6, FourBytes
  <2> QED BY <2>6, <2>7 DEF Classic
<1> QED BY <1>1, <1>2

(* What the proof needs of a payout's instructions: the keys they name,    *)
(* uses in which only the payer signs, and calls made of these.            *)
AccountKeys == Keys \cup {"mint", "system", "token", "ata"}
UsesBy(payer) ==
  {u \in [key : AccountKeys, signer : BOOLEAN, writable : BOOLEAN] : u.signer => u.key = payer}
CallsBy(payer) == [program : AccountKeys, uses : Seq(UsesBy(payer))]
Mentioned(uses) == {uses[i].key : i \in DOMAIN uses}

(* A transfer of the coin is one instruction its payer signs.              *)
LEMMA NativeIsCall ==
  ASSUME NEW a \in Keys, NEW b \in Keys
  PROVE  NativeTransfer(a, b) \in Seq(CallsBy(a)) /\ Len(NativeTransfer(a, b)) = 1
<1> DEFINE S == UsesBy(a)
           from == Use(a, TRUE, TRUE)  to == Use(b, FALSE, TRUE)
           call == [program |-> "system", uses |-> <<from, to>>]
<1>1. from \in S /\ to \in S
  BY DEF Use, UsesBy, AccountKeys
<1>2. call \in [program : AccountKeys, uses : Seq(S)]
  <2> HIDE DEF S
  <2>1. "system" \in AccountKeys
    BY DEF AccountKeys
  <2> HIDE DEF from, to
  <2>2. <<from, to>> \in Seq(S)
    BY <1>1
  <2> QED BY <2>1, <2>2
<1>3. call \in CallsBy(a)
  BY <1>2 DEF CallsBy
<1>4. NativeTransfer(a, b) = <<call>>
  BY DEF NativeTransfer
<1> HIDE DEF call
<1> QED BY <1>3, <1>4

(* A transfer of a token is two instructions its payer signs.              *)
LEMMA TokenIsCall ==
  ASSUME NEW a \in Keys, NEW b \in Keys, NEW s \in Keys, NEW d \in Keys
  PROVE  TokenTransfer(a, b, s, d) \in Seq(CallsBy(a)) /\ Len(TokenTransfer(a, b, s, d)) = 2
<1> DEFINE S == UsesBy(a)
           from == Use(a, TRUE, TRUE)  mint == Use("mint", FALSE, FALSE)
           made == Use(d, FALSE, TRUE)  for == Use(b, FALSE, FALSE)
           system == Use("system", FALSE, FALSE)  token == Use("token", FALSE, FALSE)
           source == Use(s, FALSE, TRUE)  signer == Use(a, TRUE, FALSE)
           creating == <<from, made, for, mint, system, token>>
           moving == <<source, mint, made, signer>>
           one == [program |-> "ata", uses |-> creating]
           two == [program |-> "token", uses |-> moving]
<1>1. from \in S /\ signer \in S /\ for \in S /\ made \in S /\ source \in S
  BY DEF Use, UsesBy, AccountKeys
<1>2. mint \in S /\ system \in S /\ token \in S
  BY DEF Use, UsesBy, AccountKeys
<1>3. creating \in Seq(S) /\ moving \in Seq(S)
  <2> HIDE DEF S, from, mint, made, for, system, token, source, signer
  <2> QED BY <1>1, <1>2
<1>4. "ata" \in AccountKeys /\ "token" \in AccountKeys
  BY DEF AccountKeys
<1>5. one \in CallsBy(a) /\ two \in CallsBy(a)
  <2> HIDE DEF creating, moving
  <2> QED BY <1>3, <1>4 DEF CallsBy
<1>6. TokenTransfer(a, b, s, d) = <<one, two>>
  BY DEF TokenTransfer
<1> HIDE DEF one, two
<1> QED BY <1>5, <1>6

(* Every account an instruction names is mentioned, the payer first, and   *)
(* only the payer signs.                                                   *)
LEMMA UsesAre ==
  ASSUME NEW payer \in Keys, NEW list \in Seq(CallsBy(payer)), Len(list) # 0,
         NEW uses, uses = UsesOf(payer, list)
  PROVE  /\ uses \in Seq(UsesBy(payer)) /\ Len(uses) \in Nat \ {0}
         /\ uses[1] = Use(payer, TRUE, TRUE)
         /\ \A n \in 1..Len(list) :
              /\ list[n].program \in Mentioned(uses)
              /\ \A k \in 1..Len(list[n].uses) : list[n].uses[k].key \in Mentioned(uses)
<1> DEFINE S == UsesBy(payer)
           last(n) == Use(list[n].program, FALSE, FALSE)
           parts == [n \in DOMAIN list |-> list[n].uses \o <<last(n)>>]
           whole == FlattenSeq(parts)
           first == Use(payer, TRUE, TRUE)
<1>1. Len(list) \in Nat \ {0} /\ DOMAIN list = 1..Len(list)
  OBVIOUS
<1>2. ASSUME NEW n \in 1..Len(list)
      PROVE  /\ list[n].uses \in Seq(S) /\ Len(list[n].uses) \in Nat /\ last(n) \in S
             /\ parts[n] \in Seq(S) /\ Len(parts[n]) = Len(list[n].uses) + 1
             /\ parts[n][Len(list[n].uses) + 1] = last(n)
             /\ \A k \in 1..Len(list[n].uses) : parts[n][k] = list[n].uses[k]
  <2>1. list[n] \in CallsBy(payer)
    BY <1>1
  <2>2. list[n].uses \in Seq(S) /\ list[n].program \in AccountKeys
    BY <2>1 DEF CallsBy
  <2>3. last(n) \in S
    BY <2>2 DEF Use, UsesBy
  <2> DEFINE own == list[n].uses  end == last(n)
  <2>4. parts[n] = own \o <<end>>
    BY <1>1
  <2> HIDE DEF S, own, end, parts
  <2>5. own \in Seq(S) /\ end \in S /\ Len(own) \in Nat
    <3>1. own \in Seq(S) /\ end \in S
      BY <2>2, <2>3 DEF own, end
    <3> QED BY <3>1
  <2>6. /\ parts[n] \in Seq(S) /\ Len(parts[n]) = Len(own) + 1 /\ parts[n][Len(own) + 1] = end
        /\ \A k \in 1..Len(own) : parts[n][k] = own[k]
    BY <2>4, <2>5
  <2> QED BY <2>5, <2>6 DEF own, end
<1>3. parts \in Seq(Seq(S)) /\ Len(parts) = Len(list)
  <2>1. parts = [n \in 1..Len(list) |-> parts[n]]
    BY <1>1
  <2> DEFINE m == Len(list)
  <2> HIDE DEF parts, S
  <2>2. m \in Nat /\ \A n \in 1..m : parts[n] \in Seq(S)
    BY <1>1, <1>2
  <2> HIDE DEF m
  <2>3. [n \in 1..m |-> parts[n]] \in Seq(Seq(S)) /\ Len([n \in 1..m |-> parts[n]]) = m
    BY <2>2
  <2> QED BY <2>1, <2>3 DEF m
<1> HIDE DEF S, parts
<1>4. whole \in Seq(S) /\ Len(whole) \in Nat
      /\ \E at \in [0..Len(list) -> Nat] : PartsAt(whole, parts, Len(list), at)
  <2>1. Len(parts) # 0
    BY <1>1, <1>3
  <2>2. /\ whole \in Seq(S)
        /\ \E at \in [0..Len(parts) -> Nat] : PartsAt(whole, parts, Len(parts), at)
    BY <1>3, <2>1, FlattenedParts
  <2> HIDE DEF whole
  <2> QED BY <1>3, <2>2
<1>5. PICK at \in [0..Len(list) -> Nat] : PartsAt(whole, parts, Len(list), at)
  BY <1>4
<1>6. uses = <<first>> \o whole
  BY DEF UsesOf, parts
<1>7. first \in S
  BY DEF Use, UsesBy, AccountKeys, S
<1> HIDE DEF whole, first
<1>8. /\ uses \in Seq(S) /\ Len(uses) = Len(whole) + 1 /\ uses[1] = first
      /\ \A i \in 1..Len(whole) : uses[i + 1] = whole[i]
  BY <1>4, <1>6, <1>7
<1>9. ASSUME NEW i \in 1..Len(whole) PROVE whole[i].key \in Mentioned(uses)
  <2>1. i + 1 \in DOMAIN uses
    BY <1>4, <1>8
  <2>2. uses[i + 1].key \in Mentioned(uses)
    BY <2>1 DEF Mentioned
  <2> QED BY <1>8, <2>2
<1>10. ASSUME NEW n \in 1..Len(list), NEW k \in 1..Len(parts[n])
       PROVE  parts[n][k].key \in Mentioned(uses)
  <2>1. /\ at[n] = at[n - 1] + Len(parts[n]) /\ at[n] <= Len(whole)
        /\ whole[at[n - 1] + k] = parts[n][k]
    BY <1>5 DEF PartsAt
  <2>2. at[n - 1] + k \in 1..Len(whole)
    <3> DEFINE a == at[n - 1]  m == Len(parts[n])  l == Len(whole)
    <3>1. n - 1 \in 0..Len(list) /\ Len(parts[n]) \in Nat
      BY <1>1, <1>2
    <3>2. a \in Nat /\ m \in Nat /\ l \in Nat /\ k \in 1..m /\ a + m <= l
      BY <1>4, <2>1, <3>1
    <3> HIDE DEF a, m, l
    <3>3. a + k \in 1..l
      BY <3>2, PlaceInside
    <3> QED BY <3>3 DEF a, l
  <2>3. whole[at[n - 1] + k].key \in Mentioned(uses)
    BY <1>9, <2>2
  <2> QED BY <2>1, <2>3
<1>11. ASSUME NEW n \in 1..Len(list)
       PROVE  /\ list[n].program \in Mentioned(uses)
              /\ \A k \in 1..Len(list[n].uses) : list[n].uses[k].key \in Mentioned(uses)
  <2>1. parts[n][Len(list[n].uses) + 1].key \in Mentioned(uses)
    <3> DEFINE own == Len(list[n].uses)  all == Len(parts[n])
    <3>0. own \in Nat /\ all = own + 1
      BY <1>2
    <3> HIDE DEF own, all
    <3>1. own + 1 \in 1..all
      BY <3>0
    <3> USE DEF own, all
    <3> QED BY <1>10, <3>1
  <2>2. last(n).key = list[n].program
    BY DEF Use
  <2>3. ASSUME NEW k \in 1..Len(list[n].uses) PROVE list[n].uses[k].key \in Mentioned(uses)
    <3> DEFINE own == Len(list[n].uses)  all == Len(parts[n])
    <3>0. own \in Nat /\ all = own + 1 /\ k \in 1..own
      BY <1>2
    <3> HIDE DEF own, all
    <3>1. k \in 1..all
      BY <3>0
    <3> USE DEF own, all
    <3>2. parts[n][k] = list[n].uses[k]
      BY <1>2
    <3> QED BY <1>10, <3>1, <3>2
  <2> HIDE DEF last
  <2> QED BY <1>2, <2>1, <2>2, <2>3
<1> QED BY <1>4, <1>8, <1>11 DEF S, first

(* A key that is mentioned has a first mention.                            *)
LEMMA FirstUseIs ==
  ASSUME NEW uses, Len(uses) \in Nat, DOMAIN uses = 1..Len(uses), NEW key \in Mentioned(uses)
  PROVE  /\ FirstUse(uses, key) \in 1..Len(uses) /\ uses[FirstUse(uses, key)].key = key
         /\ uses[1].key = key => FirstUse(uses, key) = 1
<1> DEFINE T == {i \in DOMAIN uses : uses[i].key = key}
           Is(i) == /\ i \in DOMAIN uses /\ uses[i].key = key
                    /\ \A j \in 1..(i - 1) : uses[j].key # key
<1>1. PICK m \in T : \A i \in T : m <= i
  <2>1. T \in SUBSET Nat /\ T # {}
    BY DEF Mentioned
  <2> HIDE DEF T
  <2> QED BY <2>1, SmallestNumber
<1>2. Is(m)
  <2>1. m \in 1..Len(uses) /\ uses[m].key = key
    OBVIOUS
  <2>2. ASSUME NEW j \in 1..(m - 1) PROVE uses[j].key # key
    <3>1. j \in DOMAIN uses /\ ~(m <= j)
      BY <2>1
    <3>2. j \notin T
      <4> HIDE DEF T
      <4> QED BY <1>1, <3>1
    <3> QED BY <3>1, <3>2
  <2> QED BY <2>1, <2>2
<1> DEFINE f == FirstUse(uses, key)
<1>3. f = CHOOSE i \in DOMAIN uses : uses[i].key = key /\ \A j \in 1..(i - 1) : uses[j].key # key
  BY DEF FirstUse
<1>4. Is(f)
  <2> HIDE DEF f
  <2> QED BY <1>2, <1>3
<1>5. uses[1].key = key => f = 1
  <2> SUFFICES ASSUME uses[1].key = key, f # 1 PROVE FALSE
    OBVIOUS
  <2> HIDE DEF f
  <2>1. f \in 1..Len(uses) /\ 1 \in 1..(f - 1)
    BY <1>4
  <2> QED BY <1>4, <2>1
<1> QED BY <1>4, <1>5

RankOf(uses, k) == Rank(MergedUse(uses, k))

(* The rank says what all uses ask of an account together.                 *)
LEMMA RankIs ==
  ASSUME NEW uses, NEW k
  PROVE  /\ RankOf(uses, k) \in 0..3
         /\ MergedUse(uses, k).key = k
         /\ MergedUse(uses, k).signer \in BOOLEAN /\ MergedUse(uses, k).writable \in BOOLEAN
         /\ MergedUse(uses, k).signer <=> RankOf(uses, k) < 2
         /\ RankOf(uses, k) = 3 <=> ~MergedUse(uses, k).signer /\ ~MergedUse(uses, k).writable
<1> DEFINE u == MergedUse(uses, k)
<1>1. u.key = k /\ u.signer \in BOOLEAN /\ u.writable \in BOOLEAN
  BY DEF MergedUse, Use
<1> HIDE DEF u
<1>2. Rank(u) \in 0..3 /\ (u.signer <=> Rank(u) < 2) /\ (Rank(u) = 3 <=> ~u.signer /\ ~u.writable)
  BY DEF Rank
<1> QED BY <1>1, <1>2 DEF u, RankOf

(* Of two keys one precedes the other, and ranks grow with it.             *)
LEMMA OrderIsTotal ==
  ASSUME NEW uses, Len(uses) \in Nat, DOMAIN uses = 1..Len(uses),
         NEW a \in Mentioned(uses), NEW b \in Mentioned(uses), NEW c \in Mentioned(uses)
  PROVE  /\ ~Precedes(uses, a, a)
         /\ Precedes(uses, a, b) /\ Precedes(uses, b, c) => Precedes(uses, a, c)
         /\ a # b => Precedes(uses, a, b) \/ Precedes(uses, b, a)
         /\ Precedes(uses, a, b) => RankOf(uses, a) <= RankOf(uses, b)
<1> DEFINE ra == RankOf(uses, a)  rb == RankOf(uses, b)  rc == RankOf(uses, c)
           fa == FirstUse(uses, a)  fb == FirstUse(uses, b)  fc == FirstUse(uses, c)
<1>1. ra \in 0..3 /\ rb \in 0..3 /\ rc \in 0..3
  BY RankIs
<1>2. /\ fa \in 1..Len(uses) /\ fb \in 1..Len(uses) /\ fc \in 1..Len(uses)
      /\ uses[fa].key = a /\ uses[fb].key = b
  BY FirstUseIs
<1>3. /\ Precedes(uses, a, a) <=> ra < ra \/ (ra = ra /\ fa < fa)
      /\ Precedes(uses, a, b) <=> ra < rb \/ (ra = rb /\ fa < fb)
      /\ Precedes(uses, b, a) <=> rb < ra \/ (rb = ra /\ fb < fa)
      /\ Precedes(uses, b, c) <=> rb < rc \/ (rb = rc /\ fb < fc)
      /\ Precedes(uses, a, c) <=> ra < rc \/ (ra = rc /\ fa < fc)
  BY DEF Precedes, RankOf
<1> HIDE DEF ra, rb, rc, fa, fb, fc
<1>4. a # b => fa # fb
  BY <1>2
<1> QED BY <1>1, <1>2, <1>3, <1>4 DEF ra, rb

(* How many keys precede one: its position, counted from zero.             *)
Earlier(uses, k) == {j \in Mentioned(uses) : Precedes(uses, j, k)}
Before(uses, k) == Cardinality(Earlier(uses, k))

(* An instruction names finitely many keys.                                *)
LEMMA MentionedIsFinite ==
  ASSUME NEW uses, Len(uses) \in Nat, DOMAIN uses = 1..Len(uses)
  PROVE  IsFiniteSet(Mentioned(uses))
<1> DEFINE I == 1..Len(uses)
<1>1. IsFiniteSet(I)
  BY FS_Interval
<1> HIDE DEF I
<1>2. IsFiniteSet({uses[i].key : i \in I})
  <2> DEFINE g == [i \in I |-> uses[i].key]
  <2>1. {uses[i].key : i \in I} = {g[i] : i \in I}
    OBVIOUS
  <2>2. {g[i] : i \in I} = Range(g)
    BY DEF Range
  <2>3. g \in Surjection(I, Range(g))
    BY DEF Surjection, Range
  <2> HIDE DEF g
  <2>4. IsFiniteSet(Range(g))
    BY <1>1, <2>3, FS_Surjection
  <2> QED BY <2>1, <2>2, <2>4
<1> QED BY <1>2 DEF Mentioned, I

(* A key has fewer keys before it than one it precedes.                    *)
LEMMA EarlierGrows ==
  ASSUME NEW uses, Len(uses) \in Nat, DOMAIN uses = 1..Len(uses),
         NEW a \in Mentioned(uses), NEW b \in Mentioned(uses)
  PROVE  /\ Before(uses, a) \in 0..(Cardinality(Mentioned(uses)) - 1)
         /\ Precedes(uses, a, b) => Before(uses, a) < Before(uses, b)
<1> DEFINE K == Mentioned(uses)  ofA == Earlier(uses, a)  ofB == Earlier(uses, b)
<1>1. IsFiniteSet(K)
  BY MentionedIsFinite
<1>2. ofA \in SUBSET K /\ ofB \in SUBSET K /\ a \notin ofA /\ a \in K
  BY OrderIsTotal DEF Earlier
<1>3. Precedes(uses, a, b) => ofA \in SUBSET ofB /\ a \in ofB
  BY OrderIsTotal DEF Earlier
<1> HIDE DEF K, ofA, ofB
<1>4. IsFiniteSet(ofB) /\ IsFiniteSet(ofA)
  BY <1>1, <1>2, FS_Subset
<1>5. /\ Cardinality(ofA) \in Nat /\ Cardinality(K) \in Nat
      /\ Cardinality(ofA) <= Cardinality(K) /\ Cardinality(ofA) # Cardinality(K)
  <2>1. Cardinality(ofA) \in Nat /\ Cardinality(K) \in Nat
    BY <1>1, <1>4, FS_CardinalityType
  <2>2. Cardinality(ofA) <= Cardinality(K)
    BY <1>1, <1>2, FS_Subset
  <2>3. Cardinality(ofA) # Cardinality(K)
    BY <1>1, <1>2, FS_Subset
  <2> QED BY <2>1, <2>2, <2>3
<1>6. Precedes(uses, a, b) => Cardinality(ofA) < Cardinality(ofB)
  <2> SUFFICES ASSUME Precedes(uses, a, b) PROVE Cardinality(ofA) < Cardinality(ofB)
    OBVIOUS
  <2>1. ofA \in SUBSET ofB /\ ofA # ofB
    BY <1>2, <1>3
  <2>2. Cardinality(ofB) \in Nat
    BY <1>4, FS_CardinalityType
  <2>3. Cardinality(ofA) <= Cardinality(ofB) /\ Cardinality(ofA) # Cardinality(ofB)
    BY <1>4, <2>1, FS_Subset
  <2> QED BY <1>5, <2>2, <2>3
<1>7. Cardinality(ofA) \in 0..(Cardinality(K) - 1)
  BY <1>5
<1> QED BY <1>6, <1>7 DEF K, ofA, ofB, Before

(* Every place in the list of accounts is some key's.                      *)
LEMMA PlacesAreFilled ==
  ASSUME NEW uses, Len(uses) \in Nat, DOMAIN uses = 1..Len(uses),
         NEW n \in 1..Cardinality(Mentioned(uses))
  PROVE  \E k \in Mentioned(uses) : Before(uses, k) = n - 1
<1> DEFINE K == Mentioned(uses)  N == Cardinality(K)  B == 0..(N - 1)
           f == [k \in K |-> Before(uses, k)]
<1>1. IsFiniteSet(K) /\ N \in Nat
  BY MentionedIsFinite, FS_CardinalityType
<1>2. IsFiniteSet(B) /\ Cardinality(B) = N
  <2> HIDE DEF N
  <2> DEFINE lo == 0  hi == N - 1
  <2>1. lo \in Int /\ hi \in Int
    BY <1>1
  <2>2. lo..hi = B /\ (IF lo > hi THEN 0 ELSE hi - lo + 1) = N
    BY <1>1
  <2> HIDE DEF lo, hi, B
  <2>3. IsFiniteSet(lo..hi) /\ Cardinality(lo..hi) = IF lo > hi THEN 0 ELSE hi - lo + 1
    BY <2>1, FS_Interval
  <2> QED BY <2>2, <2>3
<1>3. f \in Injection(K, B)
  <2>1. f \in [K -> B]
    BY EarlierGrows
  <2>2. ASSUME NEW a \in K, NEW b \in K, a # b PROVE f[a] # f[b]
    <3>1. Precedes(uses, a, b) \/ Precedes(uses, b, a)
      BY <2>2, OrderIsTotal
    <3>2. /\ Before(uses, a) \in Int /\ Before(uses, b) \in Int
          /\ Precedes(uses, a, b) => Before(uses, a) < Before(uses, b)
          /\ Precedes(uses, b, a) => Before(uses, b) < Before(uses, a)
      BY EarlierGrows
    <3>3. Before(uses, a) # Before(uses, b)
      BY <3>1, <3>2
    <3> QED BY <3>3
  <2> HIDE DEF f, K, B
  <2> QED BY <2>1, <2>2 DEF Injection, IsInjective
<1> HIDE DEF f, B
<1>4. f \in Surjection(K, B)
  BY <1>1, <1>2, <1>3, FS_Injection
<1>5. n - 1 \in B
  BY <1>1 DEF B
<1>6. PICK k \in K : f[k] = n - 1
  BY <1>4, <1>5 DEF Surjection
<1> QED BY <1>6 DEF f

KeyAt(uses, n) == CHOOSE k \in Mentioned(uses) : Before(uses, k) = n - 1

(* The accounts are all keys that are mentioned, in order.                 *)
LEMMA KeysAreInOrder ==
  ASSUME NEW uses, Len(uses) \in Nat, DOMAIN uses = 1..Len(uses),
         NEW N, N = Cardinality(Mentioned(uses))
  PROVE  /\ N \in Nat
         /\ \A n \in 1..N : KeyAt(uses, n) \in Mentioned(uses)
         /\ \A i, j \in 1..N : i < j => Precedes(uses, KeyAt(uses, i), KeyAt(uses, j))
         /\ \A k \in Mentioned(uses) : \E n \in 1..N : KeyAt(uses, n) = k
<1> DEFINE K == Mentioned(uses)
<1>1. N \in Nat
  BY MentionedIsFinite, FS_CardinalityType
<1>2. ASSUME NEW n \in 1..N
      PROVE  KeyAt(uses, n) \in K /\ Before(uses, KeyAt(uses, n)) = n - 1
  <2>1. \E k \in K : Before(uses, k) = n - 1
    BY PlacesAreFilled
  <2> QED BY <2>1 DEF KeyAt
<1>3. ASSUME NEW i \in 1..N, NEW j \in 1..N, i < j
      PROVE  Precedes(uses, KeyAt(uses, i), KeyAt(uses, j))
  <2> DEFINE a == KeyAt(uses, i)  b == KeyAt(uses, j)
  <2>1. a \in K /\ b \in K /\ Before(uses, a) = i - 1 /\ Before(uses, b) = j - 1
    BY <1>2
  <2> HIDE DEF a, b, K
  <2>2. Before(uses, a) < Before(uses, b)
    BY <1>1, <1>3, <2>1
  <2>3. a # b
    BY <1>1, <2>1, <1>3
  <2>4. Precedes(uses, b, a) => Before(uses, b) < Before(uses, a)
    BY <2>1, EarlierGrows DEF K
  <2>5. Precedes(uses, a, b) \/ Precedes(uses, b, a)
    BY <2>1, <2>3, OrderIsTotal DEF K
  <2>6. ~(Before(uses, b) < Before(uses, a))
    BY <1>1, <2>1, <1>3
  <2> QED BY <2>4, <2>5, <2>6 DEF a, b
<1>4. ASSUME NEW k \in K PROVE \E n \in 1..N : KeyAt(uses, n) = k
  <2>1. Before(uses, k) \in 0..(N - 1)
    BY EarlierGrows
  <2> DEFINE n == Before(uses, k) + 1
  <2>2. n \in 1..N /\ n - 1 = Before(uses, k)
    BY <1>1, <2>1
  <2> DEFINE other == KeyAt(uses, n)
  <2>3. other \in K /\ Before(uses, other) = Before(uses, k)
    BY <1>2, <2>2
  <2>4. other = k
    <3> SUFFICES ASSUME other # k PROVE FALSE
      OBVIOUS
    <3> HIDE DEF other, K
    <3>1. Precedes(uses, other, k) \/ Precedes(uses, k, other)
      BY <2>3, OrderIsTotal DEF K
    <3>2. /\ Precedes(uses, other, k) => Before(uses, other) < Before(uses, k)
          /\ Precedes(uses, k, other) => Before(uses, k) < Before(uses, other)
      BY <2>3, EarlierGrows DEF K
    <3> QED BY <1>1, <2>1, <2>3, <3>1, <3>2
  <2> QED BY <2>2, <2>4
<1> QED BY <1>1, <1>2, <1>3, <1>4

(* Those from some place on are the last ones.                             *)
LEMMA LastOnes ==
  ASSUME NEW N \in Nat, NEW R \in SUBSET (1..N), \A i \in R, j \in 1..N : i < j => j \in R
  PROVE  /\ Cardinality(R) \in Nat
         /\ \A i \in 1..N : i \in R <=> i > N - Cardinality(R)
<1>1. CASE R = {}
  <2>1. Cardinality(R) = 0
    BY <1>1, FS_EmptySet
  <2> QED BY <1>1, <2>1
<1>2. CASE R # {}
  <2>1. PICK m \in R : \A i \in R : m <= i
    <3>1. R \in SUBSET Nat
      OBVIOUS
    <3> QED BY <1>2, <3>1, SmallestNumber
  <2>2. m \in 1..N
    OBVIOUS
  <2>3. R = m..N
    <3>1. ASSUME NEW i \in R PROVE i \in m..N
      <4>1. i \in 1..N /\ m <= i
        BY <2>1
      <4> QED BY <2>2, <4>1
    <3>2. ASSUME NEW i \in m..N PROVE i \in R
      <4>1. i \in 1..N /\ (i = m \/ m < i)
        BY <2>2
      <4> QED BY <4>1
    <3> QED BY <3>1, <3>2
  <2>4. Cardinality(R) = N - m + 1
    <3>1. m \in Int /\ N \in Int /\ ~(m > N)
      BY <2>2
    <3>2. Cardinality(m..N) = IF m > N THEN 0 ELSE N - m + 1
      BY <3>1, FS_Interval
    <3> QED BY <2>3, <3>1, <3>2
  <2> QED BY <2>2, <2>3, <2>4
<1> QED BY <1>1, <1>2

(* The header and the positions of a message lead back to what the payout  *)
(* asked of each account.                                                  *)
LEMMA MessageIsRead ==
  ASSUME NEW payer \in Keys, NEW list \in Seq(CallsBy(payer)), Len(list) # 0,
         NEW uses, uses = UsesOf(payer, list), NEW m, m = Message(payer, list)
  PROVE  /\ m.keys[1] = payer /\ IsInjective(m.keys)
         /\ \A i \in DOMAIN m.keys : Flags(m, i) = MergedUse(uses, m.keys[i])
         /\ \A n \in DOMAIN m.calls :
              /\ m.keys[m.calls[n].program] = list[n].program
              /\ \A k \in DOMAIN m.calls[n].uses :
                   m.keys[m.calls[n].uses[k]] = list[n].uses[k].key
<1> DEFINE K == Mentioned(uses)  N == Cardinality(K)
           key(n) == KeyAt(uses, n)
           use(n) == MergedUse(uses, key(n))
           accounts == CompiledAccounts(payer, list)
<1>1. /\ uses \in Seq(UsesBy(payer)) /\ Len(uses) \in Nat \ {0}
      /\ uses[1] = Use(payer, TRUE, TRUE)
      /\ \A n \in 1..Len(list) :
           /\ list[n].program \in K
           /\ \A k \in 1..Len(list[n].uses) : list[n].uses[k].key \in K
  BY UsesAre
<1>2. Len(uses) \in Nat /\ DOMAIN uses = 1..Len(uses)
  BY <1>1
<1>3. /\ N \in Nat /\ \A n \in 1..N : key(n) \in K
      /\ \A i, j \in 1..N : i < j => Precedes(uses, key(i), key(j))
      /\ \A k \in K : \E n \in 1..N : key(n) = k
  BY <1>2, KeysAreInOrder
<1>4. accounts = [n \in 1..N |-> use(n)]
  BY DEF CompiledAccounts, KeyAt, Before, Earlier, Mentioned
<1>5. \A i, j \in 1..N : key(i) = key(j) => i = j
  <2> SUFFICES ASSUME NEW i \in 1..N, NEW j \in 1..N, key(i) = key(j), i # j PROVE FALSE
    OBVIOUS
  <2>1. i < j \/ j < i
    BY <1>3
  <2>2. Precedes(uses, key(i), key(j)) \/ Precedes(uses, key(j), key(i))
    BY <1>3, <2>1
  <2> QED BY <1>2, <1>3, <2>2, OrderIsTotal
<1>6. payer \in K /\ uses[1].key = payer /\ uses[1].signer /\ uses[1].writable /\ 1 \in DOMAIN uses
  BY <1>1, <1>2 DEF Mentioned, Use
<1>7. RankOf(uses, payer) = 0 /\ FirstUse(uses, payer) = 1
  <2>1. FirstUse(uses, payer) = 1
    BY <1>2, <1>6, FirstUseIs
  <2>2. MergedUse(uses, payer).signer /\ MergedUse(uses, payer).writable
    BY <1>6 DEF MergedUse, Use
  <2> QED BY <2>1, <2>2 DEF RankOf, Rank
<1>8. 1 \in 1..N /\ key(1) = payer
  <2>1. PICK n \in 1..N : key(n) = payer
    BY <1>3, <1>6
  <2>2. 1 \in 1..N
    BY <1>3
  <2>3. n = 1
    <3> SUFFICES ASSUME n # 1 PROVE FALSE
      OBVIOUS
    <3>1. Precedes(uses, key(1), payer)
      <4>1. 1 < n
        BY <1>3
      <4> QED BY <1>3, <2>1, <2>2, <4>1
    <3>2. FirstUse(uses, key(1)) \in 1..Len(uses) /\ RankOf(uses, key(1)) \in 0..3
      BY <1>2, <1>3, <2>2, FirstUseIs, RankIs
    <3> HIDE DEF key
    <3> QED BY <1>2, <1>7, <3>1, <3>2 DEF Precedes, RankOf
  <2> QED BY <2>1, <2>2, <2>3
<1> HIDE DEF N, key, use, accounts
<1>9. ASSUME NEW k \in K, k # payer PROVE ~MergedUse(uses, k).signer
  <2>1. ASSUME NEW i \in DOMAIN uses, uses[i].signer PROVE uses[i].key = payer
    <3>1. uses[i] \in UsesBy(payer)
      BY <1>1
    <3> QED BY <2>1, <3>1 DEF UsesBy
  <2> QED BY <1>9, <2>1 DEF MergedUse, Use
<1>10. ASSUME NEW i \in 1..N
       PROVE  /\ use(i).key = key(i) /\ use(i).signer \in BOOLEAN /\ use(i).writable \in BOOLEAN
              /\ use(i).signer <=> i = 1
              /\ i = 1 => use(i).writable
              /\ use(i) = Use(use(i).key, use(i).signer, use(i).writable)
  <2>1. /\ use(i).key = key(i) /\ use(i).signer \in BOOLEAN /\ use(i).writable \in BOOLEAN
    BY RankIs DEF use
  <2>2. use(i) = Use(use(i).key, use(i).signer, use(i).writable)
    BY DEF use, MergedUse, Use
  <2>3. CASE i = 1
    <3>1. MergedUse(uses, payer).signer /\ MergedUse(uses, payer).writable
      BY <1>6 DEF MergedUse, Use
    <3> QED BY <1>8, <2>1, <2>2, <2>3, <3>1 DEF use
  <2>4. CASE i # 1
    <3>1. key(i) \in K /\ key(i) # payer
      BY <1>3, <1>5, <1>8, <2>4
    <3>2. ~use(i).signer
      BY <1>9, <3>1 DEF use
    <3> QED BY <2>1, <2>2, <2>4, <3>2
  <2> QED BY <2>3, <2>4
<1> DEFINE R == {i \in 1..N : use(i).signer = FALSE /\ ~use(i).writable}
<1>11. ReadonlyCount(accounts, TRUE) = 0 /\ ReadonlyCount(accounts, FALSE) = Cardinality(R)
  <2>1. DOMAIN accounts = 1..N /\ \A i \in 1..N : accounts[i] = use(i)
    BY <1>4
  <2>2. {i \in DOMAIN accounts : accounts[i].signer = TRUE /\ ~accounts[i].writable} = {}
    BY <1>10, <2>1
  <2>3. {i \in DOMAIN accounts : accounts[i].signer = FALSE /\ ~accounts[i].writable} = R
    BY <2>1
  <2> HIDE DEF R
  <2> QED BY <2>2, <2>3, FS_EmptySet DEF ReadonlyCount
<1>12. /\ Cardinality(R) \in Nat /\ \A i \in 1..N : i \in R <=> i > N - Cardinality(R)
  <2>1. \A i \in R, j \in 1..N : i < j => j \in R
    <3> SUFFICES ASSUME NEW i \in R, NEW j \in 1..N, i < j PROVE j \in R
      OBVIOUS
    <3>1. i \in 1..N /\ ~use(i).signer /\ ~use(i).writable
      BY <1>10
    <3>2. RankOf(uses, key(i)) = 3
      BY <3>1, RankIs DEF use
    <3>3. RankOf(uses, key(i)) <= RankOf(uses, key(j)) /\ RankOf(uses, key(j)) \in 0..3
      BY <1>2, <1>3, <3>1, OrderIsTotal, RankIs
    <3>4. RankOf(uses, key(j)) = 3
      BY <3>2, <3>3
    <3>5. ~use(j).signer /\ ~use(j).writable
      BY <3>4, RankIs DEF use
    <3> QED BY <1>10, <3>5
  <2>2. R \in SUBSET (1..N)
    OBVIOUS
  <2> HIDE DEF R
  <2> QED BY <1>3, <2>1, <2>2, LastOnes
<1> DEFINE r == Cardinality(R)
<1>13. /\ m.signers = 1 /\ m.readonlySigned = 0 /\ m.readonlyUnsigned = r
       /\ m.keys = [i \in 1..N |-> key(i)]
       /\ DOMAIN m.calls = DOMAIN list
       /\ \A n \in DOMAIN list :
            /\ m.calls[n].program = PositionOf(accounts, list[n].program)
            /\ m.calls[n].uses = [k \in DOMAIN list[n].uses |->
                                    PositionOf(accounts, list[n].uses[k].key)]
  <2> DEFINE call(n) == [program |-> PositionOf(accounts, list[n].program),
                         uses |-> [k \in DOMAIN list[n].uses |->
                                     PositionOf(accounts, list[n].uses[k].key)]]
             calls == [n \in DOMAIN list |-> call(n)]
             keys == [i \in DOMAIN accounts |-> accounts[i].key]
             signed == ReadonlyCount(accounts, TRUE)  unsigned == ReadonlyCount(accounts, FALSE)
  <2>1. m = [signers |-> 1, readonlySigned |-> signed, readonlyUnsigned |-> unsigned,
             keys |-> keys, calls |-> calls]
    BY DEF Message, accounts
  <2>2. keys = [i \in 1..N |-> key(i)]
    BY <1>4, <1>10
  <2>3. signed = 0 /\ unsigned = r
    BY <1>11
  <2>4. DOMAIN calls = DOMAIN list /\ \A n \in DOMAIN list : calls[n] = call(n)
    OBVIOUS
  <2>5. \A n : /\ call(n).program = PositionOf(accounts, list[n].program)
               /\ call(n).uses = [k \in DOMAIN list[n].uses |->
                                    PositionOf(accounts, list[n].uses[k].key)]
    OBVIOUS
  <2> HIDE DEF R, calls, keys, call, signed, unsigned
  <2> QED BY <2>1, <2>2, <2>3, <2>4, <2>5
<1> HIDE DEF R, r
<1>14. ASSUME NEW i \in 1..N PROVE Flags(m, i) = MergedUse(uses, m.keys[i])
  <2>1. m.keys[i] = key(i) /\ Len(m.keys) = N
    BY <1>3, <1>13
  <2>2. MergedUse(uses, m.keys[i]) = use(i)
    BY <2>1 DEF use
  <2>3. r \in Nat
    BY <1>12 DEF r
  <2>4. CASE i = 1
    <3>1. /\ (i <= m.signers) = TRUE /\ (i <= m.signers - m.readonlySigned) = TRUE
      BY <1>13, <2>4
    <3>2. Flags(m, i) = Use(key(i), TRUE, TRUE)
      BY <2>1, <3>1 DEF Flags
    <3>3. use(i) = Use(key(i), TRUE, TRUE)
      BY <1>10, <2>4
    <3> QED BY <2>2, <3>2, <3>3
  <2>5. CASE i # 1
    <3>1. (i <= m.signers) = FALSE
      BY <1>13, <2>5
    <3>2. (i <= Len(m.keys) - m.readonlyUnsigned) <=> i <= N - r
      BY <1>13, <2>1
    <3>3. i <= N - r <=> ~(i > N - r)
      BY <1>3, <2>3
    <3>4. i > N - r <=> ~use(i).writable
      BY <1>10, <1>12, <2>5 DEF R, r
    <3>5. Flags(m, i) = Use(key(i), FALSE, i <= Len(m.keys) - m.readonlyUnsigned)
      BY <2>1, <3>1 DEF Flags
    <3>6. (i <= Len(m.keys) - m.readonlyUnsigned) = use(i).writable
      BY <1>10, <3>2, <3>3, <3>4
    <3>7. use(i) = Use(key(i), FALSE, use(i).writable)
      BY <1>10, <2>5
    <3> QED BY <2>2, <3>5, <3>6, <3>7
  <2> QED BY <2>4, <2>5
<1>15. ASSUME NEW k \in K PROVE m.keys[PositionOf(accounts, k)] = k
  <2>1. \E i \in DOMAIN accounts : accounts[i].key = k
    BY <1>3, <1>4, <1>10
  <2> DEFINE p == PositionOf(accounts, k)
  <2>2. p \in DOMAIN accounts /\ accounts[p].key = k
    BY <2>1 DEF PositionOf
  <2> HIDE DEF p
  <2>3. p \in 1..N /\ m.keys[p] = key(p) /\ accounts[p].key = key(p)
    BY <1>4, <1>10, <1>13, <2>2
  <2> QED BY <2>2, <2>3 DEF p
<1>16. m.keys[1] = payer /\ DOMAIN m.keys = 1..N /\ IsInjective(m.keys)
  BY <1>5, <1>8, <1>13 DEF IsInjective
<1>17. ASSUME NEW n \in DOMAIN m.calls
       PROVE  /\ m.keys[m.calls[n].program] = list[n].program
              /\ \A k \in DOMAIN m.calls[n].uses :
                   m.keys[m.calls[n].uses[k]] = list[n].uses[k].key
  <2>1. n \in 1..Len(list) /\ n \in DOMAIN list
    BY <1>13
  <2>2. list[n].uses \in Seq(UsesBy(payer))
    <3>1. list[n] \in CallsBy(payer)
      BY <2>1
    <3> QED BY <3>1 DEF CallsBy
  <2>3. DOMAIN list[n].uses = 1..Len(list[n].uses)
    BY <2>2
  <2>4. m.keys[m.calls[n].program] = list[n].program
    <3>1. list[n].program \in K
      BY <1>1, <2>1
    <3>2. m.calls[n].program = PositionOf(accounts, list[n].program)
      BY <1>13, <2>1
    <3> QED BY <1>15, <3>1, <3>2
  <2>5. ASSUME NEW k \in DOMAIN m.calls[n].uses
        PROVE  m.keys[m.calls[n].uses[k]] = list[n].uses[k].key
    <3>1. /\ k \in DOMAIN list[n].uses
          /\ m.calls[n].uses[k] = PositionOf(accounts, list[n].uses[k].key)
      BY <1>13, <2>1, ZenonT(60)
    <3>2. list[n].uses[k].key \in K
      BY <1>1, <2>1, <2>3, <3>1
    <3> QED BY <1>15, <3>1, <3>2
  <2> QED BY <2>4, <2>5
<1> QED BY <1>14, <1>16, <1>17

(* The inductive invariant: what is to be written is well formed, and      *)
(* what is written is what the code writes for it.                         *)
IsSubject ==
  \/ form = "evm" /\ subject \in Transactions
  \/ form = "shortvec" /\ subject \in TwoByteLengths
  \/ form = "base58" /\ subject \in Seq(Byte)
  \/ form = "xaddress" /\ subject \in
       [id : {1, 2}, tag : {n \in Numbers : n \div 16777216 < 256} \cup {-1}]
  \/ /\ form = "solana" /\ DOMAIN subject = {"payer", "list"} /\ subject.payer \in Keys
     /\ subject.list \in Seq(CallsBy(subject.payer)) /\ Len(subject.list) # 0

IsWritten ==
  /\ form = "evm" => wire = <<SigningPayload(subject), RawTransaction(subject, 1, <<9, 9>>)>>
  /\ form = "shortvec" => wire = <<ShortVec(subject)>>
  /\ form = "base58" => wire = <<Base58(subject)>>
  /\ form = "xaddress" => wire = <<XAddress(subject.id, subject.tag)>>
  /\ form = "solana" => wire = <<Message(subject.payer, subject.list)>>

FormatsInv == IsSubject /\ (wire = <<>> \/ IsWritten)

(* What is to be written is well formed.                                   *)
LEMMA FormatsStart == FormatsInit => FormatsInv
<1> SUFFICES ASSUME FormatsInit PROVE IsSubject /\ wire = <<>>
  BY DEF FormatsInv
<1>1. CASE form = "evm" /\ subject \in Transactions
  BY <1>1, SMTT(60) DEF FormatsInit, IsSubject
<1>2. CASE form = "shortvec" /\ subject \in Numbers \cap 0..16383
  BY <1>2, SMT DEF FormatsInit, IsSubject, TwoByteLengths
<1>3. CASE form = "base58" /\ subject \in Payloads
  <2>1. subject \in Seq(Byte)
    BY <1>3, FormatsAssumption
  <2> QED BY <1>3, <2>1 DEF FormatsInit, IsSubject
<1>4. CASE form = "xaddress" /\ subject \in
             [id : {1, 2}, tag : {n \in Numbers : n \div 16777216 < 256} \cup {-1}]
  BY <1>4, SMT DEF FormatsInit, IsSubject
<1>5. CASE form = "solana" /\ subject \in
             {[payer |-> a, list |-> NativeTransfer(a, b)] : a, b \in Keys}
  <2>1. PICK a \in Keys, b \in Keys : subject = [payer |-> a, list |-> NativeTransfer(a, b)]
    BY <1>5
  <2>2. subject.payer = a /\ subject.list = NativeTransfer(a, b)
        /\ DOMAIN subject = {"payer", "list"}
    BY <2>1
  <2>3. subject.list \in Seq(CallsBy(subject.payer)) /\ Len(subject.list) # 0
    BY <2>2, NativeIsCall
  <2> QED BY <1>5, <2>2, <2>3, SMT DEF FormatsInit, IsSubject
<1>6. CASE form = "solana" /\ subject \in
             {[payer |-> a, list |-> TokenTransfer(a, b, s, d)] : a, b, s, d \in Keys}
  <2>1. PICK a \in Keys, b \in Keys, s \in Keys, d \in Keys :
          subject = [payer |-> a, list |-> TokenTransfer(a, b, s, d)]
    BY <1>6
  <2>2. subject.payer = a /\ subject.list = TokenTransfer(a, b, s, d)
        /\ DOMAIN subject = {"payer", "list"}
    BY <2>1
  <2>3. subject.list \in Seq(CallsBy(subject.payer)) /\ Len(subject.list) # 0
    <3>1. TokenTransfer(a, b, s, d) \in Seq(CallsBy(a)) /\ Len(TokenTransfer(a, b, s, d)) = 2
      BY TokenIsCall
    <3> QED BY <2>2, <3>1
  <2> QED BY <1>6, <2>2, <2>3, SMT DEF FormatsInit, IsSubject
<1> QED BY <1>1, <1>2, <1>3, <1>4, <1>5, <1>6, SMT DEF FormatsInit

(* What is written is what the code writes for it.                         *)
LEMMA FormatsStep == FormatsInv /\ [Write]_wireVars => FormatsInv'
<1> SUFFICES ASSUME FormatsInv, [Write]_wireVars PROVE FormatsInv'
  OBVIOUS
<1>1. CASE Write
  <2>1. IsSubject' 
    BY <1>1, SMT DEF FormatsInv, IsSubject, Write
  <2>2. IsWritten'
    BY <1>1, SMT DEF Write, IsWritten
  <2> QED BY <2>1, <2>2 DEF FormatsInv
<1>2. CASE UNCHANGED wireVars
  BY <1>2, SMT DEF wireVars, FormatsInv, IsSubject, IsWritten
<1> QED BY <1>1, <1>2

(* What the code writes is read as what it was made of.                    *)
LEMMA FormatsLeadBack == FormatsInv => ReadAsWritten
<1> SUFFICES ASSUME IsSubject, IsWritten PROVE ReadAsWritten
  BY DEF FormatsInv, ReadAsWritten
<1>1. CASE form = "evm"
  <2>1. subject \in Transactions
    BY <1>1 DEF IsSubject
  <2> DEFINE signed == SigningPayload(subject)  sent == RawTransaction(subject, 1, <<9, 9>>)
  <2>2. wire[1] = signed /\ wire[2] = sent
    BY <1>1 DEF IsWritten
  <2>3. <<9, 9>> \in Seq(Byte)
    BY DEF Byte
  <2> DEFINE t == subject
  <2>4. /\ IsListOf(signed, 9) /\ IsListOf(sent, 9)
        /\ SubSeq(ListItems(sent, 9), 1, 6) = SubSeq(ListItems(signed, 9), 1, 6)
        /\ ListItems(signed, 9)[1] = BytesOf(t.nonce) /\ ListItems(signed, 9)[4] = t.to
        /\ ValueOf(ListItems(signed, 9)[5], 256) = t.value /\ ListItems(signed, 9)[6] = t.data
        /\ ValueOf(ListItems(signed, 9)[7], 256) = t.chain
        /\ (ValueOf(ListItems(sent, 9)[7], 256) - 35) \div 2 = t.chain
        /\ ListItems(sent, 9)[9] = <<9, 9>>
    <3> DEFINE one == 1  r == <<9, 9>>
    <3>1. /\ t \in Transactions /\ one \in {0, 1} /\ r \in Seq(Byte)
          /\ signed = SigningPayload(t) /\ sent = RawTransaction(t, one, r)
      BY <2>1, <2>3
    <3> HIDE DEF t, one, r, signed, sent
    <3>2. /\ IsListOf(signed, 9) /\ IsListOf(sent, 9)
          /\ SubSeq(ListItems(sent, 9), 1, 6) = SubSeq(ListItems(signed, 9), 1, 6)
          /\ ListItems(signed, 9)[1] = BytesOf(t.nonce) /\ ListItems(signed, 9)[4] = t.to
          /\ ValueOf(ListItems(signed, 9)[5], 256) = t.value /\ ListItems(signed, 9)[6] = t.data
          /\ ValueOf(ListItems(signed, 9)[7], 256) = t.chain
          /\ (ValueOf(ListItems(sent, 9)[7], 256) - 35) \div 2 = t.chain
          /\ ListItems(sent, 9)[9] = r
      BY <3>1, TransactionIsRead
    <3> QED BY <3>2 DEF r
  <2> HIDE DEF signed, sent
  <2> QED BY <1>1, <2>2, <2>4 DEF ReadAsWritten
<1>2. CASE form = "shortvec"
  <2> DEFINE b == ShortVec(subject)
  <2>1. subject \in TwoByteLengths /\ wire[1] = b
    BY <1>2, SMT DEF IsSubject, IsWritten
  <2>2. subject = (b[1] % 128) + (IF b[1] > 127 THEN b[2] * 128 ELSE 0)
    BY <2>1, LengthLeadsBack, Zenon
  <2> HIDE DEF b
  <2>3. subject = (wire[1][1] % 128) + (IF wire[1][1] > 127 THEN wire[1][2] * 128 ELSE 0)
    BY <2>1, <2>2, Zenon
  <2>4. form # "evm" /\ form # "base58" /\ form # "xaddress" /\ form # "solana"
    BY <1>2
  <2> QED BY <1>2, <2>3, <2>4, Zenon DEF ReadAsWritten
<1>3. CASE form = "base58"
  <2>1. subject \in Seq(Byte) /\ wire[1] = Base58(subject)
    BY <1>3 DEF IsSubject, IsWritten
  <2>2. Unbase58(wire[1]) = subject
    BY <2>1, Base58LeadsBack
  <2> QED BY <1>3, <2>2 DEF ReadAsWritten
<1>4. CASE form = "xaddress"
  <2>1. subject \in [id : {1, 2}, tag : {n \in Numbers : n \div 16777216 < 256} \cup {-1}]
    BY <1>4, SMT DEF IsSubject
  <2> DEFINE id == subject.id  tag == subject.tag  x == XAddress(id, tag)
  <2>2. id \in {1, 2} /\ tag \in {n \in Numbers : n \div 16777216 < 256} \cup {-1}
        /\ subject = [id |-> id, tag |-> tag]
    BY <2>1, SMT
  <2>3. wire[1] = x
    BY <1>4 DEF IsWritten
  <2>4. x = XAddress(id, tag)
    OBVIOUS
  <2> HIDE DEF id, tag, x
  <2>5. Classic(x) = [id |-> id, tag |-> tag]
    BY <2>2, <2>4, AddressLeadsBack, SMT
  <2>6. Classic(wire[1]) = subject
    BY <2>2, <2>3, <2>5, SMTT(60)
  <2> QED BY <1>4, <2>6, SMT DEF ReadAsWritten
<1>5. CASE form = "solana"
  <2> DEFINE payer == subject.payer  list == subject.list
             uses == UsesOf(payer, list)  m == Message(payer, list)
  <2>1. payer \in Keys /\ list \in Seq(CallsBy(payer)) /\ Len(list) # 0
    BY <1>5 DEF IsSubject
  <2>2. wire[1] = m
    BY <1>5 DEF IsWritten
  <2>3. uses = UsesOf(payer, list) /\ m = Message(payer, list)
    OBVIOUS
  <2> HIDE DEF uses, m
  <2>4. /\ m.keys[1] = payer /\ IsInjective(m.keys)
        /\ \A i \in DOMAIN m.keys : Flags(m, i) = MergedUse(uses, m.keys[i])
        /\ \A n \in DOMAIN m.calls :
             /\ m.keys[m.calls[n].program] = list[n].program
             /\ \A k \in DOMAIN m.calls[n].uses :
                  m.keys[m.calls[n].uses[k]] = list[n].uses[k].key
    <3> HIDE DEF payer, list
    <3> QED BY <2>1, <2>3, MessageIsRead
  <2> QED BY <1>5, <2>2, <2>3, <2>4 DEF ReadAsWritten
<1> QED BY <1>1, <1>2, <1>3, <1>4, <1>5 DEF IsSubject

(* Whatever the workers write, any number, call data, base58 payload,      *)
(* X-address or set of Solana keys, is read by the chain's rules as what it*)
(* was made of (rlp.go, signLegacyEVMTransaction, solanaSignTransaction,   *)
(* base58Encode, xrpClassicToXAddress).                                    *)
THEOREM FormatsAreRead == FormatsSpec => []ReadAsWritten
<1>1. FormatsSpec => []FormatsInv
  BY FormatsStart, FormatsStep, PTL DEF FormatsSpec
<1> QED BY <1>1, FormatsLeadBack, PTL
=============================================================================
