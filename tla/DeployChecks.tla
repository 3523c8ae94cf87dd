----------------------------- MODULE DeployChecks -----------------------------
(***************************************************************************)
(* deploy-check against a running deployment: a fixed list of checks, one  *)
(* request after another, the first failure ends the run, and the report   *)
(* is written when the run has ended.  Mutating checks create orders, send *)
(* payouts and change the administrator's account and change it back.      *)
(***************************************************************************)
EXTENDS FinalPlans, TLC

CONSTANTS
  PlanEnvs,     \* environments final-plan is run with
  CheckEnvs,    \* environments deploy-check is run with
  Database,     \* what final-plan reads
  MatrixRoom,   \* orders the pages of the matrix check hold
  MaxRuns       \* bound: runs of deploy-check

VARIABLES
  plan, readiness,  \* the plan file and its readiness report
  check,            \* the run in progress: config, checks left, recorded ones, wallets
  account,          \* the administrator's credentials: "current" or "next"
  orders,           \* the deployment's orders
  report,           \* the report file
  seen,             \* every check that ever passed
  runs

checksVars == <<plan, readiness, check, account, orders, report, seen, runs>>

None == [status |-> "none"]
Step(name, of) == [name |-> name, of |-> of]
Note(status, name, of) == [status |-> status, name |-> name, of |-> of]
Resting == [status |-> "none", todo |-> <<>>, notes |-> {}, wallets |-> {}]

ChecksInit ==
  /\ plan = None /\ readiness = None /\ report = None /\ check = Resting
  /\ account = "current" /\ orders = {Step("invoice", DefaultCryptos[1])}
  /\ seen = {} /\ runs = 0

(* final-plan replaces the plan and its readiness report.  A run of        *)
(* deploy-check reads its plan when it begins, so a plan written during one*)
(* is a plan written after it.                                             *)
WritePlan ==
  \E env \in PlanEnvs :
    /\ check.status = "none" /\ CanBuild(env, Database)
    /\ plan' = [status |-> "plan"] @@ Build(env, Database)
    /\ readiness' = [status |-> "report"] @@ Readiness(Build(env, Database))
    /\ UNCHANGED <<check, account, orders, report, seen, runs>>

EachOf(S, names) ==
  LET order == SelectSeq(DefaultCryptos, LAMBDA c : c \in S)
  IN [i \in 1..(Len(order) * Len(names)) |->
        Step(names[((i - 1) % Len(names)) + 1], order[((i - 1) \div Len(names)) + 1])]

Once(names) == [i \in DOMAIN names |-> Step(names[i], "")]
If(enabled, steps, skipped) ==
  IF enabled THEN steps ELSE [i \in DOMAIN skipped |-> Step("skip", skipped[i])]

OfWorkers(workers, names) == EachOf({NativeOf[w] : w \in workers}, names)

(* What a run does, in the order of Run; a check left out is recorded as   *)
(* skipped.                                                                *)
Run(cfg) ==
  Once(<<"main_healthz", "main_readyz", "main_readyz_parallel">>)
  \o If(cfg.order, Once(<<"order_lookup", "order_lookup_parallel">>), <<"order_lookup">>)
  \o If(cfg.list, Once(<<"order_list", "order_list_parallel">>), <<"order_list">>)
  \o If(cfg.mainStatus, EachOf(cfg.cryptos, <<"main_status">>), <<"main_status">>)
  \o If(cfg.admin # "", Once(<<"admin_auth">>), <<"admin_auth">>)
  \o If(cfg.needPayment, Once(<<"payment_coverage">>), <<"payment_coverage">>)
  \o If(cfg.needPayout, Once(<<"payout_coverage">>), <<"payout_coverage">>)
  \o (IF cfg.next = "" THEN <<>>
      ELSE If(cfg.mutating, Once(<<"admin_account_update", "admin_account_updated_auth",
                "admin_account_revert", "admin_account_reverted_auth", "admin_account_roundtrip">>),
              <<"admin_account_roundtrip">>))
  \o If(cfg.workers # {}, OfWorkers(cfg.workers, <<"worker_healthz", "worker_readyz">>), <<"worker_readyz">>)
  \o If(cfg.mutating, OfWorkers(DOMAIN cfg.address, <<"worker_address">>), <<"worker_address">>)
  \o If(cfg.mutating, EachOf(DOMAIN cfg.payments, <<"payment_request", "payment_order">>),
        <<"payment_request", "payment_order">>)
  \o If(cfg.mutating, EachOf(DOMAIN cfg.payouts, <<"payout_dispatch", "payout_status", "payout_order">>),
        <<"payout_dispatch", "payout_status", "payout_order">>)
  \o If(cfg.matrix, Once(<<"order_status_matrix">>), <<"order_status_matrix">>)

(* A mutating run is refused while a placeholder is left in its config.    *)
Begin ==
  /\ check.status = "none" /\ plan # None /\ runs < MaxRuns /\ runs' = runs + 1
  /\ \E env \in CheckEnvs :
       LET cfg == LoadConfig(plan, env)
       IN IF cfg.mutating /\ PlanPlaceholderFields(cfg) # {}
          THEN /\ report' = [status |-> "failed", mutating |-> TRUE, coverage |-> cfg.coverage,
                             notes |-> {Note("failed", "plan_placeholders", "")}]
               /\ UNCHANGED check
          ELSE /\ check' = [status |-> "running", cfg |-> cfg, todo |-> Run(cfg),
                            notes |-> {}, wallets |-> {}]
               /\ UNCHANGED report
  /\ UNCHANGED <<plan, readiness, account, orders, seen>>

(* The checks.  Each asks something of the configuration and of the        *)
(* deployment, and what its request changes there when it arrives.         *)
Changes(newAccount, newOrders) == account' = newAccount /\ orders' = newOrders
OnlyReads == Changes(account, orders)
AsAdmin == check.cfg.admin # "" /\ account = "current"
WithKey == check.cfg.apiKey # ""

checkJSONStatus(s) == s.name \in {"main_healthz", "main_readyz"} /\ OnlyReads
checkMainReadyParallel(s) == s.name = "main_readyz_parallel" /\ OnlyReads
checkMainStatuses(s) == s.name = "main_status" /\ WithKey /\ OnlyReads

checkOrder(s) == s.name = "order_lookup" /\ WithKey /\ OnlyReads
checkOrderParallel(s) == s.name = "order_lookup_parallel" /\ WithKey /\ OnlyReads
checkOrderList(s) == s.name = "order_list" /\ WithKey /\ OnlyReads
checkOrderListParallel(s) == s.name = "order_list_parallel" /\ WithKey /\ OnlyReads

(* Every status of every coin, by as many orders as the pages hold.        *)
checkOrderStatusMatrix(s) ==
  /\ s.name = "order_status_matrix" /\ WithKey /\ OnlyReads
  /\ orders # {} /\ Cardinality(orders) <= MatrixRoom

checkPaymentCoveragePlan(s) ==
  s.name = "payment_coverage" /\ check.cfg.coverage \subseteq DOMAIN check.cfg.payments /\ OnlyReads
checkPayoutCoveragePlan(s) ==
  s.name = "payout_coverage" /\ check.cfg.coverage \subseteq DOMAIN check.cfg.payouts /\ OnlyReads

checkAdmin(s) == s.name = "admin_auth" /\ AsAdmin /\ OnlyReads

(* checkAdminRoundTrip: to the other credentials and back, each proved.    *)
checkAdminRoundTrip(s) ==
  \/ s.name = "admin_account_update" /\ AsAdmin /\ Changes("next", orders)
  \/ s.name = "admin_account_updated_auth" /\ account = "next" /\ OnlyReads
  \/ s.name = "admin_account_revert" /\ account = "next" /\ Changes("current", orders)
  \/ s.name = "admin_account_reverted_auth" /\ AsAdmin /\ OnlyReads
  \/ s.name = "admin_account_roundtrip" /\ OnlyReads

checkWorkerReadiness(s) == s.name \in {"worker_healthz", "worker_readyz"} /\ OnlyReads

checkWorkerAddress(s) ==
  /\ s.name = "worker_address" /\ OnlyReads
  /\ \E w \in DOMAIN check.cfg.address :
       LET address == check.cfg.address[w]
       IN address.crypto = s.of /\ address.user # "" /\ address.pass # ""

checkPayment(s) ==
  s.name = "payment_request" /\ WithKey /\ Changes(account, orders \cup {Step("invoice", s.of)})
checkPaymentOrder(s) ==
  s.name = "payment_order" /\ Step("invoice", s.of) \in orders /\ OnlyReads

(* A payout goes to the address its payment was given.                     *)
checkPayout(s) ==
  /\ s.name = "payout_dispatch" /\ AsAdmin
  /\ s.of \in check.wallets /\ check.cfg.payouts[s.of] # ""
  /\ Changes(account, orders \cup {Step("payout", s.of)})
checkPayoutStatus(s) ==
  s.name = "payout_status" /\ WithKey /\ Step("payout", s.of) \in orders /\ OnlyReads
checkPayoutOrder(s) ==
  s.name = "payout_order" /\ WithKey /\ Step("payout", s.of) \in orders /\ OnlyReads

Arrives(s) ==
  \/ checkJSONStatus(s) \/ checkMainReadyParallel(s) \/ checkMainStatuses(s)
  \/ checkOrder(s) \/ checkOrderParallel(s) \/ checkOrderList(s) \/ checkOrderListParallel(s)
  \/ checkOrderStatusMatrix(s) \/ checkPaymentCoveragePlan(s) \/ checkPayoutCoveragePlan(s)
  \/ checkAdmin(s) \/ checkAdminRoundTrip(s) \/ checkWorkerReadiness(s) \/ checkWorkerAddress(s)
  \/ checkPayment(s) \/ checkPaymentOrder(s)
  \/ checkPayout(s) \/ checkPayoutStatus(s) \/ checkPayoutOrder(s)

(* What a passed check records: the matrix names the coins of the orders   *)
(* it listed, a payout's checks the transactions they were shown.          *)
Recorded(s, shown) ==
  {Note("ok", s.name, s.of)}
  \cup (IF s.name = "order_status_matrix" THEN {Note("ok", s.name, o.of) : o \in orders} ELSE {})
  \cup (IF shown THEN {Note("ok", "txids", s.of)} ELSE {})

Close(status, notes) ==
  /\ report' = [status |-> status, mutating |-> check.cfg.mutating,
                coverage |-> check.cfg.coverage, notes |-> notes]
  /\ check' = Resting

Pass ==
  /\ check.status = "running"
  /\ LET s == Head(check.todo) IN
     /\ Arrives(s)
     /\ \E shown \in {FALSE, s.name \in {"payout_dispatch", "payout_status", "payout_order"}} :
          LET notes == Recorded(s, shown) IN
          /\ seen' = seen \cup {Step(n.name, n.of) : n \in notes}
          /\ IF Len(check.todo) = 1 THEN Close("ok", check.notes \cup notes)
             ELSE /\ check' = [check EXCEPT !.todo = Tail(@), !.notes = @ \cup notes,
                         !.wallets = IF s.name = "payment_request" THEN @ \cup {s.of} ELSE @]
                  /\ UNCHANGED report
  /\ UNCHANGED <<plan, readiness, runs>>

Skip ==
  /\ check.status = "running" /\ Head(check.todo).name = "skip"
  /\ LET notes == check.notes \cup {Note("skipped", Head(check.todo).of, "")}
     IN IF Len(check.todo) = 1 THEN Close("ok", notes)
        ELSE check' = [check EXCEPT !.todo = Tail(@), !.notes = notes] /\ UNCHANGED report
  /\ UNCHANGED <<plan, readiness, account, orders, seen, runs>>

(* A failed check ends the run, also between an update of the account and  *)
(* its revert.  The request may have arrived and only its answer be lost;  *)
(* the deadline of the whole run is one such failure.                      *)
Fail ==
  /\ check.status = "running"
  /\ LET s == Head(check.todo) IN
     /\ s.name # "skip"
     /\ Close("failed", check.notes \cup {Note("failed", s.name, "")})
     /\ Arrives(s) \/ UNCHANGED <<account, orders>>
  /\ UNCHANGED <<plan, readiness, seen, runs>>

(* A run that is stopped writes nothing: the report is that of an earlier  *)
(* run.                                                                    *)
StopRun ==
  /\ check.status = "running" /\ check' = Resting
  /\ UNCHANGED <<plan, readiness, account, orders, report, seen, runs>>

(* The administrator's account is set again by hand. *)
Repair ==
  /\ account = "next" /\ check.status = "none" /\ account' = "current"
  /\ UNCHANGED <<plan, readiness, check, orders, report, seen, runs>>

ChecksNext == WritePlan \/ Begin \/ Pass \/ Skip \/ Fail \/ StopRun \/ Repair

ChecksSpec == ChecksInit /\ [][ChecksNext]_checksVars
=============================================================================
