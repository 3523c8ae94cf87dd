------------------------------ MODULE FinalPlans ------------------------------
(***************************************************************************)
(* The plan a deployment check runs by: how final-plan builds it from the  *)
(* environment and the database, hides secrets in it and says whether it   *)
(* is ready, and how deploy-check lays its own environment over it.        *)
(* A text is "" (empty), "todo" (a placeholder) or "set".                  *)
(***************************************************************************)
EXTENDS Naturals, Sequences, FiniteSets

CONSTANTS
  DefaultCryptos,   \* every coin of the build, in the order of their names
  HostOf,           \* the worker of a coin; "" for one without
  NativeOf          \* the coin a worker proves its addresses with

Coins == {DefaultCryptos[i] : i \in DOMAIN DefaultCryptos}
Sorted(S) == SelectSeq(DefaultCryptos, LAMBDA c : c \in S)
Real(value) == value = "set"
Or(value, fallback) == IF value # "" THEN value ELSE fallback
OrReal(value, other) == IF Real(value) THEN value ELSE Or(other, value)
Secret(name, subject) == [name |-> name, of |-> subject]

(* The coins: all, the named ones, or the enabled wallets; no wallet       *)
(* enabled means all again.                                                *)
ResolveCryptos(env, db) ==
  CASE env.all -> Coins
    [] ~env.all /\ env.named # {} -> env.named
    [] OTHER -> IF env.useWallets /\ db.wallets # {} THEN db.wallets ELSE Coins

Opened(env, db) == env.useWallets /\ ~env.all /\ env.named = {} /\ db.wallets # {}

(* An unpaid order to look up, else the coin with most of them. *)
PickOrderEvidence(env, db, cs) ==
  LET unpaid == db.unpaid \cap cs
  IN IF Opened(env, db) /\ unpaid # {}
     THEN [order |-> TRUE, listed |-> CHOOSE c \in unpaid : TRUE]
     ELSE [order |-> FALSE, listed |-> Sorted(cs)[1]]

(* The key given, unless wallets' keys are wanted and it is a placeholder; *)
(* "none" is the error of wallets without one.                             *)
ResolveAPIKey(env, db, cs) ==
  IF ~env.useKeys \/ Real(env.apiKey) THEN env.apiKey
  ELSE IF db.keyed \cap cs # {} THEN "set" ELSE "none"

WorkerCoverage(env, cs) ==
  [w \in {HostOf[c] : c \in cs} \ {""} |->
     [crypto |-> NativeOf[w], user |-> Or(env.workerUser, "todo"),
      pass |-> Or(env.workerPass, "todo")]]

(* A wallet's server key "user:password" gives both, a plain one only the  *)
(* password of a user that is known.                                       *)
ServerKeyCredentials(key, check) ==
  IF key = "pair" THEN [user |-> "set", pass |-> "set"]
  ELSE IF key = "plain" /\ Real(check.user) THEN [user |-> check.user, pass |-> "set"]
  ELSE [user |-> "", pass |-> ""]

FirstServerKey(db, candidates) ==
  LET keyed == SelectSeq(Sorted(candidates), LAMBDA c : db.serverKey[c] # "")
  IN IF keyed = <<>> THEN "" ELSE db.serverKey[keyed[1]]

ResolveWorkerCredentials(env, db, cs, checks) ==
  IF ~env.useServerKeys THEN checks
  ELSE [w \in DOMAIN checks |->
          LET check == checks[w]
              found == ServerKeyCredentials(FirstServerKey(db,
                         {check.crypto} \cup {c \in cs : HostOf[c] = w}), check)
          IN [check EXCEPT !.user = OrReal(@, found.user), !.pass = OrReal(@, found.pass)]]

(* Every text of a plan a person may still have to fill in. *)
Texts(plan) ==
  LET field(name, of, value) == [field |-> Secret(name, of), value |-> value]
  IN {field("api_key", "", plan.apiKey), field("admin_password", "", plan.admin),
      field("admin_update_password", "", plan.next)}
     \cup {field("payment_amount", c, plan.payments[c]) : c \in DOMAIN plan.payments}
     \cup {field("payout_amount", c, plan.payouts[c]) : c \in DOMAIN plan.payouts}
     \cup {field("worker_user", w, plan.address[w].user) : w \in DOMAIN plan.address}
     \cup {field("worker_pass", w, plan.address[w].pass) : w \in DOMAIN plan.address}

PlanPlaceholderFields(plan) == {t.field : t \in {u \in Texts(plan) : u.value = "todo"}}

(* A plan that changes nothing needs neither accounts of its own nor the   *)
(* workers' credentials.                                                   *)
PlanMissingFields(plan) ==
  {t.field : t \in {u \in Texts(plan) : u.value = "" /\
     CASE u.field.name = "api_key" -> DOMAIN plan.payments # {}
       [] u.field.name = "admin_password" -> plan.mutating \/ DOMAIN plan.payouts # {}
       [] u.field.name \in {"admin_update_password", "worker_user", "worker_pass"} -> plan.mutating
       [] OTHER -> TRUE}}

Redactable(env) ==
  {f \in {Secret("api_key", ""), Secret("admin_password", ""), Secret("admin_update_password", "")} :
     f.name \in env.files}
  \cup {Secret("worker_pass", w) : w \in IF "worker_pass" \in env.files
                                          THEN {HostOf[c] : c \in Coins} ELSE {}}

(* Secrets that came from files are hidden again, and their fields noted.  *)
ApplySecretRedaction(env, plan) ==
  LET hide == IF ~env.redact THEN {}
              ELSE {t.field : t \in {u \in Texts(plan) : Real(u.value) /\ u.field \in Redactable(env)}}
      shown(name, of, value) == IF Secret(name, of) \in hide THEN "todo" ELSE value
  IN [plan EXCEPT !.apiKey = shown("api_key", "", @), !.admin = shown("admin_password", "", @),
        !.next = shown("admin_update_password", "", @), !.hidden = hide,
        !.address = [w \in DOMAIN @ |-> [@[w] EXCEPT !.pass = shown("worker_pass", w, @)]]]

CanBuild(env, db) ==
  /\ ResolveCryptos(env, db) # {}
  /\ ResolveAPIKey(env, db, ResolveCryptos(env, db)) # "none"

Build(env, db) ==
  LET cs == ResolveCryptos(env, db)
      evidence == PickOrderEvidence(env, db, cs)
  IN ApplySecretRedaction(env,
       [cryptos |-> cs, coverage |-> cs, apiKey |-> ResolveAPIKey(env, db, cs),
        admin |-> env.admin, next |-> env.next, order |-> evidence.order,
        listed |-> evidence.listed, workers |-> {HostOf[c] : c \in cs} \ {""},
        address |-> ResolveWorkerCredentials(env, db, cs, WorkerCoverage(env, cs)),
        payments |-> [c \in cs |-> "set"], payouts |-> [c \in cs |-> Or(env.amount, "todo")],
        mutating |-> env.mutating, needPayment |-> env.needPayment, needPayout |-> env.needPayout,
        mainStatus |-> TRUE, list |-> TRUE, matrix |-> TRUE, hidden |-> {}])

CoverageGaps(plan) ==
  (IF plan.needPayment THEN plan.coverage \ DOMAIN plan.payments ELSE {})
  \cup (IF plan.needPayout THEN plan.coverage \ DOMAIN plan.payouts ELSE {})

WorkerGaps(plan) == plan.workers \ DOMAIN plan.address

(* A plan whose only placeholders are the hidden secrets is ready. *)
Readiness(plan) ==
  LET left == PlanPlaceholderFields(plan) \ plan.hidden
      absent == PlanMissingFields(plan) \ plan.hidden
  IN [ready |-> left = {} /\ absent = {} /\ CoverageGaps(plan) = {} /\ WorkerGaps(plan) = {}
                 /\ plan.matrix,
      left |-> left \cup absent, workers |-> plan.workers,
      addresses |-> Cardinality(DOMAIN plan.address), matrix |-> plan.matrix]

----------------------------------------------------------------------------
Switch(value, fallback) == IF value = "" THEN fallback ELSE value = "true"
Named(set, fallback) == IF set # {} THEN set ELSE fallback

(* deploy-check: values of its environment lie over the plan's; naming     *)
(* coins asks for their status too.                                        *)
ApplyEnvOverrides(plan, env) ==
  [plan EXCEPT !.apiKey = Or(env.apiKey, @), !.admin = Or(env.admin, @), !.next = Or(env.next, @),
               !.workers = Named(env.workers, @), !.cryptos = Named(env.cryptos, @),
               !.coverage = Named(env.coverage, @), !.order = @ \/ env.order,
               !.list = Switch(env.list, @), !.matrix = Switch(env.matrix, @),
               !.mainStatus = Switch(env.mainStatus, @ \/ env.cryptos # {}),
               !.mutating = Switch(env.mutating, @),
               !.needPayment = Switch(env.needPayment, @),
               !.needPayout = Switch(env.needPayout, @)]

(* Then amounts and credentials still empty or placeholders are looked up. *)
NormalizeConfig(plan, env) ==
  [plan EXCEPT
     !.cryptos = IF @ = {} THEN {DefaultCryptos[1]} ELSE @,
     !.coverage = IF @ # {} THEN @ ELSE IF plan.cryptos = {} THEN {DefaultCryptos[1]} ELSE plan.cryptos,
     !.payments = [c \in DOMAIN @ |-> OrReal(@[c], env.amount)],
     !.payouts = [c \in DOMAIN @ |-> OrReal(@[c], env.amount)],
     !.address = [w \in DOMAIN @ |-> [@[w] EXCEPT !.user = OrReal(@, env.workerUser),
                                                  !.pass = OrReal(@, env.workerPass)]]]

LoadConfig(plan, env) == NormalizeConfig(ApplyEnvOverrides(plan, env), env)
=============================================================================
