---------------------------- MODULE CutoverAudits ----------------------------
(***************************************************************************)
(* deploy/production-cutover.sh and the audits it runs in order.  Each     *)
(* audit reads files that others have left and leaves a file with its      *)
(* verdict; final-plan and deploy-check may replace theirs between any two *)
(* of them.  An audit that does not pass ends the script, which then puts  *)
(* the old containers back, unless it was told not to or is killed.        *)
(***************************************************************************)
EXTENDS DeployChecks

CONSTANT Defects   \* what preflight may find: subsets of {"tables", "indexes", "plans"}

VARIABLES
  stage,                          \* the step the script is at
  legacy, modern,                 \* old containers that run: "all", "some", "no"; the new ones
  broken,                         \* docker itself failed
  preflight, runtime, imported,   \* reports about the database, the image, the import
  audit, post, release, goal      \* verdicts

auditFiles == <<preflight, runtime, imported, audit, post, release, goal>>
containers == <<legacy, modern, broken>>
auditVars == <<checksVars, auditFiles, containers, stage>>

Stages == <<"idle", "runtime", "stop", "import", "preflight", "audit", "start", "verify",
            "release", "goal", "done">>

AuditsInit ==
  /\ ChecksInit /\ stage = "idle" /\ legacy = "all" /\ modern = FALSE /\ broken = FALSE
  /\ preflight = None /\ runtime = None /\ imported = None
  /\ audit = None /\ post = None /\ release = None /\ goal = None

(* The script starts from a plan and a report.  A run of deploy-check      *)
(* changes files only when it ends, so an audit during a run finds what it *)
(* finds before or after it.                                               *)
At(name) == stage = name /\ check.status = "none"
Following == Stages[1 + CHOOSE i \in DOMAIN Stages : Stages[i] = stage]

StartScript == At("idle") /\ plan # None /\ report # None /\ readiness # None
               /\ stage' = Following /\ UNCHANGED <<checksVars, auditFiles, containers>>

RollbackWhenStarted == stage \in {"start", "verify", "release", "goal"}

(* rollback_needed is set once every old container is stopped. *)
RollbackNeeded == stage \notin {"idle", "runtime", "stop", "done", "aborted", "left"}

(* Rolling back ignores a docker that fails: either half may be left out.  *)
(* ROLLBACK_ON_FAILURE=0 leaves everything as it is.                       *)
Rollback(running) ==
  \/ ~RollbackNeeded /\ stage' = "aborted" /\ UNCHANGED containers
  \/ /\ RollbackNeeded /\ stage' = "aborted"
     /\ \E removed, started \in BOOLEAN :
          /\ modern' = (running /\ ~removed)
          /\ legacy' = IF started THEN "all" ELSE legacy
          /\ broken' = (broken \/ ~removed \/ ~started)
  \/ /\ RollbackNeeded /\ stage' = "left"
     /\ modern' = running /\ UNCHANGED <<legacy, broken>>

(* A step that goes well leads on to the next one, any other to the trap.  *)
Ends(ok) == IF ok THEN stage' = Following /\ UNCHANGED containers ELSE Rollback(modern)

(* A script that is killed runs no trap.                                   *)
KillScript ==
  /\ check.status = "none"
  /\ stage \notin {"idle", "done", "aborted", "left"} /\ stage' = "left"
  /\ \/ UNCHANGED containers
     \/ stage = "stop" /\ legacy' = "some" /\ UNCHANGED <<modern, broken>>
     \/ stage = "start" /\ modern' = TRUE /\ UNCHANGED <<legacy, broken>>
  /\ UNCHANGED <<checksVars, auditFiles>>

RuntimeAudit ==
  /\ At("runtime")
  /\ \E clean \in BOOLEAN : runtime' = [status |-> IF clean THEN "ok" ELSE "fail"] /\ Ends(clean)
  /\ UNCHANGED <<checksVars, preflight, imported, audit, post, release, goal>>

(* docker stop may fail at any container and ends the script there. *)
StopLegacyContainers ==
  /\ At("stop")
  /\ \/ legacy' = "no" /\ stage' = Following /\ UNCHANGED <<modern, broken>>
     \/ legacy' \in {"all", "some"} /\ stage' = "aborted" /\ broken' = TRUE /\ UNCHANGED modern
  /\ UNCHANGED <<checksVars, auditFiles>>

(* A dry run or an import without rows is a report too. *)
Import ==
  /\ At("import")
  /\ \/ imported' \in [status : {"mariadb-upsert", "dry-run"}, rows : {0, 1}] /\ Ends(TRUE)
     \/ UNCHANGED imported /\ Ends(FALSE)
  /\ UNCHANGED <<checksVars, preflight, runtime, audit, post, release, goal>>

(* Missing indexes and query plans without one do not depend on the data;  *)
(* rows of the order index are counted.                                    *)
Preflight ==
  /\ At("preflight")
  /\ \E lacks \in Defects :
       LET passed == lacks \cap {"tables", "indexes"} = {} /\ Database.wallets # {} IN
       /\ preflight' = [status |-> IF passed THEN "pass" ELSE "blocked", lacks |-> lacks,
                        rows |-> "tables" \notin lacks]
       /\ Ends(passed)
  /\ UNCHANGED <<checksVars, runtime, imported, audit, post, release, goal>>

VerifyImportReport(required) ==
  IF imported = None THEN ~required ELSE imported.status = "mariadb-upsert" /\ imported.rows > 0
VerifyPreflightReport(required) ==
  IF preflight = None THEN ~required
  ELSE preflight.status = "pass" /\ preflight.lacks \cap {"tables", "indexes"} = {}

ProofsOfACoin == {"order_status_matrix", "payment_order", "payout_order", "txids"}
ProofsOfAPlan == {"main_status"} \cup ProofsOfACoin

(* What the checks of a report prove, whatever its verdict: of the coins   *)
(* asked for, and of any other that a check names.                         *)
ConsumeReport(rep, cs) ==
  LET ok(name, of) == Note("ok", name, of) \in rep.notes
  IN [c \in cs \cup {d \in Coins : \E g \in ProofsOfAPlan : ok(g, d)} |->
        {g \in ProofsOfAPlan : ok(g, c)}]
Answering(rep, name, ws) == \A w \in ws : Note("ok", name, NativeOf[w]) \in rep.notes

(* The coins a plan is to prove.                                           *)
Covered == Named(plan.coverage, plan.cryptos)

(* Every gate of the audit is on in the script. *)
CutoverAudit ==
  /\ At("audit")
  /\ LET rows == ConsumeReport(report, Covered)
         matrix == \E n \in report.notes : n.status = "ok" /\ n.name = "order_status_matrix"
         passed == /\ report.status = "ok" /\ matrix
                   /\ VerifyImportReport(TRUE) /\ VerifyPreflightReport(TRUE)
                   /\ \A c \in Covered : ProofsOfAPlan \subseteq rows[c]
                   /\ Answering(report, "worker_readyz", plan.workers)
                   /\ Answering(report, "worker_address", plan.workers)
     IN /\ audit' = [status |-> IF passed THEN "pass" ELSE "fail", rows |-> rows,
                     required |-> Covered]
        /\ Ends(passed)
  /\ UNCHANGED <<checksVars, preflight, runtime, imported, post, release, goal>>

(* The new containers are started and waited for. *)
StartServices ==
  /\ At("start")
  /\ \/ modern' = TRUE /\ stage' = Following /\ UNCHANGED <<legacy, broken>>
     \/ Rollback(TRUE)
  /\ UNCHANGED <<checksVars, auditFiles>>

(* A transaction must be there for every row of the cutover audit, also of *)
(* a coin that its plan did not name.                                      *)
VerifyPostCutover ==
  /\ At("verify")
  /\ \E ready \in BOOLEAN :
       LET passed == /\ ready /\ legacy = "no" /\ report.status = "ok" /\ audit.status = "pass"
                     /\ \A c \in DOMAIN audit.rows : "txids" \in audit.rows[c] IN
       post' = [status |-> IF passed THEN "pass" ELSE "fail"] /\ Ends(passed)
  /\ UNCHANGED <<checksVars, preflight, runtime, imported, audit, release, goal>>

(* The release audit takes the coins to cover from the plan as it is now.  *)
ValidatePlan ==
  /\ Covered # {} /\ plan.mutating /\ plan.needPayment /\ plan.needPayout /\ plan.matrix
  /\ Covered \subseteq DOMAIN plan.payments \cap DOMAIN plan.payouts
  /\ WorkerGaps(plan) = {}

ValidateOwnRows ==
  audit.status = "pass" /\ \A c \in DOMAIN audit.rows : ProofsOfACoin \subseteq audit.rows[c]

(* A coin without a row has proved nothing; the main status is not asked   *)
(* for again.                                                              *)
ValidateCutoverAudit ==
  /\ audit.status = "pass"
  /\ \A c \in Covered : c \in DOMAIN audit.rows /\ ProofsOfACoin \subseteq audit.rows[c]

ReleaseAudit ==
  /\ At("release")
  /\ LET passed == /\ ValidatePlan /\ ValidateCutoverAudit
                   /\ report.status = "ok" /\ report.mutating /\ post.status = "pass"
     IN /\ release' = [status |-> IF passed THEN "pass" ELSE "fail", coverage |-> Covered]
        /\ Ends(passed)
  /\ UNCHANGED <<checksVars, preflight, runtime, imported, audit, post, goal>>

----------------------------------------------------------------------------
(* The goal audit: one requirement each, "pass" or what stands in its way. *)
HasCheck(name) == report # None /\ report.status = "ok" /\ \E n \in report.notes :
                    n.status = "ok" /\ n.name = name

AuditRuntime == IF runtime = None THEN "missing" ELSE IF runtime.status = "ok" THEN "pass" ELSE "fail"

AuditMariaDBPreflight ==
  IF preflight = None THEN "missing"
  ELSE IF preflight.status # "pass" THEN "fail"
  ELSE IF preflight.lacks \cap {"tables", "indexes"} = {} THEN "pass" ELSE "blocked"

AuditCompleteOrders ==
  IF /\ preflight # None /\ preflight.rows
     /\ readiness # None /\ readiness.matrix /\ HasCheck("order_status_matrix")
  THEN "pass" ELSE IF preflight = None /\ readiness = None THEN "missing" ELSE "blocked"

AuditAdminChange ==
  IF HasCheck("admin_account_roundtrip") THEN "pass"
  ELSE IF readiness = None THEN "missing" ELSE "blocked"

AuditModularWorkers ==
  IF readiness = None THEN "missing"
  ELSE IF /\ readiness.workers # {} /\ readiness.addresses >= Cardinality(readiness.workers)
          /\ \A f \in readiness.left : f.name \notin {"worker_user", "worker_pass"}
          /\ HasCheck("worker_address")
       THEN "pass" ELSE "blocked"

AuditPerformance ==
  IF preflight = None THEN "missing"
  ELSE IF /\ "plans" \notin preflight.lacks
          /\ HasCheck("order_lookup_parallel") /\ HasCheck("order_list_parallel")
       THEN "pass" ELSE "blocked"

AuditRelease == IF release = None THEN "missing" ELSE IF release.status = "pass" THEN "pass" ELSE "fail"
AuditProductionCutover == IF post # None /\ post.status = "pass" /\ legacy = "no" THEN "pass" ELSE "blocked"

GoalAudit ==
  /\ At("goal")
  /\ LET verdicts == {AuditRuntime, AuditMariaDBPreflight, AuditCompleteOrders, AuditAdminChange,
                      AuditModularWorkers, AuditPerformance, AuditRelease, AuditProductionCutover}
     IN /\ goal' = [status |-> IF "fail" \in verdicts THEN "fail"
                              ELSE IF verdicts = {"pass"} THEN "pass" ELSE "blocked"]
        /\ Ends(verdicts = {"pass"})
  /\ UNCHANGED <<checksVars, preflight, runtime, imported, audit, post, release>>

AuditsNext ==
  \/ ChecksNext /\ UNCHANGED <<auditFiles, containers, stage>>
  \/ StartScript \/ RuntimeAudit \/ StopLegacyContainers \/ Import \/ Preflight
  \/ CutoverAudit \/ StartServices \/ VerifyPostCutover \/ ReleaseAudit \/ GoalAudit
  \/ KillScript

AuditsSpec == AuditsInit /\ [][AuditsNext]_auditVars

(* Audit tools (internal/releaseaudit): a release that passed covers only  *)
(* coins whose payment, payout with a transaction and order listing were   *)
(* seen to work, though the plan, the report and the audit it reads are    *)
(* files that other tools replace in any order.  The status of a coin was  *)
(* seen as well when the plan of the cutover audit named it; a plan that   *)
(* was widened since does not ask for it.                                  *)
PassedReleaseWasSeen ==
  /\ release # None /\ release.status = "pass" =>
       \A c \in release.coverage : {Step(n, c) : n \in ProofsOfACoin} \subseteq seen
  /\ audit # None /\ audit.status = "pass" =>
       \A c \in audit.required : {Step(n, c) : n \in ProofsOfAPlan} \subseteq seen

(* Audit tools (deploy/production-cutover.sh): wherever the script ends,   *)
(* one of the two systems runs and not both, as long as docker does what   *)
(* it is told: the new one after every audit has passed, the old one when  *)
(* any of them did not.  Two running systems would notify and pay twice.   *)
(* A script that is killed, or told not to roll back, may leave none of    *)
(* them running, and never both.                                           *)
OneSystemServes ==
  /\ stage \in {"done", "aborted"} /\ ~broken =>
       /\ modern <=> legacy # "all"
       /\ modern => goal # None /\ goal.status = "pass" /\ legacy = "no"
  /\ stage = "left" => ~modern \/ legacy = "no"
=============================================================================
