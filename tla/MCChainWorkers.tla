--------------------------- MODULE MCChainWorkers ---------------------------
(***************************************************************************)
(* The chain workers and the tools of a deployment for TLC.  The parts     *)
(* share no variable, so exploring one while the others rest reaches every *)
(* state of each; "part" says which one a behaviour explores.              *)
(***************************************************************************)
EXTENDS TronBackend, TronNodes, ChainBroadcasts, ChainTransfers, WireFormats, WorkerAccounts,
        CutoverAudits

CONSTANTS p1, p2

VARIABLE part

MCAsk == (p1 :> 1) @@ (p2 :> 2)
MCOldRows ==
  [address : {"a", "o"}, coin : {"own", "t"}, kind : {"other"}, key : {"plain", "wrong"}]
  \cup [address : {"o"}, coin : {""}, kind : {"fee_deposit", "other"}, key : {"plain", ""}]
MCStrings == {<<>>, <<0>>, <<127>>, <<128>>, <<0, 0, 5>>, <<255, 0>>}
             \cup {[i \in 1..n |-> 200] : n \in {3, 55, 56, 300}}
MCPayloads == {<<>>} \cup {<<a>> : a \in {0, 1, 57, 58, 255}}
              \cup {<<a, b, c>> : a, b, c \in {0, 1, 58, 255}}

MCCoins == <<"bnb", "btc">>
MCHostOf == ("bnb" :> "bnb") @@ ("btc" :> "")
MCNativeOf == "bnb" :> "bnb"
MCPlanEnv ==
  [all |-> FALSE, named |-> {"bnb"}, useWallets |-> TRUE, useKeys |-> TRUE, apiKey |-> "todo",
   admin |-> "set", next |-> "set", amount |-> "set", workerUser |-> "", workerPass |-> "set",
   useServerKeys |-> TRUE, redact |-> TRUE, files |-> {"admin_password", "worker_pass"},
   mutating |-> TRUE, needPayment |-> TRUE, needPayout |-> TRUE]
MCPlanEnvs == {MCPlanEnv, [MCPlanEnv EXCEPT !.named = {}, !.redact = FALSE, !.next = ""]}
MCCheckEnv ==
  [apiKey |-> "", admin |-> "set", next |-> "", amount |-> "", workerUser |-> "",
   workerPass |-> "set", workers |-> {}, cryptos |-> {}, coverage |-> {}, order |-> FALSE,
   list |-> "", matrix |-> "", mainStatus |-> "", mutating |-> "", needPayment |-> "",
   needPayout |-> ""]
MCCheckEnvs == {MCCheckEnv, [MCCheckEnv EXCEPT !.cryptos = {"bnb"}, !.needPayment = "false"],
                [MCCheckEnv EXCEPT !.apiKey = "todo"]}
MCDatabase == [wallets |-> {"bnb", "btc"}, unpaid |-> {}, keyed |-> {"btc", "bnb"},
               serverKey |-> [c \in {"bnb", "btc"} |-> "pair"]]
MCDefects == {{}, {"plans"}, {"indexes"}}

(* A part that rests has one initial state, one of its own. *)
BroadcastsRest ==
  /\ family = "evm" /\ wants = [p \in Requested |-> [units |-> 1, fee |-> 0, invoice |-> 1]]
  /\ BroadcastsInit
TransfersRest ==
  /\ ledger = "evm" /\ asset = "coin" /\ loaded = {} /\ fails = FALSE
  /\ moves = <<CHOOSE m \in Movements : m.of = "coin">> /\ inner = {} /\ named = moves[1].units
  /\ head = 1 /\ mined = 0 /\ asked = [at |-> "no", latest |-> 0, seen |-> FALSE] /\ answer = {}
FormatsRest == form = "shortvec" /\ subject = 0 /\ wire = <<>>
AccountsRest == old = (CHOOSE o \in OldRows \X OldRows : TRUE) /\ AccountsInit

MCInit ==
  /\ part \in {"tron", "nodes", "broadcasts", "transfers", "formats", "accounts", "audits"}
  /\ TronInit /\ NodesInit /\ AuditsInit
  /\ IF part = "broadcasts" THEN BroadcastsInit ELSE BroadcastsRest
  /\ IF part = "transfers" THEN TransfersInit ELSE TransfersRest
  /\ IF part = "formats" THEN FormatsInit ELSE FormatsRest
  /\ IF part = "accounts" THEN AccountsInit ELSE AccountsRest

(* From its start to the cutover audit, and while it starts services, the  *)
(* script reads neither plan nor report: what is done with them then is as *)
(* if done before, or after.  Once it has ended nothing is read any more.  *)
PlansAndRunsMatter ==
  /\ stage \notin {"done", "aborted", "left"}
  /\ stage \notin {"idle", "verify", "release", "goal"} => UNCHANGED checksVars

(* Bound: another run follows one that ended well, or that left the        *)
(* administrator's account changed.                                        *)
AnotherRunMatters ==
  runs' > runs /\ runs > 0 => (report # None /\ report.status = "ok") \/ account = "next"

tronSteps == part = "tron" /\ TronNext
             /\ UNCHANGED <<nodeVars, broadcastVars, transferVars, wireVars, accountVars, auditVars>>
nodeSteps == part = "nodes" /\ NodesNext
             /\ UNCHANGED <<tronVars, broadcastVars, transferVars, wireVars, accountVars, auditVars>>
broadcastSteps == part = "broadcasts" /\ BroadcastsNext
             /\ UNCHANGED <<tronVars, nodeVars, transferVars, wireVars, accountVars, auditVars>>
transferSteps == part = "transfers" /\ TransfersNext
             /\ UNCHANGED <<tronVars, nodeVars, broadcastVars, wireVars, accountVars, auditVars>>
formatSteps == part = "formats" /\ Write
             /\ UNCHANGED <<tronVars, nodeVars, broadcastVars, transferVars, accountVars, auditVars>>
accountSteps == part = "accounts" /\ AccountsNext
             /\ UNCHANGED <<tronVars, nodeVars, broadcastVars, transferVars, wireVars, auditVars>>
auditSteps == part = "audits" /\ AuditsNext /\ PlansAndRunsMatter /\ AnotherRunMatters
             /\ UNCHANGED <<tronVars, nodeVars, broadcastVars, transferVars, wireVars, accountVars>>

MCNext ==
  /\ \/ tronSteps \/ nodeSteps \/ broadcastSteps \/ transferSteps \/ formatSteps
     \/ accountSteps \/ auditSteps
  /\ UNCHANGED part

MCVars == <<tronVars, nodeVars, broadcastVars, transferVars, wireVars, accountVars, auditVars, part>>

inTron == part = "tron" /\ UNCHANGED <<nodeVars, broadcastVars, transferVars, wireVars,
                                        accountVars, auditVars, part>>

(* TronFairness, for the part that is explored. *)
MCFairness ==
  /\ WF_MCVars(inTron /\ BeginRefresh("loop"))
  /\ WF_MCVars(inTron /\ (LookUpAccount("loop") \/ Store("loop")))
  /\ \A r \in Refreshers \ {"loop"} : WF_MCVars(inTron /\ (LookUpAccount(r) \/ Store(r)))

MCSpec == MCInit /\ [][MCNext]_MCVars /\ MCFairness

(* TRON backend (tronSpendableRefreshLoop): once payouts and deposits are  *)
(* over, the cache comes to show the richest account and stays so, whatever*)
(* refreshes failed or overwrote each other before.                        *)
CacheCatchesUpInPart == part = "tron" => CacheCatchesUp
=============================================================================
