SPECIFICATION MCSpec
CONSTANTS
  p1 = p1
  p2 = p2
  Accounts = {1, 2}
  Refreshers = {"loop", "kicked"}
  TronPayouts = {p1, p2}
  Ask <- MCAsk
  Deposits = 2
  LookupFailures = 2
  Nodes = {1, 2, 3}
  Switches = 2
  Admins = {u1, u2}
  Families = {"evm", "solana", "xrp", "bitcoin", "monero", "lightning"}
  Requested = {p1, p2}
  Wallets = {1, 2}
  Units = {1, 2}
  Fees = {0, 1, 2}
  Events = 2
  Ledgers = {"evm", "tron", "solana", "xrp", "bitcoin", "monero", "lightning"}
  Own = {"a", "b"}
  Others = {"x"}
  Assets = {"coin", "usdt"}
  Quantities = {1, 2}
  MaxHead = 2
  Numbers = {0, 1, 55, 56, 127, 128, 255, 256, 65535, 16777216}
  Strings <- MCStrings
  Payloads <- MCPayloads
  Keys = {"k1", "k2", "k3", "k4"}
  Tokens = {"t"}
  NewAddresses = {"a", "b"}
  OldRows <- MCOldRows
  Newest = 2
  Imports = 2
  DefaultCryptos <- MCCoins
  HostOf <- MCHostOf
  NativeOf <- MCNativeOf
  PlanEnvs <- MCPlanEnvs
  CheckEnvs <- MCCheckEnvs
  Database <- MCDatabase
  MatrixRoom = 4
  MaxRuns = 2
  Defects <- MCDefects
INVARIANTS
  RevertedWasOverlapped
  
  SentMeansPaid
  ReportedIsReceived
  ReadAsWritten
  AnsweredStaysOwned
  PassedReleaseWasSeen
  OneSystemServes
PROPERTY CacheCatchesUpInPart
CHECK_DEADLOCK FALSE
