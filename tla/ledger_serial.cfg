SPECIFICATION FairSpec
CONSTANTS
  i1 = i1
  i2 = i2
  x1 = x1
  x2 = x2
  r1 = r1
  r2 = r2
  btc = btc
  eth = eth
  Invoices = {i1, i2}
  TxIDs = {x1, x2}
  Cryptos = {btc, eth}
  Transfers <- TwoOutputs
  Requests = {r1}
  QuotesOf <- OneQuote
  MarketRate <- MCRate
  Wallet <- MCWallet
  Endpoints = {"notify", "verified", "silent"}
  AnnounceUnconfirmed = TRUE
  FailuresHappen = FALSE
  MaxDepth = 2
INVARIANTS
  SerialBalanceIsExact
PROPERTIES
  NotifiedIsCredited
