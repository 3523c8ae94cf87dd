SPECIFICATION CallbacksSpec
CONSTANTS
  i1 = i1
  i2 = i2
  x1 = x1
  x2 = x2
  r1 = r1
  r2 = r2
  btc = btc
  scheduler = scheduler
  Invoices = {i1}
  TxIDs = {x1}
  Cryptos = {btc}
  Transfers <- OneTransfer
  Requests = {r1, r2}
  QuotesOf <- OneQuote
  MarketRate <- MCRate
  Wallet <- MCWallet
  Endpoints = {"notify", "verified", "silent"}
  AnnounceUnconfirmed = FALSE
  FailuresHappen = TRUE
  MaxDepth = 2
  BatchLimit = 2
  Broken = {}
SYMMETRY Symmetric
INVARIANTS
  ToldMeansAccepted
  NeverAnnouncedEarly
