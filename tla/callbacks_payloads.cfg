SPECIFICATION CallbacksSpec
CONSTANTS
  i1 = i1
  i2 = i2
  x1 = x1
  x2 = x2
  r1 = r1
  r2 = r2
  btc = btc
  scheduler = scheduler
  Invoices = {i1}
  TxIDs = {x1, x2}
  Cryptos = {btc}
  Transfers <- OneInvoice
  Requests = {r1}
  QuotesOf <- Requoted
  MarketRate <- MCRate
  Wallet <- MCWallet
  Endpoints = {"notify"}
  AnnounceUnconfirmed = FALSE
  FailuresHappen = FALSE
  MaxDepth = 2
  BatchLimit = 1
  Broken = {}
INVARIANTS
  PostedWasStored
