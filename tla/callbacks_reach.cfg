SPECIFICATION CallbacksFairSpec
CONSTANTS
  i1 = i1
  i2 = i2
  x1 = x1
  x2 = x2
  r1 = r1
  r2 = r2
  btc = btc
  scheduler = scheduler
  Invoices = {i1, i2}
  TxIDs = {x1, x2}
  Cryptos = {btc}
  Transfers <- TwoInvoices
  Requests = {r1}
  QuotesOf <- OneQuote
  MarketRate <- MCRate
  Wallet <- MCWallet
  Endpoints = {"notify"}
  AnnounceUnconfirmed = FALSE
  FailuresHappen = TRUE
  MaxDepth = 2
  BatchLimit = 2
  Broken = {i2}
PROPERTIES
  EveryPaymentIsTold
  EveryPaymentIsConfirmed
