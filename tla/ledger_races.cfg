SPECIFICATION Spec
CONSTANTS
  i1 = i1
  i2 = i2
  x1 = x1
  x2 = x2
  r1 = r1
  r2 = r2
  btc = btc
  eth = eth
  Invoices = {i1}
  TxIDs = {x1, x2}
  Cryptos = {btc, eth}
  Transfers <- MCTransfers
  Requests = {r1, r2}
  QuotesOf <- MCQuotes
  MarketRate <- MCRate
  Wallet <- MCWallet
  Endpoints = {"notify", "verified"}
  AnnounceUnconfirmed = FALSE
  FailuresHappen = TRUE
  MaxDepth = 1
SYMMETRY Symmetric
INVARIANTS
  TypeOK
  NeverCreditedTwice
  BalanceIsComplete
  BalanceIsSum
  StatusFollowsBalance
