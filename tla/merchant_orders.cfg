SPECIFICATION MCSpec
CONSTANTS
  r1 = r1
  r2 = r2
  w1 = w1
  p1 = p1
  p2 = p2
  q1 = q1
  e1 = e1
  d1 = d1
  i1 = i1
  x1 = x1
  n1 = n1
  n2 = n2
  btc = btc
  Payments = {p1, p2}
  Readers = {q1}
  Clients = {r1, r2}
  Orders = {1, 2}
  Coins = {"BTC", "BTC-LIGHTNING"}
  OneShot = {"BTC-LIGHTNING"}
  MaxInvoices = 2
  MaxAddresses = 3
  IndexedOrders = {1, 2}
  Writers = {w1}
  Limit = 1
  MaxTime = 2
  Rebuilds = 1
  Policies <- SomePolicies
  MaxMinutes = 2
  MaxFunds = 2
  MaxSent = 2
  Saves = 1
  Dispatchers = {d1}
  Events = {e1}
  BatchSize = 1
  Concurrency = 1
  MaxAttempts = 3
  nobody = nobody
  TxOf <- MCTxOf
  Invoices = {i1}
  TxIDs = {x1}
  Cryptos = {btc}
  Transfers <- MCTransfers
  Requests = {n1, n2}
  QuotesOf <- MCQuotes
  MarketRate <- MCRate
  Wallet <- MCWallet
  Endpoints = {"notify"}
  AnnounceUnconfirmed = FALSE
  FailuresHappen = TRUE
  MaxDepth = 1
SYMMETRY Symmetric
INVARIANTS
  AnsweredAddressIsFound
  TwinsOverlapped
  IndexIsCurrent
  ScanIsFaithful
  AnswersExplainThemselves
  
  DeliveredIsCredited
CHECK_DEADLOCK FALSE
