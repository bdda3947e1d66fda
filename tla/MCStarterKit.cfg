SPECIFICATION Spec
CONSTANTS
  Buyers = {b1}
  Curl = curl
  Seller = seller
  Stranger = stranger
  Price = 1
  Budget = 2
  MaxTurns = 4
  MaxRefs = 2
  Sellers <- MCSellers
  Quotes <- MCQuotes
  Threads = {t1, t2}
  MaxAsks = 2
  BrokerMax = 25
  Percent = 120
  Tabs = {u1, u2}
  Fronts = {auto, swarm}
  MaxThreads = 2
  MaxSessions = 2
  s1 = s1
  s2 = s2
  w = w
  Nobody = nobody
  MarketSellers <- MCMarketSellers
  WalletOf <- MCWalletOf
  Floor <- MCFloor
  Expected = w
  Arbitrated = {s2}
  MaxRound = 2
  MaxWants = 2
  MaxFaults = 1
INVARIANTS
  ServedIsPaid
  GuardedSpend
  ResalePaysTheMarkup
  PaidOrderIsKept
  WorkIsBacked
  PaysTheBidForTheWork
  FeedShowsThePaid
CHECK_DEADLOCK FALSE
