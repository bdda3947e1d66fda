SPECIFICATION Spec
CONSTANTS
  s1 = s1
  s2 = s2
  w1 = w1
  w2 = w2
  Buyer = buyer
  Sellers = {s1, s2}
  Wallets = {w1, w2}
  ExpectedWallets = {w1, w2}
  ArbiterSellers = {s1}
  BuyerHasArbiter = TRUE
  MaxRound = 2
  MaxIssue = 2
  MaxRestarts = 0
  MaxCrashes = 0
  Reorder = TRUE
  FaultModes = {TRUE}
  None = None
  WalletOf <- MCWalletOf
  Quotes <- MCQuotes
INVARIANTS
  TypeOK
  WorkIsFunded
  NoPayWithoutReport
  PaysWhatWasBid
CHECK_DEADLOCK FALSE
