SPECIFICATION ArbiterSpec
CONSTANTS
  b = b
  s = s
  r = r
  q = q
  v = v
  w = w
  Accounts = {b, s, v, w}
  References = {r, q}
  Amounts = {0, 1, 2}
  Deadlines = {0, 1}
  Rent = 1
  MaxLamports = 4
  LastTime = 1
  NoEscrow = NoEscrow
  NoConfig = NoConfig
  NoSigner = NoSigner
  Sellers <- MCSellers
  InitialLamports <- MCLamports
  VaultOf <- MCVaultOf
INVARIANTS
  ArbiterTypeOK
  LamportsConserved
PROPERTIES
  OnlyArbiterSettles
  VaultsKeepTheirOwn
  DepositLeavesWhole
  VaultDepositLeavesWhole
  ImplementsSettlement
CHECK_DEADLOCK FALSE
