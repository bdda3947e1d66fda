SPECIFICATION Spec
CONSTANTS
  Categories <- MCCategories
  Personas <- MCPersonas
  Asked <- MCAsked
  Budgets = {700, 2000, 4504, 6006}
  Sites <- MCSites
  LlmPrice = 20
  SolPrice = 71
  Unspecified = unspecified
  Allowlisted = {frontdoor}
  Elsewhere = {elsewhere}
  Scopes <- MCScopes
  Depths = {2, 6}
  Nonces = {n1, n2}
  Ttl = 1
  MaxClock = 2
  BuyerKey = buyer
  OtherKey = other
  Nothing = nothing
  Entries <- MCEntries
  Outputs <- MCOutputs
  Missing = missing
  Rounds = {1, 2}
  Nobody = nobody
  Script <- MCScript
  Slots = {i1, i2}
  MaxClicks = 1
  Envs <- MCEnvs
  MaxRuns = 2
INVARIANT
  BidWithinFloorAndBudget
CHECK_DEADLOCK FALSE
