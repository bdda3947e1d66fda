SPECIFICATION Spec
CONSTANTS
  f1 = f1
  f2 = f2
  Demo = demo
  FixtureOrder <- MCOrder
  Quotes <- MCMovingQuotes
  r1 = r1
  r2 = r2
  Slots = {r1, r2}
  HasArbiter = TRUE
INVARIANTS
  ShownIsSelected
  OkSettlementPaidOnce
PROPERTIES
  PaysAfterRead
CHECK_DEADLOCK FALSE
SYMMETRY MCSymmetry
