SPECIFICATION Spec
CONSTANTS
  s1 = s1
  s2 = s2
  Sellers = {s1, s2}
  Paths = {"broker"}
  Broker = broker
  MaxAudits = 2
  None = None
  Failure = Failure
INVARIANT
  ScanMatchesDeal
CHECK_DEADLOCK FALSE
