SPECIFICATION FairSpec
CONSTANTS
  s1 = s1
  s2 = s2
  Sellers = {s1, s2}
  Paths = {"prebaked", "broker", "strix"}
  Broker = broker
  MaxAudits = 2
  None = None
  Failure = Failure
INVARIANTS
  BusyMeansScanning
  StrangeFindingsExplained
  
PROPERTIES
  AuditEnds
  BrokerFrees
CHECK_DEADLOCK FALSE
