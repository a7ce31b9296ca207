CONSTANTS
  k1 = k1
  k2 = k2
  Key <- MCKey
  Faults = {"kill", "power", "sync", "write", "partial"}
  MaxLines = 7
  PageSize = 1
  PlainLimit = 1
  LinkFaults = {"radio", "serial", "net", "bouncer"}
  MaxFailures = 3
SPECIFICATION FairSpec
INVARIANTS EgressTypeOK DispatchedWasSent ResendsNeedFailures
 
CHECK_DEADLOCK FALSE
