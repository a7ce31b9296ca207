CONSTANTS
  k1 = k1
  k2 = k2
  Key <- MCKey
  Faults = {}
  MaxLines = 4
  PageSize = 2
  PlainLimit = 1
  LinkFaults = {}
  MaxFailures = 0
SPECIFICATION FairSpec
PROPERTY QueueDrains
CHECK_DEADLOCK FALSE
