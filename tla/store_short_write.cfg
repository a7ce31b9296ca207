CONSTANTS
  k1 = k1
  k2 = k2
  Key <- MCKey
  Faults = {"kill", "partial"}
  MaxLines = 4
SPECIFICATION StoreSpec
CHECK_DEADLOCK FALSE
INVARIANTS WrittenSurvives
