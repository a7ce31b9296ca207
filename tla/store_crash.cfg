CONSTANTS
  k1 = k1
  k2 = k2
  Key <- MCKey
  Faults = {"kill", "power", "sync", "write"}
  MaxLines = 4
SPECIFICATION CallersSpec
INVARIANTS TypeOK WrittenSurvives NoRegression ServesAllWritten MemoryMatchesFile DrainOrderStable
PROPERTIES AnswersKept ImplementsLedger
