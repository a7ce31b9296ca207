CONSTANTS
  Sats <- MCSats
  SeqCounts = {1}
  MaxFaults = 1
SPECIFICATION Spec
INVARIANT CrcCoveredFlipRejected
