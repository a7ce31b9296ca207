CONSTANTS
  Sats <- MCSats
  SeqCounts = {16383, 16384}
  MaxFaults = 2
SPECIFICATION Spec
INVARIANTS IngestTypeOK IntactAccepted AuthenticatedAsBuilt EnqueuedAsSigned LengthAsBuilt
