CONSTANTS
  i1 = i1
  i2 = i2
  r1 = r1
  Intent <- OneReplay
  NonceOf <- ReplayNonce
  Payable <- OneReplay
  EscrowMax = 2
  MaxBatch = 2
  SubmitRetries = 2
  Environment = {}
SPECIFICATION Spec
INVARIANT ReplaysCollapse
CHECK_DEADLOCK FALSE
