CONSTANTS
  i1 = i1
  r1 = r1
  Intent <- Frames
  NonceOf <- SameNonce
  Payable <- Frames
  EscrowMax = 2
  MaxBatch = 2
  SubmitRetries = 2
  Environment = {"rpc", "reply", "kill"}
  Faults = {"kill", "power", "sync", "write"}
  MaxLines = 4
  SeqLimit = 2
  RpcFails = TRUE
  MaxFailures = 2
SPECIFICATION GatewaySpec
INVARIANT OneReceiptPerPayment
PROPERTIES ImplementsJourney AcceptedGetsReceipt
CHECK_DEADLOCK FALSE
