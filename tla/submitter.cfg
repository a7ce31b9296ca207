CONSTANTS
  i1 = i1
  i2 = i2
  r1 = r1
  Intent <- WithReplay
  NonceOf <- MixedNonce
  Payable <- WithReplay
  EscrowMax = 2
  MaxBatch = 2
  SubmitRetries = 2
  Environment = {"rpc", "reply", "kill", "stop", "flush"}
SPECIFICATION FairSpec
INVARIANTS TypeOK NoneStranded OwnedOnce BatchBounded SettledOnce
CHECK_DEADLOCK FALSE
PROPERTIES EveryIntentResolved SentSettles
