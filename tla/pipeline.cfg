CONSTANTS
  k1 = k1
  k2 = k2
  Key <- MCKey
  Faults = {"kill", "power", "sync", "write"}
  MaxLines = 6
  SeqLimit = 2
  RpcFails = TRUE
  MaxBlocks = 3
  MaxFailures = 2
SPECIFICATION FairSpec
INVARIANTS PipelineTypeOK NothingSkipped OneReceiptPerSettlement DrainFollowsChain
PROPERTY RecordedUnlessDead
CHECK_DEADLOCK FALSE
