CONSTANTS
  LinkFaults = {"buyer"}
  MaxOffers = 2
  MaxAcks = 2
  MaxUptime = 2
  QueueLimit = 2
  MaxFailures = 1
SPECIFICATION Spec
INVARIANT NoncesDistinct
CHECK_DEADLOCK FALSE
