CONSTANTS
  LinkFaults = {"air", "command", "usb", "buyer", "ground", "gateway"}
  MaxOffers = 2
  MaxAcks = 3
  MaxUptime = 2
  QueueLimit = 2
  MaxFailures = 2
SPECIFICATION FairSpec
INVARIANTS LinkTypeOK EnqueuedWasSent PaidWasOffered InvoicePaidOnce PaidNotOlder
PROPERTY SentResolved
CHECK_DEADLOCK FALSE
