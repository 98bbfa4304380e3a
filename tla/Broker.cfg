\* An import and a wait, a broker that holds one request, and a bridge that is
\* installed up to three times. It ends when every request is done.
CONSTANTS
  i = i
  w = w
  None = None
  Requests = {i, w}
  Kind <- KindOf
  MaxPending = 1
  MaxMounts = 3
SPECIFICATION Spec
CHECK_DEADLOCK FALSE
INVARIANTS
  TypeOK
  BrokerKnowsListener
  RelaunchAfterDelivery
  NoOrphanWait
PROPERTY
  TakenUpOnce
