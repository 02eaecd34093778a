SPECIFICATION FairSpec
CONSTANTS
  Services = {0, 2}
  Clients <- MCClients
  ServiceOf <- MCServiceOf
  RingSize = 2
  LeftInQueue = 1
INVARIANTS
  QueueAccounted
  RingIsLast
PROPERTIES
  ClientsAnswered
CHECK_DEADLOCK FALSE
