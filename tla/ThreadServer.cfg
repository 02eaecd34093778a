SPECIFICATION FairSpec
CONSTANTS
  Clients = {c1, c2, c3}
  MaxFds = 2
  MaxThreads = 2
  MaxSends = 3
INVARIANTS
  DescriptorsOwned
PROPERTIES
  Attended
CHECK_DEADLOCK FALSE
