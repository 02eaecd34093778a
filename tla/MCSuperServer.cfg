SPECIFICATION FairSpec
CONSTANTS
  p1 = p1
  p2 = p2
  c1 = c1
  c2 = c2
  c3 = c3
  Ports <- MCPorts
  Clients <- MCClients
  PortOf <- MCPortOf
INVARIANTS
  TypeOK
  ServedByOwnServer
  OnePlace
  AdoptedOnce
  BlockedOnlyWhenGarbled
PROPERTIES
  EveryConnectionAnswered
CHECK_DEADLOCK FALSE
