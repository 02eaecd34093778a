SPECIFICATION LotteryFairSpec
CONSTANTS
  Clients = {c1, c2, c3}
  N = 2
INVARIANTS
  JudgedFairly
PROPERTIES
  VerdictComes
CHECK_DEADLOCK FALSE
