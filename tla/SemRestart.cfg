SPECIFICATION RFairSpec
CONSTANTS
  Rounds = 3
  Leftovers = {0}
INVARIANTS
  AtMostTwoTurns
  RecoveredHandshake
PROPERTIES
  RecoveredSessionEnds
