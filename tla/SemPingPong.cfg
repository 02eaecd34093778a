SPECIFICATION FairSpec
CONSTANTS
  Rounds = 5
  Leftovers = {0, 5, 9}
INVARIANTS
  TypeOK
  OneTurn
  Handshake
PROPERTIES
  PrintsInOrder
  SessionEnds
