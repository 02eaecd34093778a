SPECIFICATION FairSpec
CONSTANTS
  Reporters = {r1, r2, r3}
  Docs = {r1}
  Writers = {w1}
  MaxRepeats = 1
  MaxBlocks = 2
PROPERTIES
  ReadInTurn
  EveryReportComesOut
CHECK_DEADLOCK FALSE
