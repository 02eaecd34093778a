SPECIFICATION DumpSpec
CONSTANTS
  Sizes = {20, 43, 60, 66}
  Words = {0, 5, 8}
  MaxPackets = 2
INVARIANTS
  PageComplete
  DumpsCoverPacket
CHECK_DEADLOCK FALSE
