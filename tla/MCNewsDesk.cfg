SPECIFICATION FairSpec
CONSTANTS
  Slots = {1, 2}
  BodyCells = 3
  FifoCap = 7
  TextCells <- MCTextCells
  MaxJunk = 1
  MaxReports = 3
  MaxRestarts = 1
INVARIANTS
  PublishesWholeReports
  DocumentsWhole
  NeverWaitsMidReport
  StallsOnlyAsKnown
PROPERTIES
  EveryReportHandled
CHECK_DEADLOCK FALSE
