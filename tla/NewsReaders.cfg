SPECIFICATION FairSpec
CONSTANTS
  QueueCap = 2
  MaxReports = 3
INVARIANTS
  ExactlyOnce
  ScreenInOrder
  PausedOnlyWhileLive
  StallsOnlyWhenFull
PROPERTIES
  EveryReportShown
CHECK_DEADLOCK FALSE
