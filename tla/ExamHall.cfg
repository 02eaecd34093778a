SPECIFICATION ExamFairSpec
CONSTANTS
  Candidates = {a1, a2}
  NoOfQues = 2
INVARIANTS
  AnswersKept
PROPERTIES
  ReportAndVerdictCome
CHECK_DEADLOCK FALSE
