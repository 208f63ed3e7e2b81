SPECIFICATION FairGradingSpec
CONSTANTS
  Students = {s1}
  qa = qa
  qm = qm
  Questions = {qa, qm}
  AutoQuestions = {qa}
  Marks <- MCMarks
  MarkChoices = {2}
  right = right
  wrong = wrong
  Contents = {right, wrong}
  Right = right
  NoAnswer = NoAnswer
  Null = Null
  SubmissionIds = {u1}
  NoRow = NoRow
  Handlers = {h1}
  Workers = {w1, w2}
  Teachers = {t1}
  MaxAttempts = 1
  StartTime = 0
  EndTime = 0
  Horizon = 0
  MaxAborts = 1
  MaxTries = 3
  StallLimit = 1
  MaxErrors = 3
  MaxStalls = 2
INVARIANTS GradingTypeOK MarksWithinQuestion CompletedScoreIsRight TotalIsSum
PROPERTIES ManualScoreSurvives HandedInIsGraded
CHECK_DEADLOCK FALSE
