SPECIFICATION AccessSpec
CONSTANTS
  Students = {s1}
  Questions = {q1}
  Contents = {a}
  NoAnswer = NoAnswer
  SubmissionIds = {u1}
  NoRow = NoRow
  Handlers = {h1, h2}
  MaxAttempts = 1
  StartTime = 0
  EndTime = 0
  Horizon = 0
  MaxAborts = 0
  Staff = {t1, t2}
  MaxLog = 1
  MaxEdits = 1
  MaxDeaths = 0
SYMMETRY Sym
INVARIANTS AttemptsKeepAssessment
CHECK_DEADLOCK FALSE
