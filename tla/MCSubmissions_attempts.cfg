SPECIFICATION SubSpec
CONSTANTS
  Students = {s1, s2}
  Questions = {q1}
  a = a
  b = b
  Contents = {a}
  NoAnswer = NoAnswer
  SubmissionIds = {u1, u2, u3, u4}
  NoRow = NoRow
  Handlers = {h1, h2}
  MaxAttempts = 2
  StartTime = 1
  EndTime = 1
  Horizon = 2
  MaxAborts = 1
SYMMETRY Sym
INVARIANTS AttemptsNumbered QueuedOnlySubmitted
PROPERTIES ImplementsLedger FrozenOnceDrained
CHECK_DEADLOCK FALSE
