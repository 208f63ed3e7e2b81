SPECIFICATION ApprovalSpec
CONSTANTS
  Staff = {t1, t2, t3}
  MaxLog = 3
  MaxEdits = 1
  MaxDeaths = 1
SYMMETRY Sym
INVARIANTS NeverPublishedUnapproved LogShowsStatus TrailKeepsAssessment NoticesMatchLog UnreviewedHasQuestions
PROPERTIES EditsDrain
CHECK_DEADLOCK FALSE
