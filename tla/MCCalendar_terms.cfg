SPECIFICATION CalendarSpec
CONSTANTS
  Sessions = {s1, s2}
  Terms = {t1, t2}
  School = School
  Names = {a, b}
  NoRow = NoRow
  Work = {w1}
  Slots = Slots
  Handlers = {h1, h2}
  TermLimit = 1
  MaxRequests = 5
SYMMETRY Sym
INVARIANTS CalendarTypeOK OneCurrent TermsWithinLimit
PROPERTIES DeletionsSpare
CHECK_DEADLOCK FALSE
