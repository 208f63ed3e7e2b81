SPECIFICATION PeopleSpec
CONSTANTS
  DeptIds = {d1, d2}
  Teachers = {t1, t2}
  None = None
  NoRow = NoRow
  Handlers = {h1, h2}
  MaxRequests = 4
  Students = {s1, s2}
  Guardians = {g1, g2}
  Base = 2
  Wide = 4
  Customs <- MCCustoms
  Garbled <- MCGarbled
  NaN = NaN
SYMMETRY Sym
INVARIANTS HeadsAligned WardsAgree NumbersRunOn
CHECK_DEADLOCK FALSE
