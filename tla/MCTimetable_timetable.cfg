SPECIFICATION TimetableSpec
CONSTANTS
  SlotIds = {s1, s2}
  NoSlot = NoSlot
  NewSlot = NewSlot
  Teachers = {t1, t2}
  Classes = {c1, c2}
  mon = mon
  maths = maths
  Subjects = {maths}
  Days = {mon}
  Times = {0, 1, 2, 3}
  Open = 1
  Close = 3
  Keep = Keep
  Blank = Blank
  Patches <- MCPatches
  Handlers = {h1, h2}
  MaxRequests = 4
SYMMETRY Sym
INVARIANTS NoDoubleBooking WithinSchoolHours
CHECK_DEADLOCK FALSE
