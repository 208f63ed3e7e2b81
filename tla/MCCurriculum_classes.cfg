SPECIFICATION CurriculumSpec
CONSTANTS
  Classes = {c1, c2}
  Students = {s1, s2}
  Capacities = {0, 1}
  NoClass = NoClass
  NoStudent = NoStudent
  Handlers = {h1, h2}
  MaxRequests = 3
  Subjects = {m1}
  Offers = {o1, o2}
  Teachers = {t1}
  Terms = {a1, a2}
  NoTerm = NoTerm
  NoOffer = NoOffer
  Nobody = Nobody
  MaxRows = 3
CONSTRAINT SmallSchool
SYMMETRY Sym
INVARIANTS CurriculumTypeOK ListsAgree
PROPERTIES SeatsHold RegistrationsStay
CHECK_DEADLOCK FALSE
