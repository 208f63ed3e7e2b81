SPECIFICATION SessionsSpec
CONSTANTS
  Tokens = {t1, t2, t3}
  Handlers = {h1, h2, h3}
  Unused = Unused
  Spent = Spent
  MaxSecret = 1
  MaxDeaths = 1
SYMMETRY Sym
INVARIANTS
  OneTokenPerLogin
  RevokedUnlessOverlapped
  GoneHasNoSession
CHECK_DEADLOCK FALSE
