SPECIFICATION ConfigSpec
CONSTANTS
  NoRow = NoRow
  Miss = Miss
  Null = Null
  Keep = Keep
  Patches <- MCPatches
  Totals = {3, 7, 23}
  Handlers = {h1, h2}
  MaxRequests = 2
INVARIANTS HighestBandReached
CHECK_DEADLOCK FALSE
