SPECIFICATION FairConfigSpec
CONSTANTS
  NoRow = NoRow
  Miss = Miss
  Null = Null
  Keep = Keep
  Patches <- MCPatches
  Totals = {3}
  Handlers = {h1, h2}
  MaxRequests = 4
INVARIANTS CacheFresh
PROPERTIES EventuallyFresh
CHECK_DEADLOCK FALSE
