SPECIFICATION RepositorySpec
CONSTANTS
  Files = {f1}
  Versions = {v1, v2, v3}
  Links = {l1}
  Keys = {k1, k2}
  FolderIds = {d1, d2}
  Names = {a, b}
  Root = Root
  MaxDepth = 1
  NoRow = NoRow
  Quota = 3
  Limits = {0, 1}
  Handlers = {h1, h2}
  MaxRequests = 6
SYMMETRY Sym
INVARIANTS RepositoryTypeOK TreeIsSound CurrentIsWhole NewestIsCurrent OverrunsBounded
CHECK_DEADLOCK FALSE
