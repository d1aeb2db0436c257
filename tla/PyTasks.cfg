SPECIFICATION FairSpec
CONSTANTS
  a = a
  b = b
  h1 = h1
  h2 = h2
  w1 = w1
  nested = nested
  t1 = t1
  t2 = t2
  None = None
  Tx = {h1, h2}
  Stmt = {w1}
  Alias = {a, b}
  AbortAlias = {b}
  Mark = {nested}
  MaxMark = 1
  Task = {t1, t2}
  Child = {}
  Kinds = {"query"}
  CrossAlias = TRUE
  NestMark = nested
  UserMark = {}
  MaxNest = 1
INVARIANT SlotOpen
PROPERTY LeftBlocksEnd
