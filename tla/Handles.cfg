SPECIFICATION MCSpec
CONSTANTS
  a = a
  h1 = h1
  h2 = h2
  w1 = w1
  w2 = w2
  t1 = t1
  t2 = t2
  None = None
  Tx = {h1, h2}
  Stmt = {w1, w2}
  Alias = {a}
  AbortAlias = {a}
  Mark = {}
  MaxMark = 0
  Task = {t1, t2}
  MayNest = TRUE
  MayCancel = TRUE
  c1 = c1
  c2 = c2
  c3 = c3
  c4 = c4
  Coroutine = {c1, c2, c3, c4}
  Nester = {c1}
  Workers = 3
  Loop = Loop
  NoOne = NoOne
INVARIANTS NoLateLeak ReturnLeavesSlot WaitsOnlyForSql
PROPERTIES HandlesSpec AutoRollback ThreadsRun AllAnswered
CHECK_DEADLOCK FALSE
