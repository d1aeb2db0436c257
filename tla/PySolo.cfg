SPECIFICATION MCSpec
CONSTANTS
  a = a
  b = b
  h1 = h1
  h2 = h2
  w1 = w1
  w2 = w2
  sp = sp
  nested = nested
  t1 = t1
  None = None
  Tx = {h1, h2}
  Stmt = {w1, w2}
  Alias = {a, b}
  AbortAlias = {b}
  Mark = {sp, nested}
  MaxMark = 1
  Task = {t1}
  Child = {}
  Kinds = {"query"}
  CrossAlias = FALSE
  NestMark = nested
  UserMark = {sp}
  MaxNest = 1
  q1 = q1
  named = named
  v1 = v1
  r1 = r1
  r2 = r2
  u1 = u1
  u2 = u2
  u3 = u3
  Template = {q1, named}
  Named = {named}
  Param = {v1}
  Reader = {r1, r2}
  Writer = {u1, u2, u3}
  TxWriter = {u2}
  Silent = {u3}
  Ttls = {0, 1}
  MaxSize = 1
  MaxTime = 2
  Absent = Absent
SYMMETRY ReaderSymmetry
INVARIANTS TypeOK Enlisted StaleOnlyByRace
PROPERTIES BlocksSpec StaleForLifetimeOnly
CHECK_DEADLOCK FALSE
