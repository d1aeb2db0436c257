SPECIFICATION Spec
CONSTANTS
  a = a
  h1 = h1
  h2 = h2
  w1 = w1
  w2 = w2
  sp = sp
  nested = nested
  t1 = t1
  t2 = t2
  None = None
  Tx = {h1, h2}
  Stmt = {w1, w2}
  Alias = {a}
  AbortAlias = {}
  Mark = {sp, nested}
  MaxMark = 1
  Task = {t1, t2}
  Child = {}
  Kinds = {"query"}
  CrossAlias = FALSE
  NestMark = nested
  UserMark = {sp}
  MaxNest = 1
SYMMETRY HandleSymmetry
INVARIANT Enlisted
