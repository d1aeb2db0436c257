SPECIFICATION Spec
CONSTANTS
  a = a
  b = b
  h1 = h1
  h2 = h2
  w1 = w1
  w2 = w2
  sp = sp
  nested = nested
  t1 = t1
  t2 = t2
  None = None
  Tx = {h1, h2}
  Stmt = {w1, w2}
  Alias = {a, b}
  AbortAlias = {b}
  Mark = {sp, nested}
  MaxMark = 1
  Task = {t1, t2}
  Child = {t2}
  Kinds = {"query"}
  CrossAlias = FALSE
  NestMark = nested
  UserMark = {sp}
  MaxNest = 0
SYMMETRY HandleSymmetry
INVARIANT NoLateLeak
INVARIANT AllOrNothing
PROPERTY EndedForever
