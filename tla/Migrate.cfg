SPECIFICATION RetrySpec
CONSTANTS
  a = a
  b = b
  t = t
  u = u
  r1 = r1
  r2 = r2
  public = public
  None = None
  Alias = {a, b}
  Table = {t, u}
  Public = public
  Script <- Files
  Stem <- Stems
  Once <- NotTwice
  Sites <- MCSites
  Route <- Routes
  Schema = {public}
  Runner = {r1, r2}
  Call <- Calls
  MaxFaults = 1
INVARIANT TypeOK
INVARIANT DoneMeansApplied
INVARIANT RunsOnce
PROPERTY LedgerSpec
PROPERTY AppliedOrWedged
