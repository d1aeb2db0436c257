SPECIFICATION MCSpec
CONSTANTS
  Task = {t1, t2}
  Conn = {c1, c2}
  Sources <- MCSources
  Calls <- MCCalls
  Sizes = {1, 2}
  MaxRows = 3
  Reader = {r1}
  Alias <- MCAlias
  Journeys <- MCJourneys
  Asked <- MCAsked
  Selects <- MCSelects
  Key = {1, 2}
  DefaultTtl = 2
  MaxEntries = 1
  MaxClock = 2
  Streams <- MCStreams
  Saver = {s1, s2}
  Stem = {"a", "b"}
  Outside = {"b"}
  Suffix = {"x", "y"}
  MaxTries = 2
  MaxContent = 4
SYMMETRY Alike
INVARIANT TtlHonoured
CHECK_DEADLOCK FALSE
