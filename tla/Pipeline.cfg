SPECIFICATION Spec
CONSTANTS
  p = p
  q = q
  Process = {p, q}
  Backend <- MCBackend
  Projects <- MCProjects
  Branches <- MCBranches
  Calls <- MCCalls
  MaxArrivals = 1
  MaxStarts = 2
  MaxFiles = 3
CHECK_DEADLOCK FALSE
SYMMETRY Symmetry
INVARIANT AppliedMeansPresent
INVARIANT KeysStayGenerated
INVARIANT LiveReachesModels
PROPERTY DetectSettles
