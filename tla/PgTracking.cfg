SPECIFICATION Spec
CONSTANTS
  p = p
  q = q
  Process = {p}
  Backend <- MCBackend
  Projects <- MCProjects
  Branches <- MCBranches
  Calls <- MCCalls
  MaxArrivals = 1
  MaxStarts = 2
  MaxFiles = 3
CHECK_DEADLOCK FALSE
PROPERTY AppliedIsTracked
