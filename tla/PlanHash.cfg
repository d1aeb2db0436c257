SPECIFICATION MCSpec
CONSTANTS
  AliasBackend <- MCPools
  Keys <- MCKeys
  Trees <- MCTrees
  Shapes <- MCShapes
  Requests <- MCRequests
  Customs <- MCCustoms
  Fields <- MCFields
  MaxParts = 2
  Callers <- MCCallers
  Query <- CachedQueries
  Registries <- MCRegistries
  KeyOf <- PlanHash
  SqlOf <- Compile
INVARIANTS Fresh
CHECK_DEADLOCK FALSE
