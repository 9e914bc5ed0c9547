SPECIFICATION SpecDoc
CONSTANTS
  MaxDecls = 1
  MaxPerRoute = 1
  MaxGroups = 0
  MaxRoutes = 2
  Declared <- Errors
  Endpoints <- SomeEndpoints
INVARIANTS ClientTypesFollowServer
CHECK_DEADLOCK FALSE
