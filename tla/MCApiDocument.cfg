SPECIFICATION SpecDoc
CONSTANTS
  MaxDecls = 5
  MaxPerRoute = 1
  MaxGroups = 1
  MaxRoutes = 2
  Declared <- Errors
  Endpoints <- SomeEndpoints
INVARIANTS RouterListsStable ErrorsApplyToTheirRoute InheritedHeadersFirst RefsResolve DescribesItsTypes ErrorsDocumented
CHECK_DEADLOCK FALSE
