SPECIFICATION Spec
CONSTANTS
  MaxDecls = 5
  MaxPerRoute = 2
  MaxGroups = 2
  MaxRoutes = 2
INVARIANTS HeadersApplyToTheirRoute
CHECK_DEADLOCK FALSE
