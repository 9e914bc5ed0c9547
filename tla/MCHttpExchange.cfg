SPECIFICATION FairSpec
CONSTANTS
  Routes <- AllRoutes
  MaxCalls = 3
  Errors <- SomeErrors
  Structs <- StructTypes
  MaxDepth = 2
INVARIANTS OneResponse ErrorsReported ResponsesDocumented YieldsFollowSends
PROPERTIES EventsArrive
CHECK_DEADLOCK FALSE
