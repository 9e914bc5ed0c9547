SPECIFICATION Spec
CONSTANTS
  Structs <- Distinct
  Names <- TwoNames
INVARIANTS OwnSource BodyAsDocumented ConformingAccepted
CHECK_DEADLOCK FALSE
