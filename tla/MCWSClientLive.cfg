SPECIFICATION FairSpec
CONSTANTS
  Options <- FiniteOptions
  UserThrows = FALSE
  MaxSockets = 9
  MaxOpens = 2
  MaxFrames = 2
  MaxReceives = 2
  MaxSends = 1
INVARIANTS NoneLeftWaiting
PROPERTIES ImplementsMailbox SendsSettle ReceivesNotStranded
CHECK_DEADLOCK FALSE
