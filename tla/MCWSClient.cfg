SPECIFICATION Spec
CONSTANTS
  Options <- AllOptions
  UserThrows = TRUE
  MaxSockets = 4
  MaxOpens = 2
  MaxFrames = 2
  MaxReceives = 2
  MaxSends = 2
INVARIANTS TypeOK OneAttempt ExactlyOnceInOrder NoneLeftWaiting GivesUpAfterMaxRetries SendsDoNotCrossConnections
PROPERTIES NoResurrection
CHECK_DEADLOCK FALSE
