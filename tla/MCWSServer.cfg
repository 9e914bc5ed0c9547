SPECIFICATION FairSpec
CONSTANTS
  Conns <- OneConn
  Failures <- AllFailures
  InputErrors <- AllInputErrors
  UserFails = TRUE
  MaxIn = 3
  MaxOut = 2
INVARIANTS TypeOK OneVerdict HandledInOrder  RejectedBeforeUserCode
PROPERTIES ServingEnds FailureDelivered
CHECK_DEADLOCK FALSE
