SPECIFICATION Spec
CONSTANTS
  Options <- OneRetry
  MaxSockets = 2
  MaxOpens = 1
  MaxFrames = 2
  MaxReceives = 1
  MaxSends = 1
  Failures <- TwoFailures
  InputErrors <- NoErrors
  UserFails = FALSE
  MaxOut = 1
  SenderCloses <- None
INVARIANTS VerdictIsFinal ErrorAfterData
CHECK_DEADLOCK FALSE
