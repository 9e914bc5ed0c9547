SPECIFICATION FairSpec
CONSTANTS
  Options <- OneRetry
  MaxSockets = 3
  MaxOpens = 1
  MaxFrames = 0
  MaxReceives = 1
  MaxSends = 0
  Failures <- OneFailure
  InputErrors <- NoErrors
  UserFails = TRUE
  MaxOut = 0
  SenderCloses <- First
PROPERTIES WaitsOnlyForALiveServer LeftConnectionsEnd
CHECK_DEADLOCK FALSE
