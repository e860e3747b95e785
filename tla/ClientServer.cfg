SPECIFICATION Spec
CONSTANTS
  InitThreshold = 1
  DropThreshold = 2
  ClosingThreshold = 1
  Ids <- TwoIds
  MaxChanges = 2
  Envs <- AlwaysSent
  ServerCloses <- First
  ServerResets <- Second
  ServerRestarts = TRUE
  ClientCloses = TRUE
  Messages = TRUE
  Lossy = TRUE
  Truncates = TRUE
  MaxInFlight = 2
  MaxPending = 1
INVARIANTS TypeOK CollectionsAgree EventsTellConnections PanicHasCause NothingDismissed ClientKnowsState SilentConnectionsEnd
CHECK_DEADLOCK FALSE
