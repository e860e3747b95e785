SPECIFICATION FairSpec
CONSTANTS
  InitThreshold = 3
  DropThreshold = 6
  ClosingThreshold = 4
  Ids <- OneId
  MaxChanges = 1
  Envs <- AlwaysSent
  ServerCloses <- Nobody
  ServerResets <- Nobody
  ServerRestarts = FALSE
  ClientCloses = TRUE
  Messages = FALSE
  Lossy = FALSE
  Truncates = FALSE
  MaxInFlight = 2
  MaxPending = 0
PROPERTY CloseFinishes
CHECK_DEADLOCK FALSE
