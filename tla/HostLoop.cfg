SPECIFICATION FairSpec
CONSTANTS
  Second = 4
  RateSteps = 2
  MaxTick = 3
  MinDelay = 1
  MaxDelay = 4
  TogglePeriod = 3
  Configs <- MCConfigs
  Bytes <- MCBytes
  WorkTimes <- MCWorkTimes
  MaxTime = 4
INVARIANTS TypeOK OnSchedule AverageIsLastSecond FailsOnlyWhenOdd
PROPERTIES StillSends CalmRestores
CHECK_DEADLOCK FALSE
