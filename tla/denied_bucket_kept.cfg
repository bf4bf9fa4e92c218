SPECIFICATION OutageSpec
CONSTANTS
  NoName = NoName
  Buckets = {b1}
  Configs = {NoName}
  SyncEnable = TRUE
  SkipValidation = FALSE
  InitialScans = {TRUE}
  BackgroundScan = FALSE
  Crons = {}
  Startup = startup
  MaxRetries = 1
  DeleteThreshold = 1
  Grace = 1
  MaxHours = 2
  MaxStarts = 2
  MaxFaults = 1
  Faults = {"kill"}
PROPERTIES LongInaccessibleBucketsAreDeleted
CHECK_DEADLOCK FALSE
