SPECIFICATION Spec
CONSTANTS
  b1 = b1
  b2 = b2
  NoName = NoName
  Buckets <- TwoBuckets
  Configs = {NoName, b1}
  SyncEnable = TRUE
  SkipValidation = FALSE
  InitialScans = {TRUE}
  BackgroundScan = TRUE
  Crons = {}
  Startup = startup
  MaxRetries = 1
  DeleteThreshold = 1
  Grace = 1
  MaxHours = 2
  MaxStarts = 2
  MaxFaults = 1
  Faults = {"kill"}
PROPERTIES OnlyInaccessibleBucketsAreDeleted
CHECK_DEADLOCK FALSE
