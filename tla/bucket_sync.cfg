SPECIFICATION FairSpec
CONSTANTS
  b1 = b1
  b2 = b2
  NoName = NoName
  Buckets <- TwoBuckets
  Configs = {NoName, b1}
  SyncEnable = TRUE
  SkipValidation = FALSE
  InitialScans = {TRUE, FALSE}
  BackgroundScan = TRUE
  Crons = {cron}
  Startup = startup
  MaxRetries = 2
  DeleteThreshold = 1
  Grace = 1
  MaxHours = 2
  MaxStarts = 2
  Faults <- AllFaults
  MaxFaults = 1
INVARIANTS TypeOK ListShowsAccessibleBuckets VanishedBucketsExpire NamelessBucketHasNoRow
PROPERTIES FoundBucketsSurvive InitialScanEnds
CHECK_DEADLOCK FALSE
