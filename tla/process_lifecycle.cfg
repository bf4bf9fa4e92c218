SPECIFICATION FairSpec
CONSTANTS
  MaxOpenConns = 1
  MaxRetries = 3
  InitialScan = TRUE
  BackgroundScan = TRUE
  CronParses = TRUE
  Pages = {p1}
  Probes = {h1}
  Transfers = {t1}
  MaxJobs = 1
INVARIANTS TypeOK RequestsAreDrained InitialScanRunsAlone StatusKnownWhenServing PagesOutliveTheDatabase
PROPERTIES StoppedSchedulerRests StartupEnds SignalEndsProcess ProbesAreAnswered HealthFollowsDatabase
CHECK_DEADLOCK FALSE
