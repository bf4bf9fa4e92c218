SPECIFICATION Spec
CONSTANTS
  MaxOpenConns = 1
  MaxRetries = 1
  InitialScan = TRUE
  BackgroundScan = TRUE
  CronParses = TRUE
  Pages = {p1}
  Probes = {h1}
  Transfers = {t1}
  MaxJobs = 1
PROPERTIES HealthPageTellsHealth
CHECK_DEADLOCK FALSE
