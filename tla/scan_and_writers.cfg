SPECIFICATION FairTracedSpec
CONSTANTS
  s1 = s1
  q1 = q1
  v1 = v1
  v2 = v2
  Objects <- KeysDX
  Folders <- FolderD
  Ancestors <- PathsDX
  Scope <- KeysDX
  Versions = {v1, v2}
  Absent = Absent
  InitialKeys <- KeysDX
  PageSize = 1
  Scans = {s1}
  Requests = {q1}
  ExternalKeys <- KeysX
  DeletionSync = TRUE
  Faults = {"validate", "mark", "unmark", "list", "row", "clean", "job", "request", "kill"}
INVARIANTS TypeOK SweptIndexMatchesBucket
PROPERTIES CleanupSparesLiveObjects IndexIsMirror JobsSettle
CHECK_DEADLOCK FALSE
