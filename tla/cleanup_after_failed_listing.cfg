SPECIFICATION Spec
CONSTANTS
  s1 = s1
  q1 = q1
  v1 = v1
  Objects <- KeysX
  Folders <- FolderD
  Ancestors <- PathsX
  Scope <- KeysX
  Versions = {v1}
  Absent = Absent
  InitialKeys <- KeysX
  PageSize = 1
  Scans = {s1}
  Requests = {q1}
  ExternalKeys = {}
  DeletionSync = TRUE
  Faults = {"list"}
PROPERTIES CleanupDeletesOnlyGoneObjects
CHECK_DEADLOCK FALSE
