SPECIFICATION Spec
CONSTANTS
  s1 = s1
  s2 = s2
  v1 = v1
  Objects <- KeysYMX
  Folders <- FoldersDE
  Ancestors <- PathsMX
  Name <- NameX
  Plain = {"", "d", "e"}
  ReadAs <- ReadAsX
  ChildrenPerPage = 1
  Parts = {"", "x", "y"}
  Depth = 4
  Scope <- KeysYMX
  Versions = {v1}
  Absent = Absent
  InitialKeys <- KeysYMX
  PageSize = 1
  Scans = {s1, s2}
  Requests = {}
  ExternalKeys <- KeysX
  DeletionSync = TRUE
  Faults = {"validate", "mark", "unmark", "list", "row", "clean", "job", "kill"}
INVARIANTS JobTellsOutcome SweptIndexMatchesBucket ObjectsAreFound FoldersAreChains MarksAreSwept
PROPERTIES CleanupSparesLiveObjects
SYMMETRY ScanSymmetry
CHECK_DEADLOCK FALSE
