SPECIFICATION Spec
CONSTANTS
  Keys = {1, 2, 3}
  ChildrenPerPage = 2
  Params = {1, 2}
  IntHalf = 64
  Int32Half = 32
  Readers = {r1}
  QueriesFail = FALSE
INVARIANTS PaginatedChildrenFolderFirst
