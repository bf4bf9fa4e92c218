SPECIFICATION FairSpec
CONSTANTS
  Keys = {1, 2, 3, 4}
  ChildrenPerPage = 2
  Params = {0, 1, 2, 3, 14}
  IntHalf = 16
  Int32Half = 8
  Readers = {r1}
  QueriesFail = TRUE
INVARIANTS TypeOK PagesAreSlices ArrowsLeadSomewhere
PROPERTIES RequestsEnd
