--------------------------- MODULE DirectoryQueries ---------------------------
(***************************************************************************)
(* The queries behind a page of one directory: its children in the order    *)
(* ORDER BY is_folder DESC, key ASC, the rows after a cursor, the cursor of *)
(* a page, and the number of pages (pkg/dbsvc, pkg/dto/pagination.go).      *)
(*                                                                         *)
(* A directory is a function from the keys of its children to is_folder;    *)
(* keys are natural numbers in the order in which the database sorts them.  *)
(***************************************************************************)
EXTENDS Integers, FiniteSets

CONSTANT ChildrenPerPage  \* pageSize (50 in loadAndRenderBucketContents)

ASSUME ChildrenPerPageAssumption == ChildrenPerPage \in Nat \ {0}

NoCursor == [folder |-> FALSE, key |-> -1]

FoldersOf(d) == {k \in DOMAIN d : d[k]}

(* ORDER BY is_folder DESC, key ASC.                                        *)
Before(d, j, k) == IF d[j] = d[k] THEN j < k ELSE d[j]

Rank(d, S, k) == Cardinality({j \in S : Before(d, j, k)})

(* LIMIT n.                                                                 *)
First(d, S, n) == {k \in S : Rank(d, S, k) < n}

(* Mutant: the cursor's own row is fetched again.                           *)
After_Inclusive(d, cursor) ==
  {k \in DOMAIN d : IF d[k] = cursor.folder THEN k >= cursor.key ELSE d[k]}

(* (is_folder, key) > (cursor_is_folder, cursor_key), as SQL compares rows: *)
(* false < true, so a folder comes after every file.                        *)
After(d, cursor) ==
  {k \in DOMAIN d : IF d[k] = cursor.folder THEN k > cursor.key ELSE d[k]}

(* Mutant of Children: no LIMIT.                                            *)
Children_All(d, cursor) == IF cursor = NoCursor THEN DOMAIN d ELSE After(d, cursor)

(* GetDirectChildren.                                                       *)
Children(d, cursor) ==
  First(d, IF cursor = NoCursor THEN DOMAIN d ELSE After(d, cursor), ChildrenPerPage)

(* GetCursorForDirectChildren, with no row turned into the nil cursor.      *)
CursorAt(d, offset) ==
  IF \E k \in DOMAIN d : Rank(d, DOMAIN d, k) = offset
  THEN LET k == CHOOSE k \in DOMAIN d : Rank(d, DOMAIN d, k) = offset
       IN  [folder |-> d[k], key |-> k]
  ELSE NoCursor

Smaller(a, b) == IF a < b THEN a ELSE b

(* Mutant of TotalPages: rounded down.                                      *)
TotalPages_Floor(items) == IF items > ChildrenPerPage THEN items \div ChildrenPerPage ELSE 1

TotalPages(items) == IF items > 0 THEN (items + ChildrenPerPage - 1) \div ChildrenPerPage ELSE 1

(* The children on the n-th page, which the arrows lead to page by page.    *)
PageOf(d, n) ==
  Children(d, IF n = 1 THEN NoCursor ELSE CursorAt(d, (n - 1) * ChildrenPerPage - 1))
=============================================================================
