---------------------------- MODULE DirectoryPages ----------------------------
(***************************************************************************)
(* The pages of one directory as IndexBucket serves them: the page          *)
(* parameter, the two counts, the cursor of the page, the page itself and   *)
(* the pagination shown with it are read in separate queries                *)
(* (pkg/app/app-handlers.go, pkg/app/pagination.go, pkg/dto/pagination.go,  *)
(* pkg/dbsvc), while scans and handlers add and delete rows.                *)
(*                                                                         *)
(* A directory is a function from the keys of its children to is_folder;    *)
(* keys are natural numbers in the order in which the database sorts them.  *)
(***************************************************************************)
EXTENDS DirectoryQueries

CONSTANTS
  Keys,        \* the children the directory may have
  Params,      \* the page parameters asked for, 0 for one that is no number >= 1
  IntHalf,     \* an int is in -IntHalf .. IntHalf - 1
  Int32Half,   \* an int32 is in -Int32Half .. Int32Half - 1
  Readers,     \* the browsers
  QueriesFail  \* whether a query may fail

ASSUME ConstantsAssumption ==
  /\ Keys \subseteq Nat /\ IsFiniteSet(Keys)
  /\ {IntHalf, Int32Half} \subseteq Nat \ {0} /\ Int32Half <= IntHalf
  /\ Params \subseteq 0 .. IntHalf - 1
  /\ QueriesFail \in BOOLEAN

VARIABLES
  dir,   \* the direct children of the directory
  req    \* where each browser's request stands

vars == <<dir, req>>

RequestPCs == {"idle", "parse", "folders", "files", "cursor", "fetch", "render",
               "shown", "error"}

(* page is the page asked for, folders and files the two counts, items the  *)
(* keys fetched.  quiet: nobody has changed the directory since the page    *)
(* was asked for.                                                           *)
RequestState ==
  [pc : RequestPCs, page : Params \cup {1}, folders : Nat, files : Nat,
   cursor : [folder : BOOLEAN, key : Keys \cup {-1}], items : SUBSET Keys,
   quiet : BOOLEAN]

TypeOK ==
  /\ DOMAIN dir \subseteq Keys /\ \A k \in DOMAIN dir : dir[k] \in BOOLEAN
  /\ req \in [Readers -> RequestState]
  /\ \A r \in Readers : Cardinality(req[r].items) <= ChildrenPerPage

----------------------------------------------------------------------------
(* Integers and their conversions *)

Wrap(n, half) == ((n + half) % (2 * half)) - half

(* int32(v) after the check against MaxInt32 only.                          *)
SafeInt32(v) == IF v > Int32Half - 1 THEN Int32Half - 1 ELSE Wrap(v, Int32Half)

(* The OFFSET with which GetCursorForPage asks for the last item of the     *)
(* previous page.                                                           *)
CursorOffset(page) ==
  LET offset == Wrap((page - 1) * ChildrenPerPage, IntHalf)
  IN  SafeInt32(Wrap(offset - 1, IntHalf))

----------------------------------------------------------------------------
(* Pagination *)

(* NewPaginationInfo, as far as the page shows it.                          *)
PaginationInfo(items, page) ==
  LET current == IF page < 1 THEN 1 ELSE Smaller(page, TotalPages(items))
      start   == (current - 1) * ChildrenPerPage
  IN  [current |-> current, hasPrevious |-> current > 1,
       hasNext |-> current < TotalPages(items),
       start |-> start, end |-> Smaller(start + ChildrenPerPage, items)]

ValidatePageNumber(page, maxPages) == IF page < 1 \/ page > maxPages THEN 1 ELSE page

----------------------------------------------------------------------------
(* A request *)

Goto(r, label) == req' = [req EXCEPT ![r].pc = label]

(* The request of a page that begins.                                       *)
Asking(page) == [pc |-> "parse", page |-> page, folders |-> 0, files |-> 0,
                 cursor |-> NoCursor, items |-> {}, quiet |-> TRUE]

Request(r, page) ==
  /\ req[r].pc \in {"idle", "shown", "error"}
  /\ req' = [req EXCEPT ![r] = Asking(page)]
  /\ UNCHANGED dir

(* Mutant: the redirect repeats the page.                                   *)
Redirect_SamePage(r) == req' = [req EXCEPT ![r] = Asking(req[r].page)]

(* The browser follows the redirect to page 1.                              *)
Redirect(r) == req' = [req EXCEPT ![r] = Asking(1)]

(* ParsePaginationParams.                                                   *)
Parse(r) ==
  /\ req[r].pc = "parse"
  /\ IF req[r].page < 1 THEN Redirect(r) ELSE Goto(r, "folders")
  /\ UNCHANGED dir

(* CountDirectChildren.                                                     *)
CountFolders(r) ==
  /\ req[r].pc = "folders"
  /\ req' = [req EXCEPT ![r].pc = "files", ![r].folders = Cardinality(FoldersOf(dir))]
  /\ UNCHANGED dir

CountFiles(r) ==
  /\ req[r].pc = "files"
  /\ req' = [req EXCEPT ![r].pc = "cursor",
                        ![r].files = Cardinality(DOMAIN dir \ FoldersOf(dir))]
  /\ UNCHANGED dir

(* GetCursorForPage; PostgreSQL refuses a negative OFFSET.                  *)
GetCursor(r) ==
  /\ req[r].pc = "cursor"
  /\ LET page == req[r].page
     IN  IF page > 1 /\ CursorOffset(page) < 0 THEN Goto(r, "error")
         ELSE req' = [req EXCEPT ![r].pc = "fetch",
                        ![r].cursor = IF page <= 1 THEN NoCursor
                                      ELSE CursorAt(dir, CursorOffset(page))]
  /\ UNCHANGED dir

Fetch(r) ==
  /\ req[r].pc = "fetch"
  /\ req' = [req EXCEPT ![r].pc = "render", ![r].items = Children(dir, req[r].cursor)]
  /\ UNCHANGED dir

Total(r) == req[r].folders + req[r].files

(* The page is checked against the counts only after it has been fetched.   *)
Render(r) ==
  /\ req[r].pc = "render"
  /\ IF ValidatePageNumber(req[r].page, TotalPages(Total(r))) # req[r].page
     THEN Redirect(r) ELSE Goto(r, "shown")
  /\ UNCHANGED dir

QueryFails(r) ==
  /\ QueriesFail /\ req[r].pc \in {"folders", "files", "cursor", "fetch"}
  /\ Goto(r, "error")
  /\ UNCHANGED dir

RequestStep(r) ==
  \/ Parse(r) \/ CountFolders(r) \/ CountFiles(r) \/ GetCursor(r) \/ Fetch(r)
  \/ Render(r) \/ QueryFails(r)

(* Scans and handlers write rows of the directory and delete them; a scan   *)
(* may turn a folder's row into a file's and back.                          *)
Unquiet == req' = [r \in Readers |-> [req[r] EXCEPT !.quiet = FALSE]]

WriteChild(k, isFolder) ==
  /\ k \in DOMAIN dir => dir[k] # isFolder
  /\ dir' = [x \in DOMAIN dir \cup {k} |-> IF x = k THEN isFolder ELSE dir[x]]
  /\ Unquiet

DeleteChild(k) ==
  /\ k \in DOMAIN dir
  /\ dir' = [x \in DOMAIN dir \ {k} |-> dir[x]]
  /\ Unquiet

----------------------------------------------------------------------------
(* The specification *)

Init ==
  /\ dir \in UNION {[S -> BOOLEAN] : S \in SUBSET Keys}
  /\ req = [r \in Readers |-> [Asking(1) EXCEPT !.pc = "idle"]]

Next ==
  \/ \E r \in Readers : RequestStep(r)
  \/ \E r \in Readers, page \in Params : Request(r, page)
  \/ \E k \in Keys : DeleteChild(k) \/ \E isFolder \in BOOLEAN : WriteChild(k, isFolder)

(* A handler that has begun runs on, and the browser follows a redirect.    *)
Fairness == \A r \in Readers : WF_vars(RequestStep(r))

Spec == Init /\ [][Next]_vars
FairSpec == Spec /\ Fairness

----------------------------------------------------------------------------
(* Properties *)

Info(r) == PaginationInfo(Total(r), req[r].page)

(* The children that the page with this pagination should hold: folders     *)
(* first, by key.                                                           *)
Slice(info) ==
  {k \in DOMAIN dir : Rank(dir, DOMAIN dir, k) \in info.start .. info.end - 1}

OneKind == FoldersOf(dir) \in {{}, DOMAIN dir}

Settled(r) == req[r].pc = "shown" /\ req[r].quiet

(* In a directory that nobody changes meanwhile, the first page, and every  *)
(* page of a directory of folders only or of files only, holds exactly the  *)
(* children between StartIndex and EndIndex, and none of them is missing    *)
(* from all the pages.                                                      *)
PagesAreSlices ==
  \A r \in Readers : Settled(r) /\ (req[r].page = 1 \/ OneKind) =>
    /\ req[r].items = Slice(Info(r))
    /\ Info(r).end - Info(r).start = Cardinality(req[r].items)

(* The arrows: a page has a next one if and only if children come after it, *)
(* and is reached only if the directory has that many pages.                *)
ArrowsLeadSomewhere ==
  \A r \in Readers : Settled(r) =>
    /\ Info(r).hasNext <=> Cardinality(DOMAIN dir) > req[r].page * ChildrenPerPage
    /\ Info(r).hasPrevious <=> req[r].page > 1
    /\ req[r].page > 1 => Cardinality(DOMAIN dir) > (req[r].page - 1) * ChildrenPerPage

(* A request is answered in the end, by a page or by an error: whatever is  *)
(* written meanwhile, no browser is sent from redirect to redirect.         *)
RequestsEnd == \A r \in Readers : req[r].pc = "parse" ~> req[r].pc \in {"shown", "error"}

(* "GetDirectChildrenPaginated returns paginated immediate children with    *)
(* folder-first ordering": page n is the n-th slice of that order.          *)
PaginatedChildrenFolderFirst ==
  \A r \in Readers : Settled(r) => req[r].items = Slice(Info(r))
=============================================================================
