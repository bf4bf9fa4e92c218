------------------------- MODULE DirectoryPagesProofs -------------------------
(***************************************************************************)
(* Theorems about DirectoryPages, for directories and pages of any size:    *)
(* the page asked for is compared with counts that are those of the         *)
(* directory as long as nobody writes.                                      *)
(***************************************************************************)
EXTENDS DirectoryPages, DirectoryQueriesProofs

-----------------------------------------------------------------------------
(* What a request knows *)

Asked == {"folders", "files", "cursor", "fetch", "render", "shown"}

(* What was read of a directory that nobody has changed since is still so;  *)
(* only a page that the counts have is shown.                               *)
PageInv(r) ==
  /\ req[r].pc \in Asked => req[r].page >= 1
  /\ req[r].quiet /\ req[r].pc \in Asked \ {"folders"} =>
       req[r].folders = Cardinality(FoldersOf(dir))
  /\ req[r].quiet /\ req[r].pc \in Asked \ {"folders", "files"} =>
       req[r].files = Cardinality(DOMAIN dir \ FoldersOf(dir))
  /\ req[r].quiet /\ req[r].pc \in {"fetch", "render", "shown"} =>
       req[r].cursor = IF req[r].page <= 1 THEN NoCursor
                       ELSE CursorAt(dir, CursorOffset(req[r].page))
  /\ req[r].quiet /\ req[r].pc \in {"render", "shown"} =>
       req[r].items = Children(dir, req[r].cursor)
  /\ req[r].pc = "shown" => req[r].page <= TotalPages(Total(r))

Inv == TypeOK /\ \A r \in Readers : PageInv(r)

LEMMA DirIsDirectory ==
  ASSUME TypeOK
  PROVE  IsDirectory(dir) /\ DOMAIN dir \subseteq Keys
  BY ConstantsAssumption, FS_Subset DEF TypeOK, IsDirectory

LEMMA AskingIsRequest ==
  ASSUME NEW page \in Params \cup {1}
  PROVE  Asking(page) \in RequestState
<1>1. NoCursor \in [folder : BOOLEAN, key : Keys \cup {-1}]
  BY DEF NoCursor
<1> QED  BY <1>1 DEF Asking, RequestState, RequestPCs

LEMMA InvInit == Init => Inv
<1> SUFFICES ASSUME Init PROVE Inv
  OBVIOUS
<1>1. DOMAIN dir \subseteq Keys /\ \A k \in DOMAIN dir : dir[k] \in BOOLEAN
  <2>1. PICK S \in SUBSET Keys : dir \in [S -> BOOLEAN]
    BY Zenon DEF Init
  <2> QED  BY <2>1
<1> DEFINE first == [Asking(1) EXCEPT !.pc = "idle"]
<1>2. /\ first \in RequestState /\ first.pc = "idle" /\ first.items = {}
  BY AskingIsRequest DEF RequestState, RequestPCs, Asking
<1>3. \A r \in Readers : req[r] = first
  BY DEF Init
<1>4. req \in [Readers -> RequestState]
  BY <1>2, <1>3 DEF Init
<1> HIDE DEF first
<1>5. Cardinality({}) <= ChildrenPerPage
  BY ChildrenPerPageAssumption, FS_EmptySet
<1>6. TypeOK
  BY <1>1, <1>2, <1>3, <1>4, <1>5 DEF TypeOK
<1> QED  BY <1>2, <1>3, <1>6 DEF Inv, PageInv, Asked

(* A step of one request leaves the others, and what they know, as they are.*)
LEMMA RequestMoves ==
  ASSUME Inv, NEW r \in Readers, UNCHANGED dir, NEW q \in RequestState,
         req' = [req EXCEPT ![r] = q], Cardinality(q.items) <= ChildrenPerPage,
         /\ q.pc \in Asked => q.page >= 1
         /\ q.quiet /\ q.pc \in Asked \ {"folders"} => q.folders = Cardinality(FoldersOf(dir))
         /\ q.quiet /\ q.pc \in Asked \ {"folders", "files"} =>
              q.files = Cardinality(DOMAIN dir \ FoldersOf(dir))
         /\ q.quiet /\ q.pc \in {"fetch", "render", "shown"} =>
              q.cursor = IF q.page <= 1 THEN NoCursor ELSE CursorAt(dir, CursorOffset(q.page))
         /\ q.quiet /\ q.pc \in {"render", "shown"} => q.items = Children(dir, q.cursor)
         /\ q.pc = "shown" => q.page <= TotalPages(q.folders + q.files)
  PROVE  Inv'
<1>1. req'[r] = q /\ \A x \in Readers : x # r => req'[x] = req[x]
  BY DEF Inv, TypeOK
<1>2. TypeOK'
  BY <1>1 DEF Inv, TypeOK
<1>3. PageInv(r)'
  BY <1>1 DEF PageInv, Total
<1>4. ASSUME NEW x \in Readers, x # r PROVE PageInv(x)'
  <2>1. req'[x] = req[x] /\ dir' = dir
    BY <1>1, <1>4
  <2>2. PageInv(x)
    BY DEF Inv
  <2> QED  BY <2>1, <2>2 DEF PageInv, Total
<1> QED  BY <1>2, <1>3, <1>4 DEF Inv

LEMMA Went ==
  ASSUME NEW q \in RequestState, NEW label \in RequestPCs
  PROVE  /\ [q EXCEPT !.pc = label] \in RequestState /\ [q EXCEPT !.pc = label].pc = label
         /\ [q EXCEPT !.pc = label].page = q.page /\ [q EXCEPT !.pc = label].quiet = q.quiet
         /\ [q EXCEPT !.pc = label].folders = q.folders /\ [q EXCEPT !.pc = label].files = q.files
         /\ [q EXCEPT !.pc = label].cursor = q.cursor /\ [q EXCEPT !.pc = label].items = q.items
  BY DEF RequestState

LEMMA RequestStepInv ==
  ASSUME Inv, NEW r \in Readers, RequestStep(r) \/ \E page \in Params : Request(r, page)
  PROVE  Inv'
<1> DEFINE q == req[r]
<1>0. /\ q \in RequestState /\ q.page \in Params \cup {1} /\ PageInv(r) /\ Cardinality(q.items) <= ChildrenPerPage
      /\ IsDirectory(dir) /\ DOMAIN dir \subseteq Keys /\ ChildrenPerPage \in Nat
  BY DirIsDirectory, ChildrenPerPageAssumption DEF Inv, TypeOK, RequestState
<1>n. q.page \in Int /\ q.folders \in Nat /\ q.files \in Nat /\ ChildrenPerPage \in Nat \ {0}
  <2>1. \A page \in Params \cup {1} : page \in Int
    BY ConstantsAssumption
  <2>2. ChildrenPerPage \in Nat \ {0}
    BY ChildrenPerPageAssumption
  <2>3. q \in RequestState /\ q.page \in Params \cup {1}
    BY <1>0
  <2> HIDE DEF q
  <2>4. q.folders \in Nat /\ q.files \in Nat
    BY <2>3 DEF RequestState
  <2>5. q.page \in Int
    BY <2>1, <2>3, Zenon
  <2> QED  BY <2>2, <2>4, <2>5
<1>d. UNCHANGED dir
  BY DEF RequestStep, Request, Parse, CountFolders, CountFiles, GetCursor, Fetch, Render, QueryFails
<1>a. ASSUME NEW page \in Params \cup {1}, req' = [req EXCEPT ![r] = Asking(page)] PROVE Inv'
  <2> DEFINE a == Asking(page)
  <2>1. a \in RequestState /\ a.pc = "parse" /\ a.items = {}
    BY AskingIsRequest DEF Asking
  <2>2. Cardinality({}) <= ChildrenPerPage
    BY <1>0, FS_EmptySet
  <2>3. req' = [req EXCEPT ![r] = a]
    BY <1>a
  <2> HIDE DEF a
  <2> QED  BY <1>d, <2>1, <2>2, <2>3, RequestMoves DEF Asked
(* The place changes, and perhaps a variable.                               *)
<1>g. ASSUME NEW label \in RequestPCs, Goto(r, label),
             label \in {"error"} \/ (label = "folders" /\ q.page >= 1)
             \/ (q.pc = "render" /\ label = "shown" /\ q.page <= TotalPages(Total(r)))
      PROVE  Inv'
  <2> DEFINE w == [q EXCEPT !.pc = label]
  <2>1. /\ w \in RequestState /\ w.pc = label /\ w.page = q.page /\ w.quiet = q.quiet
        /\ w.folders = q.folders /\ w.files = q.files /\ w.cursor = q.cursor /\ w.items = q.items
    BY <1>0, Went
  <2>2. req' = [req EXCEPT ![r] = w]
    BY <1>g DEF Goto
  <2> HIDE DEF w
  <2>3. CASE label \in {"error", "folders"}
    BY <1>0, <1>d, <1>g, <2>1, <2>2, <2>3, RequestMoves DEF Asked
  <2>4. CASE label = "shown"
    BY <1>0, <1>d, <1>g, <2>1, <2>2, <2>4, RequestMoves DEF Asked, PageInv, Total
  <2> QED  BY <1>g, <2>3, <2>4
<1>1. ASSUME NEW page \in Params, Request(r, page) PROVE Inv'
  BY <1>1, <1>a DEF Request
<1>2. CASE Parse(r)
  <2>1. CASE q.page < 1
    BY <1>2, <1>a, <2>1 DEF Parse, Redirect
  <2>2. CASE ~ (q.page < 1)
    <3>1. Goto(r, "folders") /\ q.page >= 1
      BY <1>n, <1>2, <2>2 DEF Parse
    <3> QED  BY <1>g, <3>1 DEF RequestPCs
  <2> QED  BY <2>1, <2>2
<1>3. CASE CountFolders(r)
  <2> DEFINE n == Cardinality(FoldersOf(dir))
             w == [q EXCEPT !.pc = "files", !.folders = n]
  <2>1. n \in Nat
    BY <1>0, ChildrenFinite DEF FoldersOf
  <2>2. req' = [req EXCEPT ![r] = w] /\ q.pc = "folders"
    BY <1>3 DEF CountFolders
  <2> HIDE DEF n
  <2>3. /\ w \in RequestState /\ w.pc = "files" /\ w.page = q.page /\ w.folders = n /\ w.items = q.items
    BY <1>0, <2>1 DEF RequestState, RequestPCs
  <2> HIDE DEF w
  <2> QED  BY <1>0, <1>d, <2>2, <2>3, RequestMoves DEF Asked, PageInv, n
<1>4. CASE CountFiles(r)
  <2> DEFINE n == Cardinality(DOMAIN dir \ FoldersOf(dir))
             w == [q EXCEPT !.pc = "cursor", !.files = n]
  <2>1. n \in Nat
    BY <1>0, ChildrenFinite
  <2>2. req' = [req EXCEPT ![r] = w] /\ q.pc = "files"
    BY <1>4 DEF CountFiles
  <2> HIDE DEF n
  <2>3. /\ w \in RequestState /\ w.pc = "cursor" /\ w.page = q.page /\ w.quiet = q.quiet
        /\ w.folders = q.folders /\ w.files = n /\ w.items = q.items
    BY <1>0, <2>1 DEF RequestState, RequestPCs
  <2> HIDE DEF w
  <2> QED  BY <1>0, <1>d, <2>2, <2>3, RequestMoves DEF Asked, PageInv, n
<1>5. CASE GetCursor(r)
  <2>1. CASE q.page > 1 /\ CursorOffset(q.page) < 0
    BY <1>5, <1>g, <2>1 DEF GetCursor, RequestPCs
  <2>2. CASE ~ (q.page > 1 /\ CursorOffset(q.page) < 0)
    <3> DEFINE c == IF q.page <= 1 THEN NoCursor ELSE CursorAt(dir, CursorOffset(q.page))
               w == [q EXCEPT !.pc = "fetch", !.cursor = c]
    <3>1. c \in [folder : BOOLEAN, key : Keys \cup {-1}]
      <4>1. NoCursor \in [folder : BOOLEAN, key : Keys \cup {-1}]
        BY DEF NoCursor
      <4>2. [folder : BOOLEAN, key : DOMAIN dir \cup {-1}] \subseteq [folder : BOOLEAN, key : Keys \cup {-1}]
        BY <1>0
      <4>3. CursorAt(dir, CursorOffset(q.page)) \in [folder : BOOLEAN, key : DOMAIN dir \cup {-1}]
        BY <1>0, CursorIsRow
      <4> QED  BY <4>1, <4>2, <4>3
    <3>2. req' = [req EXCEPT ![r] = w] /\ q.pc = "cursor"
      BY <1>5, <2>2 DEF GetCursor
    <3> HIDE DEF c
    <3>3. /\ w \in RequestState /\ w.pc = "fetch" /\ w.page = q.page /\ w.quiet = q.quiet
          /\ w.folders = q.folders /\ w.files = q.files /\ w.cursor = c /\ w.items = q.items
      BY <1>0, <3>1 DEF RequestState, RequestPCs
    <3> HIDE DEF w
    <3> QED  BY <1>0, <1>d, <3>2, <3>3, RequestMoves DEF Asked, PageInv, c
  <2> QED  BY <2>1, <2>2
<1>6. CASE Fetch(r)
  <2> DEFINE i == Children(dir, q.cursor)
             w == [q EXCEPT !.pc = "render", !.items = i]
  <2>1. i \in SUBSET Keys /\ Cardinality(i) <= ChildrenPerPage
    BY <1>0, ChildrenFit
  <2>2. req' = [req EXCEPT ![r] = w] /\ q.pc = "fetch"
    BY <1>6 DEF Fetch
  <2> HIDE DEF i
  <2>3. /\ w \in RequestState /\ w.pc = "render" /\ w.page = q.page /\ w.quiet = q.quiet
        /\ w.folders = q.folders /\ w.files = q.files /\ w.cursor = q.cursor /\ w.items = i
    BY <1>0, <2>1 DEF RequestState, RequestPCs
  <2> HIDE DEF w
  <2> QED  BY <1>0, <1>d, <2>1, <2>2, <2>3, RequestMoves DEF Asked, PageInv, i
<1>7. CASE Render(r)
  <2>1. CASE ValidatePageNumber(q.page, TotalPages(Total(r))) # q.page
    BY <1>7, <1>a, <2>1 DEF Render, Redirect
  <2>2. CASE ValidatePageNumber(q.page, TotalPages(Total(r))) = q.page
    <3>1. q.pc = "render" /\ Goto(r, "shown") /\ q.page >= 1
      BY <1>0, <1>7, <2>2 DEF Render, PageInv, Asked
    <3>3. TotalPages(Total(r)) \in Int /\ TotalPages(Total(r)) >= 1
      <4>1. CASE Total(r) > 0
        <5> DEFINE a == Total(r) + ChildrenPerPage - 1
        <5>1. a \in Nat /\ a >= ChildrenPerPage
          BY <1>n, <4>1 DEF Total
        <5>2. a \div ChildrenPerPage \in Int /\ a < ((a \div ChildrenPerPage) + 1) * ChildrenPerPage
          BY <1>n, <5>1
        <5>3. a \div ChildrenPerPage >= 1
          BY <1>n, <5>1
        <5> QED  BY <4>1, <5>2, <5>3 DEF TotalPages
      <4>2. CASE ~ (Total(r) > 0)
        BY <4>2 DEF TotalPages
      <4> QED  BY <4>1, <4>2
    <3>4. q.page <= TotalPages(Total(r))
      BY <1>n, <2>2, <3>1, <3>3 DEF ValidatePageNumber
    <3> QED  BY <1>g, <3>1, <3>4 DEF RequestPCs
  <2> QED  BY <2>1, <2>2
<1>8. CASE QueryFails(r)
  BY <1>8, <1>g DEF QueryFails, RequestPCs
<1> QED
  BY <1>1, <1>2, <1>3, <1>4, <1>5, <1>6, <1>7, <1>8 DEF RequestStep

LEMMA WriteInv ==
  ASSUME Inv, NEW k \in Keys, DeleteChild(k) \/ \E isFolder \in BOOLEAN : WriteChild(k, isFolder)
  PROVE  Inv'
<1>0. TypeOK /\ Unquiet
  BY DEF Inv, DeleteChild, WriteChild
<1>1. DOMAIN dir' \subseteq Keys /\ \A x \in DOMAIN dir' : dir'[x] \in BOOLEAN
  <2>1. CASE DeleteChild(k)
    BY <1>0, <2>1 DEF DeleteChild, TypeOK
  <2>2. ASSUME NEW isFolder \in BOOLEAN, WriteChild(k, isFolder)
        PROVE  DOMAIN dir' \subseteq Keys /\ \A x \in DOMAIN dir' : dir'[x] \in BOOLEAN
    BY <1>0, <2>2 DEF WriteChild, TypeOK
  <2> QED  BY <2>1, <2>2
<1>2. ASSUME NEW r \in Readers
      PROVE  /\ req'[r] \in RequestState /\ ~ req'[r].quiet /\ req'[r].items = req[r].items
             /\ req'[r].pc = req[r].pc /\ req'[r].page = req[r].page
             /\ req'[r].folders = req[r].folders /\ req'[r].files = req[r].files
  <2>1. req[r] \in RequestState /\ req'[r] = [req[r] EXCEPT !.quiet = FALSE]
    BY <1>0 DEF Unquiet, TypeOK
  <2> QED  BY <2>1 DEF RequestState
<1>3. req' \in [Readers -> RequestState]
  BY <1>0, <1>2 DEF Unquiet
<1>4. TypeOK'
  BY <1>0, <1>1, <1>2, <1>3 DEF TypeOK
<1>5. ASSUME NEW r \in Readers PROVE PageInv(r)'
  BY <1>2 DEF Inv, PageInv, Total
<1> QED  BY <1>4, <1>5 DEF Inv

LEMMA InvStep == Inv /\ [Next]_vars => Inv'
<1>1. ASSUME Inv, UNCHANGED vars PROVE Inv'
  BY <1>1 DEF Inv, TypeOK, PageInv, Total, vars
<1> QED  BY <1>1, RequestStepInv, WriteInv DEF Next

LEMMA InvHolds == Spec => []Inv
  BY InvInit, InvStep, PTL DEF Spec

-----------------------------------------------------------------------------
(* Pages and cursors *)

(* Conversions leave a number alone that fits.                              *)
LEMMA WrapFits ==
  ASSUME NEW half \in Nat \ {0}, NEW n \in Nat, n < half
  PROVE  Wrap(n, half) = n
  BY DEF Wrap

LEMMA OffsetFits ==
  ASSUME NEW page \in Nat, page > 1, (page - 1) * ChildrenPerPage < Int32Half
  PROVE  CursorOffset(page) = (page - 1) * ChildrenPerPage - 1
<1> DEFINE m == (page - 1) * ChildrenPerPage
<1>0. ChildrenPerPage \in Nat \ {0} /\ IntHalf \in Nat \ {0} /\ Int32Half \in Nat \ {0} /\ Int32Half <= IntHalf
  BY ConstantsAssumption, ChildrenPerPageAssumption
<1>1. m \in Nat /\ m - 1 \in Nat /\ m < Int32Half
  BY <1>0
<1>2. CursorOffset(page) = SafeInt32(Wrap(Wrap(m, IntHalf) - 1, IntHalf))
  BY DEF CursorOffset
<1> HIDE DEF m
<1>3. Wrap(m, IntHalf) = m
  BY <1>0, <1>1, WrapFits
<1>4. Wrap(m - 1, IntHalf) = m - 1
  BY <1>0, <1>1, WrapFits
<1>5. Wrap(m - 1, Int32Half) = m - 1
  BY <1>0, <1>1, WrapFits
<1>6. SafeInt32(m - 1) = m - 1
  BY <1>0, <1>1, <1>5 DEF SafeInt32
<1> QED  BY <1>2, <1>3, <1>4, <1>6 DEF m

-----------------------------------------------------------------------------
(* The theorems *)

(* What is known of a page that is shown, if nobody has written meanwhile.  *)
LEMMA SettledPage ==
  ASSUME Inv, NEW r \in Readers, Settled(r)
  PROVE  /\ IsDirectory(dir) /\ Cardinality(DOMAIN dir) \in Nat /\ Total(r) = Cardinality(DOMAIN dir)
         /\ req[r].page \in Nat \ {0} /\ req[r].page <= TotalPages(Total(r))
         /\ req[r].items = Children(dir, IF req[r].page <= 1 THEN NoCursor
                                         ELSE CursorAt(dir, CursorOffset(req[r].page)))
<1> DEFINE D == DOMAIN dir
           F == FoldersOf(dir)
<1>0. /\ IsDirectory(dir) /\ PageInv(r) /\ req[r] \in RequestState /\ req[r].pc = "shown"
      /\ req[r].quiet
  BY DirIsDirectory DEF Inv, TypeOK, Settled
<1>1. IsFiniteSet(D) /\ Cardinality(D) \in Nat /\ F \subseteq D
  BY <1>0, ChildrenFinite DEF FoldersOf
<1>2. Cardinality(D \ F) = Cardinality(D) - Cardinality(F)
  <2>1. Cardinality(D \ F) = Cardinality(D) - Cardinality(D \cap F)
    BY <1>1, FS_Difference
  <2>2. D \cap F = F
    BY <1>1
  <2> QED  BY <2>1, <2>2
<1>3. Cardinality(F) \in Nat
  BY <1>1, FS_Subset, FS_CardinalityType
<1>4. /\ req[r].folders = Cardinality(F) /\ req[r].files = Cardinality(D \ F)
      /\ req[r].page >= 1 /\ req[r].page <= TotalPages(Total(r))
      /\ req[r].items = Children(dir, req[r].cursor)
      /\ req[r].cursor = IF req[r].page <= 1 THEN NoCursor ELSE CursorAt(dir, CursorOffset(req[r].page))
  BY <1>0 DEF PageInv, Asked
<1>5. Total(r) = Cardinality(D)
  BY <1>1, <1>2, <1>3, <1>4 DEF Total
<1>6. req[r].page \in Nat \ {0}
  <2>1. \A page \in Params \cup {1} : page \in Int
    BY ConstantsAssumption
  <2>2. req[r].page \in Params \cup {1}
    BY <1>0 DEF RequestState
  <2>3. req[r].page \in Int
    BY <2>1, <2>2, Zenon
  <2> QED  BY <1>4, <2>3
<1> QED  BY <1>0, <1>1, <1>4, <1>5, <1>6

(* The pagination of such a page: it is the page asked for.                 *)
LEMMA SettledInfo ==
  ASSUME Inv, NEW r \in Readers, Settled(r)
  PROVE  /\ Info(r).hasNext <=> Cardinality(DOMAIN dir) > req[r].page * ChildrenPerPage
         /\ Info(r).hasPrevious <=> req[r].page > 1
         /\ req[r].page > 1 => Cardinality(DOMAIN dir) > (req[r].page - 1) * ChildrenPerPage
         /\ Info(r).start = (req[r].page - 1) * ChildrenPerPage
         /\ Info(r).end = Smaller(Info(r).start + ChildrenPerPage, Cardinality(DOMAIN dir))
<1> DEFINE n == Cardinality(DOMAIN dir)
           page == req[r].page
<1>0. n \in Nat /\ Total(r) = n /\ page \in Nat \ {0} /\ page <= TotalPages(n)
  BY SettledPage
<1> HIDE DEF n, page
<1>1. TotalPages(n) \in Int
  <2>1. ChildrenPerPage \in Nat \ {0}
    BY ChildrenPerPageAssumption
  <2> QED  BY <1>0, <2>1 DEF TotalPages
<1>2. Smaller(page, TotalPages(n)) = page
  BY <1>0, <1>1 DEF Smaller
<1>3. ~ (page < 1) /\ (IF page < 1 THEN 1 ELSE Smaller(page, TotalPages(n))) = page
  BY <1>0, <1>2
<1>4. page < TotalPages(n) <=> n > page * ChildrenPerPage
  BY <1>0, PagesNeeded
<1>5. page > 1 => n > (page - 1) * ChildrenPerPage
  <2> SUFFICES ASSUME page > 1 PROVE n > (page - 1) * ChildrenPerPage
    OBVIOUS
  <2>1. page - 1 \in Nat \ {0} /\ page - 1 < TotalPages(n)
    BY <1>0, <1>1
  <2> QED  BY <1>0, <2>1, PagesNeeded
<1>6. Info(r).hasPrevious <=> page > 1
  BY <1>0, <1>3 DEF Info, PaginationInfo, page
<1>7. Info(r).hasNext <=> page < TotalPages(n)
  BY <1>0, <1>3 DEF Info, PaginationInfo, page
<1>8. /\ Info(r).start = (page - 1) * ChildrenPerPage
      /\ Info(r).end = Smaller((page - 1) * ChildrenPerPage + ChildrenPerPage, n)
  BY <1>0, <1>3 DEF Info, PaginationInfo, page
<1> QED  BY <1>4, <1>5, <1>6, <1>7, <1>8 DEF n, page

(* The variables keep their types: no page has more than ChildrenPerPage children. *)
THEOREM TypeCorrect == Spec => []TypeOK
<1>1. Inv => TypeOK
  BY DEF Inv
<1> QED  BY <1>1, InvHolds, PTL

(* An arrow on a page of a directory that nobody changes leads to children, *)
(* although the counts, the page and the arrows come from separate queries. *)
THEOREM ArrowsLead == Spec => []ArrowsLeadSomewhere
<1>1. Inv => ArrowsLeadSomewhere
  BY SettledInfo DEF ArrowsLeadSomewhere
<1> QED  BY <1>1, InvHolds, PTL

(* The first page, and each page of a directory of one kind, is its slice   *)
(* of the order, wherever its cursor comes from, as long as a directory has *)
(* no more children than an int32 offset can count: s3_objects never holds  *)
(* more rows, as their id is an int32 that starts at 1.                     *)
THEOREM PagesSlice ==
  Spec => [](Cardinality(DOMAIN dir) <= Int32Half => PagesAreSlices)
<1>1. Inv => (Cardinality(DOMAIN dir) <= Int32Half => PagesAreSlices)
  <2> SUFFICES ASSUME Inv, Cardinality(DOMAIN dir) <= Int32Half,
                      NEW r \in Readers, Settled(r), req[r].page = 1 \/ OneKind
               PROVE  /\ req[r].items = Slice(Info(r))
                      /\ Info(r).end - Info(r).start = Cardinality(req[r].items)
    BY DEF PagesAreSlices
  <2> DEFINE D == DOMAIN dir
             n == Cardinality(D)
             page == req[r].page
             m == (page - 1) * ChildrenPerPage
  <2>0. /\ IsDirectory(dir) /\ n \in Nat /\ page \in Nat \ {0} /\ ChildrenPerPage \in Nat \ {0}
        /\ Int32Half \in Nat \ {0}
    BY SettledPage, ConstantsAssumption, ChildrenPerPageAssumption
  <2>1. \A k \in D : Rank(dir, D, k) \in 0 .. n - 1
    BY <2>0, RankBelow
  <2>2. Info(r).start = m /\ Info(r).end = Smaller(m + ChildrenPerPage, n)
    BY SettledInfo
  <2>3. m \in Nat /\ m <= n
    <3>1. CASE page = 1
      BY <2>0, <3>1
    <3>2. CASE page > 1
      <4>1. n > m
        BY <3>2, SettledInfo
      <4>2. page - 1 \in Nat
        BY <2>0
      <4> QED  BY <2>0, <4>1, <4>2
    <3> QED  BY <2>0, <3>1, <3>2
  <2> HIDE DEF m, n, page
  <2> DEFINE end == Smaller(m + ChildrenPerPage, n)
  <2>4. end \in Nat /\ m <= end /\ end <= n
    BY <2>0, <2>3 DEF Smaller
  <2>5. Slice(Info(r)) = {k \in D : Rank(dir, D, k) \in m .. m + ChildrenPerPage - 1}
    <3>1. Slice(Info(r)) = {k \in D : Rank(dir, D, k) \in m .. end - 1}
      BY <2>2 DEF Slice
    <3>2. ASSUME NEW k \in D
          PROVE  Rank(dir, D, k) \in m .. end - 1 <=> Rank(dir, D, k) \in m .. m + ChildrenPerPage - 1
      BY <2>0, <2>1, <2>3 DEF Smaller
    <3> QED  BY <3>1, <3>2
  <2>6. req[r].items = {k \in D : Rank(dir, D, k) \in m .. m + ChildrenPerPage - 1}
    <3>1. CASE page = 1
      <4>1. req[r].items = First(dir, D, ChildrenPerPage)
        BY <3>1, SettledPage DEF Children, page
      <4>2. m = 0
        BY <2>0, <3>1 DEF m
      <4> QED  BY <2>0, <2>1, <4>1, <4>2 DEF First
    <3>2. CASE page > 1
      <4>1. m \in Nat \ {0} /\ m < n
        <5>1. n > m
          BY <3>2, SettledInfo DEF m, n, page
        <5>2. page - 1 \in Nat \ {0}
          BY <2>0, <3>2
        <5>3. m \in Nat \ {0}
          BY <2>0, <5>2 DEF m
        <5> QED  BY <5>1, <5>3
      <4>2. n <= Int32Half
        BY DEF n
      <4>3. m < Int32Half
        BY <2>0, <4>1, <4>2
      <4>4. CursorOffset(page) = m - 1
        BY <2>0, <3>2, <4>3, OffsetFits DEF m
      <4>5. req[r].items = Children(dir, CursorAt(dir, m - 1))
        BY <2>0, <3>2, <4>4, SettledPage DEF page
      <4>6. FoldersOf(dir) \in {{}, D}
        BY <2>0, <3>2 DEF OneKind, page
      <4> QED  BY <2>0, <4>1, <4>5, <4>6, CursorCuts DEF n
    <3> QED  BY <2>0, <3>1, <3>2
  <2>7. Cardinality({k \in D : Rank(dir, D, k) \in m .. end - 1}) = end - m
    BY <2>0, <2>3, <2>4, CutCounts DEF n
  <2>8. Slice(Info(r)) = {k \in D : Rank(dir, D, k) \in m .. end - 1}
    BY <2>2 DEF Slice
  <2> QED  BY <2>2, <2>5, <2>6, <2>7, <2>8
<1> QED  BY <1>1, InvHolds, PTL
=============================================================================
