------------------------------ MODULE FolderTree ------------------------------
(***************************************************************************)
(* The rows of ObjectScan as the tree of folders in which a user finds an   *)
(* object: the pages of a folder show the rows whose prefix is its key, and *)
(* a row that is a folder has a link to that folder's first page            *)
(* (pkg/views/bucket-listing.templ), from which arrows lead to the others.  *)
(*                                                                         *)
(* The database is taken to sort keys as S3 lists them.                     *)
(***************************************************************************)
EXTENDS ObjectScan, FolderPaths, DirectoryQueries

CONSTANTS
  Name,    \* the key of each number, as a path
  Plain,   \* the parts that have the same meaning in a query string
  ReadAs,  \* the path the handler reads in the link to a folder
  Depth,   \* the parts a name of Names may have
  Parts    \* what such a part may be

ASSUME NameAssumption ==
  /\ \A k \in Keys : Name[k] \in Seq(STRING) \ {<<>>}
  /\ \A k \in Keys : Ordinary(Name[k]) /\ (k \in Folders <=> IsFolderKey(Name[k]))
  /\ \A j, k \in Keys : Name[j] = Name[k] => j = k
  /\ \A k \in Objects :
       [i \in DOMAIN Ancestors[k] |-> Name[Ancestors[k][i]]]
         = [i \in DOMAIN ParentFolders(Name[k]) |-> ParentFolders(Name[k])[i].key]

(* S3 lists a marker object before the objects below it.                    *)
ASSUME OrderAssumption ==
  \A k \in Objects : \A f \in AncestorSet(k) \cap Objects : f <= k

(* Keys of S3 are at most 1024 bytes long.                                  *)
ASSUME FiniteAssumption == IsFiniteSet(Keys)

(* No prefix is configured: the first page shown is that of the root.       *)
ASSUME PrefixAssumption == Scope = Objects

IsPlain(path) == \A i \in DOMAIN path : path[i] \in Plain

(* The key is put into the link as it is: a part with one of & # + % ; in   *)
(* it is cut off or read as something else.                                 *)
ASSUME LinkAssumption ==
  /\ "" \in Plain
  /\ \A path \in {Root} \cup {Name[f] : f \in Folders} : IsPlain(path) => ReadAs[path] = path

ASSUME BoundsAssumption == Depth \in Nat /\ Parts \subseteq STRING

Names == UNION {[1..n -> Parts] : n \in 1..Depth}

(* A folder's row has its prefix from ensureParentFolders, that of a file   *)
(* from processObject; for these names extractPrefix gives a file the same. *)
FolderPrefix(f) ==
  LET rows == UNION {Range(ParentFolders(Name[k])) : k \in Objects}
  IN  (CHOOSE row \in rows : row.key = Name[f]).prefix

RowPrefix(k) == IF index[k].folder THEN FolderPrefix(k) ELSE Directory(Name[k])

(* The rows GetDirectChildren chooses from: no folder contains itself.      *)
DirectoryOf(path) ==
  [k \in {j \in DOMAIN index : RowPrefix(j) = path /\ Name[j] # path} |-> index[k].folder]

(* The rows on the pages of a folder, which the arrows lead to one by one.  *)
Shows(path) ==
  LET d == DirectoryOf(path)
  IN  UNION {PageOf(d, n) : n \in 1..TotalPages(Cardinality(DOMAIN d))}

(* What a user can come to: the pages of the root show the first of the     *)
(* rows clicked on, and each but the last is a folder whose link leads to   *)
(* pages that show the next.                                                *)
Clicks(rows) ==
  /\ rows[1] \in Shows(Root)
  /\ \A i \in DOMAIN rows : i > 1 =>
       index[rows[i - 1]].folder /\ rows[i] \in Shows(ReadAs[Name[rows[i - 1]]])

(* By no more clicks than its key has parts.                                *)
Found ==
  {k \in DOMAIN index :
     \E n \in 1..Len(Name[k]) :
       \E rows \in [1..n -> DOMAIN index] : rows[n] = k /\ Clicks(rows)}

(* No page boundary has a folder before it and a file after it.             *)
FilesAreShown(d) == FoldersOf(d) = {} \/ Cardinality(DOMAIN d) <= ChildrenPerPage

(* When an undisturbed scan has cleaned up, then of every object that       *)
(* nobody touched in the meantime and whose folders have plain names:       *)
(* every breadcrumb of its folder leads to pages that have something to     *)
(* show, and if its folder holds files only, or fits one page, a user can   *)
(* click through to it, over as many pages of folders as it takes.  This    *)
(* rests on a row being put right by an object listed later: the scan       *)
(* writes the row of a marker object as a file.                             *)
ObjectsAreFound ==
  \A s \in Scans : scan[s].pc = "finalize" /\ Undisturbed(s) =>
    \A k \in (Scope \cap hist[s].calm \cap Present(s3)) \ Folders :
      LET folder == Directory(Name[k])
      IN  AncestorSet(k) \cap Objects \subseteq hist[s].calm /\ IsPlain(folder) =>
            /\ \A crumb \in Range(Breadcrumbs(folder)) : Shows(ReadAs[crumb]) # {}
            /\ FilesAreShown(DirectoryOf(folder)) => k \in Found

(* The folder in which a key lies whose part at place i is the next one.    *)
FolderAt(up, i) ==
  LET before == {j \in DOMAIN up : j < i}
  IN  IF before = {} THEN Root ELSE up[Max(before)].key

PathsAreChains ==
  \A name \in Names \ {Root} :
    ~ IsFolderKey(name) =>
      LET up    == ParentFolders(name)
          chain == /\ \A i \in DOMAIN up : up[i].prefix = FolderAt(up, i)
                   /\ ExtractPrefix(name) = FolderAt(up, Len(name))
      IN  /\ Ordinary(name) <=> chain
          /\ Ordinary(name) => \A i \in DOMAIN up : up[i].prefix = ExtractPrefix(up[i].key)

(* For every ordinary key, and only for those, the folders of its path are  *)
(* a chain from the root, each with the one before as its prefix, down to   *)
(* the prefix of the key itself: an object is found wherever it lies.  A key*)
(* with an empty part, as in "a//b" or "/b", is in no folder that anything  *)
(* leads to.  And every row of an object that is in the table, written by a *)
(* scan or left over, is where an upload of its key would put it.           *)
FoldersAreChains ==
  /\ PathsAreChains
  /\ \A k \in DOMAIN index \ Folders : RowPrefix(k) = ExtractPrefix(Name[k])
=============================================================================
