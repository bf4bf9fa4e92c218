----------------------------- MODULE FolderPaths ------------------------------
(***************************************************************************)
(* Keys as paths.  A key is the sequence of its parts, strings.Split(key,   *)
(* "/"): "a/b" is <<"a", "b">>, "a/" is <<"a", "">>, and the empty string,  *)
(* the prefix of the root, is <<"">>.  A part is empty or has no slash.     *)
(***************************************************************************)
EXTENDS Naturals, FiniteSets, SequencesExt

Root == <<"">>

NotEmpty(part) == part # ""
IsFolderKey(name) == Len(name) > 1 /\ Last(name) = ""

(* An ordinary key has no empty part, but for the last of a folder's key.   *)
Ordinary(name) == name # Root /\ \A i \in 1..Len(name) - 1 : NotEmpty(name[i])

(* The key up to and with its last slash: the prefix in the row of a file   *)
(* that processObject writes, the key of a marker object included.          *)
Directory(name) == Append(Front(name), "")

(* extractPrefix of an upload: the same, after one slash at the end.        *)
ExtractPrefix(key) == Directory(IF IsFolderKey(key) THEN Front(key) ELSE key)

(* Mutant of ParentPrefix: the folder is its own parent.                    *)
ParentPrefix_Itself(parts, i) == Append(SubSeq(parts, 1, i), "")

(* The prefix ensureParentFolders gives to the folder of the i-th part: all *)
(* parts before it, the empty ones included.                                *)
ParentPrefix(parts, i) ==
  LET before == SubSeq(parts, 1, i - 1)
  IN  IF before \in {<<>>, <<"">>} THEN Root ELSE Append(before, "")

(* Where a path has a part that is not empty, the place of the n-th such    *)
(* part, and the path of these parts alone.                                 *)
Positions(path) == {i \in DOMAIN path : NotEmpty(path[i])}

NthPosition(path, n) ==
  CHOOSE i \in Positions(path) : Cardinality({j \in Positions(path) : j <= i}) = n

Squeeze(path) ==
  [n \in 1..Cardinality(Positions(path)) |-> path[NthPosition(path, n)]]

(* The rows ensureParentFolders writes, by the place of the folder's name:  *)
(* one for each part that is not empty, whose key leaves the empty ones out.*)
ParentFolders(name) ==
  LET parts == Front(name)
  IN  [i \in Positions(parts) |->
         [key    |-> Append(Squeeze(SubSeq(parts, 1, i)), ""),
          prefix |-> ParentPrefix(parts, i)]]

(* BuildBreadcrumbs.                                                        *)
Breadcrumbs(path) ==
  LET parts == Squeeze(path)
  IN  <<Root>> \o [n \in 1..Len(parts) |-> Append(SubSeq(parts, 1, n), "")]
=============================================================================
