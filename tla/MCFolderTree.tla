----------------------------- MODULE MCFolderTree -----------------------------
(***************************************************************************)
(* An instance of FolderTree for TLC: the keys, in listing order, are       *)
(*     1 = "#/"   2 = "#/y"   3 = "d/", a marker object                     *)
(*     4 = "d/e/"   5 = "d/e/x"                                             *)
(* A browser cuts the link of "#/" off at the #, so that it opens the root. *)
(***************************************************************************)
EXTENDS FolderTree, TLC

KeysYMX   == {2, 3, 5}
KeysX     == {5}
FoldersDE == {1, 3, 4}
NameX     == <<<<"#", "">>, <<"#", "y">>, <<"d", "">>, <<"d", "e", "">>, <<"d", "e", "x">>>>
ReadAsX   == [path \in {Root} \cup {NameX[f] : f \in FoldersDE} |->
                IF path[1] = "#" THEN Root ELSE path]
PathsMX   ==
  [k \in KeysYMX |->
     LET up == ParentFolders(NameX[k])
     IN  [i \in DOMAIN up |-> CHOOSE f \in FoldersDE : NameX[f] = up[i].key]]

(* The path without its empty parts is what skipping them one by one leaves.*)
ASSUME SqueezeAssumption ==
  \A path \in Names : Squeeze(path) = SelectSeq(path, NotEmpty)

(* The scans are alike, and only safety is checked.                         *)
ScanSymmetry == Permutations(Scans)
=============================================================================
