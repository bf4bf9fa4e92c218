----------------------------- MODULE IndexMirror ------------------------------
(***************************************************************************)
(* What the index of a bucket promises to those who read it, whoever writes *)
(* it and however: a mirror that may lag behind, but by no more than the    *)
(* work at hand.  A row shows what S3 has held for its key since the index  *)
(* was last at rest; a row goes only if its object was gone in that time.   *)
(***************************************************************************)
EXTENDS Sequences

CONSTANTS Objects, Folders, Ancestors, Versions, Absent, NoVersion

VARIABLES
  bucket,  \* the version of each object in S3, or Absent
  rows,    \* the version that the row of a key shows; NoVersion for a folder
  atRest,  \* nobody is at work on the index
  held,    \* for each object, what S3 has held since the index was at rest
  flawed   \* a scan at work cannot be relied on

mirrorVars == <<bucket, rows, atRest, held, flawed>>

Below(f) == {k \in Objects : \E i \in DOMAIN Ancestors[k] : Ancestors[k][i] = f}

(* The row of a key may go: its object, or all the objects below a folder,  *)
(* have been absent.                                                        *)
MayGo(k) ==
  /\ k \in Objects \ Folders => Absent \in held[k]
  /\ k \in Folders => \A j \in Below(k) : Absent \in held[j]

ObjectsChange ==
  /\ bucket' \in [Objects -> Versions \cup {Absent}]
  /\ UNCHANGED rows

WriteRow ==
  /\ ~ atRest
  /\ \E k \in Objects : \E v \in held[k] \ {Absent} :
       rows' = [x \in DOMAIN rows \cup {k} |-> IF x = k THEN v ELSE rows[x]]
  /\ UNCHANGED bucket

WriteFolder ==
  /\ ~ atRest
  /\ \E k \in Objects : \E i \in DOMAIN Ancestors[k] :
       /\ held[k] # {Absent}
       /\ rows' = [x \in DOMAIN rows \cup {Ancestors[k][i]} |->
                     IF x = Ancestors[k][i] THEN NoVersion ELSE rows[x]]
  /\ UNCHANGED bucket

RemoveRows ==
  /\ ~ atRest
  /\ \E K \in SUBSET DOMAIN rows :
       /\ flawed \/ \A k \in K : MayGo(k)
       /\ rows' = [k \in DOMAIN rows \ K |-> rows[k]]
  /\ UNCHANGED bucket

(* The row of an object that has been absent goes, even if it stands for a  *)
(* folder as well: the object is then a marker, whose key ends in "/".      *)
RemoveRow ==
  /\ ~ atRest
  /\ \E k \in Objects :
       /\ Absent \in held[k]
       /\ rows' = [x \in DOMAIN rows \ {k} |-> rows[x]]
  /\ UNCHANGED bucket

(* What has been held since: at rest, only what is there now.               *)
Remember ==
  /\ atRest' \in BOOLEAN
  /\ held' = [k \in Objects |->
                IF atRest' THEN {bucket'[k]} ELSE held[k] \cup {bucket'[k]}]
  /\ flawed' \in BOOLEAN /\ (atRest' => ~ flawed')

MirrorInit ==
  /\ bucket \in [Objects -> Versions \cup {Absent}]
  /\ rows = [k \in {} |-> NoVersion]
  /\ atRest = TRUE /\ flawed = FALSE
  /\ held = [k \in Objects |-> {bucket[k]}]

MirrorNext ==
  /\ \/ ObjectsChange \/ WriteRow \/ WriteFolder \/ RemoveRows \/ RemoveRow
     \/ UNCHANGED <<bucket, rows>>
  /\ Remember

MirrorSpec == MirrorInit /\ [][MirrorNext]_mirrorVars
=============================================================================
