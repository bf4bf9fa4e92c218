----------------------------- MODULE IndexTable -----------------------------
(***************************************************************************)
(* The rows that one bucket has in the table s3_objects, and the queries    *)
(* of db/queries/s3_objects.sql as operators on them.  A table is a         *)
(* function from the keys that have a row (the table is UNIQUE on           *)
(* bucket_id, key) to rows.  PostgreSQL runs each query in a transaction of *)
(* its own -- the program opens none -- so one operator is one atomic step. *)
(*                                                                         *)
(* A row keeps what the properties tell apart: the version of the object    *)
(* that its size, etag and last_modified describe (NoVersion for the rows   *)
(* that stand for a folder), is_folder, and marked_for_deletion.            *)
(***************************************************************************)
EXTENDS Naturals

NoVersion == "no-version"

Row(Vers) == [ver : Vers \cup {NoVersion}, folder : BOOLEAN, marked : BOOLEAN]

IsTable(t, Keys, Vers) ==
  /\ t = [k \in DOMAIN t |-> t[k]]
  /\ DOMAIN t \subseteq Keys
  /\ \A k \in DOMAIN t : t[k] \in Row(Vers)

NoRows == [k \in {} |-> 0]

(* Mutant of Upsert: the conflict clause leaves the mark alone.             *)
UpsertKeepingMark(t, k, v, isFolder) ==
  [x \in DOMAIN t \cup {k} |->
     IF x = k
     THEN [ver |-> v, folder |-> isFolder, marked |-> k \in DOMAIN t /\ t[k].marked]
     ELSE t[x]]

(* CreateS3Object: INSERT ... ON CONFLICT DO UPDATE, which always clears    *)
(* the mark.                                                               *)
Upsert(t, k, v, isFolder) ==
  [x \in DOMAIN t \cup {k} |->
     IF x = k THEN [ver |-> v, folder |-> isFolder, marked |-> FALSE] ELSE t[x]]

SetMark(row, b) == [ver |-> row.ver, folder |-> row.folder, marked |-> b]

(* UPDATE ... SET marked_for_deletion = TRUE for the whole bucket.          *)
MarkAll(t) == [k \in DOMAIN t |-> SetMark(t[k], TRUE)]

(* UPDATE ... SET marked_for_deletion = FALSE for one key, if it has a row. *)
Unmark(t, k) ==
  [x \in DOMAIN t |-> IF x = k THEN SetMark(t[x], FALSE) ELSE t[x]]

(* The keys CountMarkedObjects counts and DeleteMarkedObjects deletes.      *)
MarkedKeys(t) == {k \in DOMAIN t : t[k].marked}

(* Mutant: the query deletes files only.                                    *)
DeleteMarkedFiles(t) ==
  [k \in {x \in DOMAIN t : ~ (t[x].marked /\ ~ t[x].folder)} |-> t[k]]

DeleteMarked(t) == [k \in DOMAIN t \ MarkedKeys(t) |-> t[k]]

(* DELETE ... WHERE key = k: no error when there is no such row.            *)
DeleteRow(t, k) == [x \in DOMAIN t \ {k} |-> t[x]]
=============================================================================
