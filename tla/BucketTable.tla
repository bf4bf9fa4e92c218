----------------------------- MODULE BucketTable -----------------------------
(***************************************************************************)
(* The rows of the table buckets, and the queries of db/queries/buckets.sql *)
(* on them.  A table is a function from the buckets that have a row (name   *)
(* is UNIQUE) to rows; times are whole hours.  A row keeps the columns that *)
(* decide whether the bucket is shown and whether it is deleted:            *)
(* marked_for_deletion, whether access_error is set, last_accessible_at     *)
(* (Never for NULL) and created_at.                                         *)
(***************************************************************************)
EXTENDS Integers

Never == -1

BucketRow == [marked : BOOLEAN, error : BOOLEAN,
              last : Nat \cup {Never}, created : Nat]

IsBucketTable(t, Names) == DOMAIN t \subseteq Names /\ \A b \in DOMAIN t : t[b] \in BucketRow

NoBuckets == [b \in {} |-> 0]

(* CreateBucket: ON CONFLICT touches none of these columns.                 *)
CreateBucket(t, b, now) ==
  [x \in DOMAIN t \cup {b} |->
     IF x \in DOMAIN t THEN t[x]
     ELSE [marked |-> FALSE, error |-> FALSE, last |-> Never, created |-> now]]

UpdateRow(t, b, row) == [x \in DOMAIN t |-> IF x = b THEN row ELSE t[x]]

MarkAllBuckets(t) == [b \in DOMAIN t |-> [t[b] EXCEPT !.marked = TRUE]]

MarkBucket(t, b) == UpdateRow(t, b, [t[b] EXCEPT !.marked = TRUE])

(* UnmarkBucketForDeletion.                                                 *)
UnmarkBucket(t, b, now) ==
  UpdateRow(t, b, [t[b] EXCEPT !.marked = FALSE, !.error = FALSE, !.last = now])

(* UpdateBucketAccessError: it moves last_accessible_at too.                *)
UpdateAccessError(t, b, now) ==
  UpdateRow(t, b, [t[b] EXCEPT !.error = TRUE, !.last = now])

(* The WHERE clause of GetBucketsToDelete and DeleteMarkedBuckets.  With no *)
(* hours it is any time before this moment, the present hour's included.    *)
BucketsToDelete(t, now, hours) ==
  {b \in DOMAIN t :
     t[b].marked /\ (hours > 0 => now - hours > IF t[b].last = Never THEN t[b].created
                                                ELSE t[b].last)}

(* The buckets the user is offered: ListAccessibleBuckets.                  *)
ListAccessible(t, now, grace) ==
  {b \in DOMAIN t : ~ t[b].marked
     /\ (t[b].error => t[b].last # Never /\ t[b].last > now - grace)}
=============================================================================
