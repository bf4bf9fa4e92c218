---------------------------- MODULE BucketOutages ----------------------------
(***************************************************************************)
(* BucketSync with a clock for each bucket: the hour since which the        *)
(* program has no access to it.  The table's own column for that,           *)
(* last_accessible_at, is also moved by UpdateBucketAccessError.            *)
(***************************************************************************)
EXTENDS BucketSync

VARIABLE since  \* auxiliary: the hour the outage of each bucket began, or Never

OutageOf(status) == IF status = "ok" THEN Never ELSE now

OutageInit == Init /\ since = [b \in Buckets |-> OutageOf(s3[b])]

(* A bucket that passes from one way of being inaccessible to another stays *)
(* inaccessible.                                                            *)
OutageNext ==
  /\ Next
  /\ since' = [b \in Buckets |-> IF s3[b] = "ok" \/ s3'[b] = "ok" THEN OutageOf(s3'[b])
                                 ELSE since[b]]

outageVars == <<vars, since>>

OutageSpec == OutageInit /\ [][OutageNext]_outageVars

(* The program has been without access for longer than the threshold, all of*)
(* which time the bucket has had its row.                                   *)
TooLong(b) ==
  /\ since[b] # Never /\ b \in DOMAIN table
  /\ now - since[b] > DeleteThreshold /\ now - table[b].created > DeleteThreshold

(* When the third phase is through without a failure, "buckets that have    *)
(* been inaccessible for too long" (performPhase3BucketCleanup) are gone:   *)
(* none that has been so for more than the threshold has a row.             *)
LongInaccessibleBucketsAreDeleted ==
  [][proc.pc \in {"expired", "cleanup"} /\ proc'.pc = "scan" /\ hist'.struck = {}
       => \A b \in Buckets : TooLong(b) => b \notin DOMAIN table']_outageVars
=============================================================================
