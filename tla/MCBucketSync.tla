---------------------------- MODULE MCBucketSync ----------------------------
(* Instances of BucketSync for TLC.                                         *)
EXTENDS BucketSync

CONSTANTS b1, b2

TwoBuckets == {b1, b2}
AllFaults == FaultKinds
=============================================================================
