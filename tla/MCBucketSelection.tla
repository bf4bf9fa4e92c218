------------------------- MODULE MCBucketSelection --------------------------
(* Instances of BucketSelection for TLC.                                    *)
EXTENDS BucketSelection

CONSTANTS b1, b2

TwoBuckets == {b1, b2}
=============================================================================
