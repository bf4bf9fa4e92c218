SPECIFICATION Spec
CONSTANTS
  b1 = b1
  b2 = b2
  Buckets <- TwoBuckets
  NoBucket = NoBucket
  Garbage = Garbage
  Configs = {NoBucket, b1}
  Keys = {1}
  InPrefix = {1}
  Prefixed = TRUE
  Users = {u1, u2}
INVARIANTS TypeOK SelectionsAgree
PROPERTIES LockedBucketStays RowsFollowTheObjects ChangesHitTheBucketShown
