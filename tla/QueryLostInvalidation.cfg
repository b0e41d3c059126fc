\* An invalidation between a commit and the send of its snapshot.
SPECIFICATION Spec
CONSTANTS
  Stream = {"s1", "s2"}
  MaxGen = 2
  MaxStarts = 3
  Flavours = {TRUE}
INVARIANTS InvalidationHeeded
