\* Every removal shape, at both levels, in and out of a reduce.
SPECIFICATION Spec
CONSTANTS
  k1 = k1
  k2 = k2
  Key <- Keys
  Nobody = Nobody
  OutsideEdits = TRUE
  MaxOwed = 1
  MaxHolders = 1
SYMMETRY KeySymmetry
INVARIANTS NoOrphan BoundariesOnlyQualify
PROPERTIES SuccessorSpared
