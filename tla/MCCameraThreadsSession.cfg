SPECIFICATION Spec
CONSTANTS
  SourceIds = {s1, s2, s3, s4, s5}
  Teardown = {"main"}
  MaxMedia = 2
  MaxSends = 1
SYMMETRY SourceSymmetry
INVARIANTS
  StoppedListening
CHECK_DEADLOCK FALSE
