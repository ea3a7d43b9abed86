SPECIFICATION Spec
CONSTANTS
  NumScripts = 2
  MayFail = {"exec"}
  MaxCtrlC = 1
INVARIANTS
  ChildrenAreScripts
CHECK_DEADLOCK FALSE
