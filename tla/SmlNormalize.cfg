SPECIFICATION Spec
CONSTANTS
  Value <- MCValue
  Tree <- MCTree
  MaxAttributes = 5
  MaxShared = 1
INVARIANTS Rendered FirstValidKept
CHECK_DEADLOCK FALSE
