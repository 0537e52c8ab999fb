SPECIFICATION Spec
CONSTANTS
  Types <- Keeping
  MaxItems = 3
  MaxCalls = 2
  MaxOut = 3
  Room = 2
INVARIANT PassedOn
INVARIANT SetsAreWhole
PROPERTY WindowsKept
CHECK_DEADLOCK FALSE
