SPECIFICATION FairSpec
CONSTANTS
  Types <- Passing
  MaxItems = 3
  MaxCalls = 2
  MaxOut = 3
  Room = 2
 
INVARIANT TriggersOnce
INVARIANT NoneLostOutside
INVARIANT LeftoversBounded
PROPERTY ImplementsRelay
PROPERTY Progress
CHECK_DEADLOCK FALSE
