SPECIFICATION Spec
CONSTANTS
  Handlers = {h1}
  Background = background
  Runs = {r1, r2}
  NodeCount = 2
  SlowNodes = {2}
  HasPumps = TRUE
  Commands <- StartAndStop
  Patient <- Anytime
  StartsPaused = FALSE
  None = None
INVARIANT NotRunningIsQuiet
CHECK_DEADLOCK FALSE
