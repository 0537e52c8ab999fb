SPECIFICATION Spec
CONSTANTS
  Handlers = {h1, h2}
  Background = background
  Runs = {r1, r2}
  NodeCount = 2
  SlowNodes = {2}
  HasPumps = TRUE
  Commands <- NoPause
  Patient <- Anytime
  StartsPaused = FALSE
  None = None
SYMMETRY Symmetry
INVARIANT RunningIsWhole
CHECK_DEADLOCK FALSE
