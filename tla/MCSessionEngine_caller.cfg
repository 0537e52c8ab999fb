SPECIFICATION FairSpec
CONSTANTS
  Handlers = {h1}
  Background = background
  Runs = {r1, r2, r3}
  NodeCount = 2
  SlowNodes = {}
  HasPumps = TRUE
  Commands <- AllCommands
  Patient <- PauseAndDrop
  StartsPaused = FALSE
  None = None
INVARIANT NotRunningIsQuiet
INVARIANT OneSupervisor
INVARIANT LoopsReachable
INVARIANT RegistryCurrent
PROPERTY EverythingEnds
CHECK_DEADLOCK FALSE
