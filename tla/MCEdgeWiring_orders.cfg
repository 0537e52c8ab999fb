SPECIFICATION Spec
CONSTANTS
  a = a
  b = b
  c = c
  Nodes = {a, b, c}
  Wires <- All
  Valid <- Sound
  OwnOutputs <- SelfRead
  OwnInputs <- SelfFed
  Copies = 2
  MaxRequests <- Few
  MaxAwaits = 2
  EraseAfterRun = FALSE
INVARIANT WiredAsDrawn
INVARIANT NoDeadEnds
INVARIANT OneReader
INVARIANT TargetsDrawn
INVARIANT RealWiringWins
INVARIANT PumpsOfLive
PROPERTY OnlyAskedRemovals
CONSTRAINT InPlace
CONSTRAINT Current
