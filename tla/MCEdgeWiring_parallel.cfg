SPECIFICATION Spec
CONSTANTS
  a = a
  b = b
  c = c
  Nodes = {a, b, c}
  Wires <- Parallel
  Valid <- Parallel
  OwnOutputs = {}
  OwnInputs = {}
  Copies = 2
  MaxRequests <- Ordered
  MaxAwaits = 2
  EraseAfterRun = FALSE
INVARIANT OneReader
CHECK_DEADLOCK FALSE
