SPECIFICATION Spec
CONSTANTS
  Wires = {w1, w2, w3}
  Own = own
  MaxFans = 2
  MaxItems = 4
  Consumers = {p1, p2}
  OwnOut = ownout
  MaxLast = 2
  MaxEmits = 3
  Instances = {i1, i2}
  NoInstance = NoInstance
  MaxCounted = 5
  Copies = {n1, n2, n3}
  Sessions = {s1, s2}
  Editor = editor
  NoCopy = NoCopy
  TypeOf <- TypeIn
  Files <- SmallFiles
SYMMETRY Symmetry
INVARIANT InputPortKept
INVARIANT OutputPortKept
INVARIANT CountedOnce
INVARIANT RegistryKept
INVARIANT GraphKept
CHECK_DEADLOCK FALSE
