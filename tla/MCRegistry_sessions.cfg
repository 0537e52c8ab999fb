SPECIFICATION RegistrySpec
CONSTANTS
  Copies = {n1, n2, n3}
  Sessions = {s1, s2}
  Editor = editor
  NoCopy = NoCopy
INVARIANT SessionsRunOn
CHECK_DEADLOCK FALSE
