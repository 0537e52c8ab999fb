SPECIFICATION Spec
CONSTANTS
  Clients = {c1, c2}
  Pipes = {p1, p2}
  Loops = {t1, t2}
  Listeners = {l1, l2, l3}
  Commands <- OnlyStart
  Retries = 1
  SuspendingInit = TRUE
  HandlerMayRaise = TRUE
  Exclusive = FALSE
  None = None
SYMMETRY TaskSymmetry
INVARIANT NoStrayLoop
INVARIANT NoStrayListener
