SPECIFICATION FairSpec
CONSTANTS
  Clients = {c1}
  Pipes = {p1, p2}
  Loops = {t1, t2}
  Listeners = {l1, l2, l3}
  Commands <- AllCommands
  Retries = 1
  SuspendingInit = TRUE
  HandlerMayRaise = FALSE
  Exclusive = TRUE
  None = None
INVARIANT NoStrayListener
INVARIANT NotRunningIsQuiet
INVARIANT ControlReachable
INVARIANT HealthHonest
PROPERTY CleanRestart
PROPERTY CallsReturn
PROPERTY ListenersEnd
