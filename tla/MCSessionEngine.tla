-------------------------- MODULE MCSessionEngine --------------------------
\* Small instances of SessionEngine.
EXTENDS SessionEngine, TLC

AllCommands  == {"start", "stop", "pause", "resume", "delete", "drop"}
NoPause      == {"start", "stop", "delete", "drop"}
StartAndStop == {"start", "stop"}

Anytime      == {}
PauseAndDrop == {"pause", "drop"}

\* Runs are interchangeable, and so are the request handlers.
Symmetry == Permutations(Runs) \cup Permutations(Handlers)
=============================================================================
