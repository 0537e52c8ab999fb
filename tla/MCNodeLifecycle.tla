-------------------------- MODULE MCNodeLifecycle --------------------------
\* Small instances of NodeLifecycle.
EXTENDS NodeLifecycle, TLC

AllCommands == {"start", "stop", "pause", "resume"}
OnlyStart   == {"start"}

\* Task identities are interchangeable, and so are the request handlers.
TaskSymmetry ==
  Permutations(Loops) \cup Permutations(Listeners) \cup Permutations(Clients)
=============================================================================
