----------------------------- MODULE MCFanInPipe -----------------------------
\* Small instances of FanInPipe: the .cfg files name the wires.
EXTENDS FanInPipe
=============================================================================
