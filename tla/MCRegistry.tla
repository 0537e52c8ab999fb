----------------------------- MODULE MCRegistry -----------------------------
EXTENDS Registry
=============================================================================
