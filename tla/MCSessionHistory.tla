-------------------------- MODULE MCSessionHistory --------------------------
(* Small instances of SessionHistory: runs and calls that say the same.    *)
EXTENDS SessionHistory
=============================================================================
