-------------------------- MODULE MCBackgroundTasks --------------------------
(***************************************************************************)
(* Instances of BackgroundTasks for TLC.                                   *)
(***************************************************************************)
EXTENDS BackgroundTasks
=============================================================================
