----------------------------- MODULE MCToolTurn -----------------------------
(***************************************************************************)
(* Instances of ToolTurn for TLC, with the partition of the batch executor *)
(* beside the gate.                                                        *)
(***************************************************************************)
EXTENDS ToolBatches
=============================================================================
