--------------------------- MODULE MCRunRegistry ---------------------------
(***************************************************************************)
(* Instances of RunRegistry for TLC.                                       *)
(***************************************************************************)
EXTENDS RunRegistry, TLC

\* Runs that are all read, or all not, may be exchanged for each other.
Symmetry == Permutations(Runs)

=============================================================================
