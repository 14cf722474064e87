----------------------------- MODULE MCStanding -----------------------------
(* Small instances of Standing.                                            *)
EXTENDS Standing, TLC

Symmetry == Permutations(Events) \cup Permutations(Wakes)
=============================================================================
