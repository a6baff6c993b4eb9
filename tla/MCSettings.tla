------------------------------ MODULE MCSettings ------------------------------
(* Small instances of Settings for TLC. *)
EXTENDS Settings, TLC

Symmetry == Permutations(Requests)
=============================================================================
