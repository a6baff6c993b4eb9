------------------------------- MODULE MCCaches -------------------------------
(* Small instances of Caches for TLC. *)
EXTENDS Caches, TLC

Life == [secret |-> 2, config |-> 1]
Symmetry == Permutations(Readers)
=============================================================================
