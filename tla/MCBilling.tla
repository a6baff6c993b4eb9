------------------------------ MODULE MCBilling ------------------------------
(* Small instances of Billing for TLC. *)
EXTENDS Billing, TLC

Symmetry == Permutations(Orders) \cup Permutations(Pays) \cup Permutations(Requests)
              \cup Permutations(Hooks)
=============================================================================
