----------------------------- MODULE MCMembership -----------------------------
(* Small instances of Membership for TLC. *)
EXTENDS Membership, TLC

CONSTANTS acme, owner, admin

TeamSeed == {<<acme, owner, "OWNER">>, <<acme, admin, "ADMIN">>}

Symmetry == Permutations(Requests)
=============================================================================
