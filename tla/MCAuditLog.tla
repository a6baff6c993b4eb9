------------------------------ MODULE MCAuditLog ------------------------------
(* Small instances of AuditLog for TLC. *)
EXTENDS AuditLog, TLC

Symmetry == Permutations(Entries) \cup Permutations(Writers)
=============================================================================
