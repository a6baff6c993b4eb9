---------------------------- MODULE MCOnboarding ----------------------------
(* Instances of Onboarding for TLC: see the .cfg file. *)
EXTENDS Onboarding, TLC

MCSymmetry == Permutations(Tabs) \cup Permutations(Plans)
MCSlots == 1 .. 2
MCOrders == 1 .. 2
=============================================================================
