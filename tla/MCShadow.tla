------------------------------ MODULE MCShadow ------------------------------
(* Small instances of the Shadow runner and its review table. *)
EXTENDS ShadowRunner, TLC

ShadowSymmetry == Permutations(Evidence) \cup Permutations(Texts) \cup Permutations(Reviewers)
=============================================================================
