----------------------------- MODULE MCControl -----------------------------
(* Instances of Control for TLC. *)
EXTENDS Control, TLC

\* Tasks are only compared for equality.
Symmetry == Permutations(Tasks)

=============================================================================
