-------------------------- MODULE MCCommissioning --------------------------
(* Instances of Commissioning for TLC. *)
EXTENDS Commissioning, TLC

\* Slots, shutters and identities are only compared for equality.
Symmetry == Permutations(Slots) \cup Permutations(Shutters) \cup Permutations(Ids)

=============================================================================
