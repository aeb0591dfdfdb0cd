--------------------------- MODULE MCManagedCover ---------------------------
(* Instances of ManagedCover for TLC. *)
EXTENDS ManagedCover, TLC

=============================================================================
