--------------------------- MODULE MCObservation ---------------------------
(* Instances of Observation for TLC. *)
EXTENDS Observation, TLC

\* Bridges and shutters are only compared for equality.
Symmetry == Permutations(Bridges) \cup Permutations(Shutters)

=============================================================================
