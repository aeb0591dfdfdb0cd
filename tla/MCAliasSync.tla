---------------------------- MODULE MCAliasSync ----------------------------
(* Instances of AliasSync for TLC. *)
EXTENDS AliasSync, TLC

\* Entries, runtime objects, remotes and workers are only compared for equality.
Symmetry ==
    Permutations(Bridges) \cup Permutations(Generations)
        \cup Permutations(Remotes) \cup Permutations(Workers)

=============================================================================
