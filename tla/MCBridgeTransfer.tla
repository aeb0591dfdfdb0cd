-------------------------- MODULE MCBridgeTransfer --------------------------
(* Instances of BridgeTransfer for TLC. *)
EXTENDS BridgeTransferInv, TLC

\* Bridges, slots, tasks, tokens and shutters are only compared for equality.
Symmetry ==
    Permutations(Bridges) \cup Permutations(Slots) \cup Permutations(Tasks)
        \cup Permutations(Tokens) \cup Permutations(Shutters)

=============================================================================
