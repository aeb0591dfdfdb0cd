------------------------------ MODULE Ownership ------------------------------
(***************************************************************************)
(* What a move between bridges promises (docs/future-multi-bridge.md,      *)
(* "Safety invariants" 1 and 6): one controller identity has at most one   *)
(* slot that may transmit, it is silent before another slot may transmit,  *)
(* and its rolling code is never erased everywhere.                        *)
(***************************************************************************)
CONSTANTS Shutters, Places,
          Nowhere     \* not a place

VARIABLES
    live,   \* the slot that may transmit as a shutter, or Nowhere
    held    \* the slots that store the shutter's identity

Init ==
    /\ live \in [Shutters -> Places]
    /\ held = [s \in Shutters |-> {live[s]}]

\* The owner archives its controller and goes silent.
Quiesce(s) ==
    /\ live[s] # Nowhere
    /\ live' = [live EXCEPT ![s] = Nowhere]
    /\ UNCHANGED held

\* A silent controller is copied to another slot, silent as well.
Copy(s, p) ==
    /\ live[s] = Nowhere
    /\ p \notin held[s]
    /\ held' = [held EXCEPT ![s] = @ \cup {p}]
    /\ UNCHANGED live

\* One of the copies becomes the owner.
Grant(s, p) ==
    /\ live[s] = Nowhere
    /\ p \in held[s]
    /\ live' = [live EXCEPT ![s] = p]
    /\ UNCHANGED held

\* A silent copy is erased, never the last one.
Erase(s, p) ==
    /\ p \in held[s] \ {live[s]}
    /\ held[s] # {p}
    /\ held' = [held EXCEPT ![s] = @ \ {p}]
    /\ UNCHANGED live

Next ==
    \E s \in Shutters :
        \/ Quiesce(s)
        \/ \E p \in Places : Copy(s, p) \/ Grant(s, p) \/ Erase(s, p)

Spec == Init /\ [][Next]_<<live, held>>

=============================================================================
