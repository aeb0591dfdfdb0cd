----------------------------- MODULE ManagedCover -----------------------------
(***************************************************************************)
(* The cover a user sees (cover.py): it mirrors the ESPHome cover of its   *)
(* slot, the transport, which may be registered late, renamed, removed or  *)
(* offline, and falls back on the status entity of the bridge; with the    *)
(* poll of __init__.py for a transport that is missing, and the reload of  *)
(* the entry.                                                              *)
(*                                                                         *)
(* Simplifications                                                         *)
(*   - One shutter, whose slot the options may change; tilt is left out    *)
(*     (it is mirrored like the position), and so is "closing".            *)
(*   - Listeners are Home Assistant callbacks: they run in the turn that   *)
(*     changes the state.                                                  *)
(*   - Home Assistant clears the state of an entity id after the registry  *)
(*     has dropped it, before the id is given to another entity.           *)
(*   - The poll is a plain function, which Home Assistant runs in a        *)
(*     thread: what it found out may be stale, and its entry unloaded,     *)
(*     when it asks for a reload or for the next poll. Home Assistant may  *)
(*     refuse what a thread asks for. One such thread at a time.           *)
(***************************************************************************)
EXTENDS Naturals

CONSTANTS
    Slots,        \* controller slots of the bridge
    Ids,          \* entity ids a transport can have
    Positions,    \* positions a transport reports
    MaxAttempts,  \* the last poll for a missing transport
    None,         \* no transport, no position, no cover, no thread
    Reload        \* what the poll asks for when the transport is there

ASSUME AttemptsAreBounded == MaxAttempts \in Nat \ {0}
ASSUME NoneIsNoId == None \notin Ids

VARIABLES
    registry,   \* the entity id of the transport of every slot
    states,     \* Home Assistant's state of every entity id
    usable,     \* the status entity holds a manager status: runtime.available
    slot,       \* the slot of the shutter in the options
    reloading,  \* the options changed, or a reload was asked for
    cover,      \* the managed cover, None while the entry is not loaded
    shown,      \* what the cover shows
    polls,      \* the numbers of the polls that are scheduled
    asks        \* the poll in its thread: the next poll it asks for, or Reload

polling == <<polls, asks>>

vars == <<registry, states, usable, slot, reloading, cover, shown, polling>>

-----------------------------------------------------------------------------
(* Values *)

Absent == [state |-> "absent", position |-> None]
Unavailable == [state |-> "unavailable", position |-> None]
Unknown == [state |-> "unknown", position |-> None]

\* A transport that knows its position may leave out the attribute.
Known == [state : {"open", "closed", "opening"}, position : Positions \cup {None}]

Readings == {Absent, Unavailable, Unknown} \cup Known

Covers == [slot : Slots, bound : Ids \cup {None}, added : BOOLEAN]

\* `state` is "none" when is_closed is None.
Views == [available : BOOLEAN, state : {"none", "open", "closed", "opening"},
          position : Positions \cup {None}]

Fresh == [available |-> FALSE, state |-> "none", position |-> None]

Transports == {registry[s] : s \in Slots} \ {None}

Read(id) == IF id = None THEN Absent ELSE states[id]

-----------------------------------------------------------------------------
(* What the cover does *)

\* Mutant: an unknown position is left as it was.
MirroredStale(view, reading, available) ==
    IF reading \in {Absent, Unavailable}
        THEN [view EXCEPT !.available = available, !.state = "none"]
    ELSE IF reading = Unknown THEN [view EXCEPT !.available = TRUE, !.state = "none"]
    ELSE [available |-> TRUE, state |-> reading.state,
          position |-> IF reading.position = None THEN view.position ELSE reading.position]

\* _apply_transport_state: `available` is what the status entity says.
Mirrored(view, reading, available) ==
    IF reading \in {Absent, Unavailable}
        THEN [view EXCEPT !.available = available, !.state = "none"]
    ELSE IF reading = Unknown THEN [Fresh EXCEPT !.available = TRUE]
    ELSE [available |-> TRUE, state |-> reading.state,
          position |-> IF reading.position = None THEN view.position ELSE reading.position]

\* _bind_transport: the listener is on the transport the registry names now.
Bound(c) == [c EXCEPT !.bound = registry[c.slot], !.added = TRUE]

\* The cover binds itself anew and reads the state of its transport.
Rebinds(available) ==
    /\ cover' = Bound(cover)
    /\ shown' = Mirrored(shown, Read(registry[cover.slot]), available)

Listens(id) == cover # None /\ cover.added /\ cover.bound = id

\* The state of id changes, and the cover that listens to it mirrors it.
Changes(id, reading) ==
    /\ states' = [states EXCEPT ![id] = reading]
    /\ shown' = IF Listens(id) THEN Mirrored(shown, reading, usable) ELSE shown

\* async_added_to_hass
Added ==
    /\ cover # None
    /\ ~cover.added
    /\ Rebinds(usable)
    /\ UNCHANGED <<registry, states, usable, slot, reloading, polling>>

\* Mutant: a status of the bridge rebinds nothing.
StatusUnbound(now) ==
    /\ usable' = now
    /\ IF cover # None /\ cover.added
       THEN shown' = Mirrored(shown, Read(cover.bound), now) ELSE UNCHANGED shown
    /\ UNCHANGED <<registry, states, slot, reloading, cover, polling>>

\* Mutant: only a usable status is looked at.
StatusUsable(now) ==
    /\ usable' = now
    /\ IF cover # None /\ cover.added /\ now
       THEN Rebinds(now) ELSE UNCHANGED <<cover, shown>>
    /\ UNCHANGED <<registry, states, slot, reloading, polling>>

\* _bridge_changed, on every new state of the status entity.
StatusChanged(now) ==
    /\ usable' = now
    /\ IF cover # None /\ cover.added
       THEN Rebinds(now) ELSE UNCHANGED <<cover, shown>>
    /\ UNCHANGED <<registry, states, slot, reloading, polling>>

-----------------------------------------------------------------------------
(* The transports of ESPHome *)

Report(id, reading) ==
    /\ id \in Transports
    /\ reading # states[id]
    /\ Changes(id, reading)
    /\ UNCHANGED <<registry, usable, slot, reloading, cover, polling>>

\* Registered, renamed, or removed (None): the state follows later.
Register(s, id) ==
    /\ registry[s] # id
    /\ id # None => id \notin Transports /\ states[id] = Absent
    /\ registry' = [registry EXCEPT ![s] = id]
    /\ UNCHANGED <<states, usable, slot, reloading, cover, shown, polling>>

\* The state of an id the registry has dropped.
Vacate(id) ==
    /\ id \notin Transports
    /\ states[id] # Absent
    /\ Changes(id, Absent)
    /\ UNCHANGED <<registry, usable, slot, reloading, cover, polling>>

-----------------------------------------------------------------------------
(* The entry *)

\* async_setup_entry: the poll begins when the transport is missing.
Setup ==
    /\ cover = None
    /\ cover' = [slot |-> slot, bound |-> registry[slot], added |-> FALSE]
    /\ shown' = Fresh
    /\ polls' = IF registry[slot] = None THEN polls \cup {1} ELSE polls
    /\ UNCHANGED <<registry, states, usable, slot, reloading, asks>>

\* async_unload_entry, after a setup that has added its entities: the listeners
\* are removed and the polls that are scheduled are cancelled.
Unload ==
    /\ cover # None /\ cover.added
    /\ cover' = None
    /\ shown' = Fresh
    /\ polls' = {}
    /\ reloading' = FALSE
    /\ UNCHANGED <<registry, states, usable, slot, asks>>

\* The options name another slot.
MoveShutter(s) ==
    /\ s # slot
    /\ slot' = s
    /\ reloading' = (reloading \/ cover # None)
    /\ UNCHANGED <<registry, states, usable, cover, shown, polling>>

\* _wait_for_transport_covers, five seconds later, in a thread: the transport is
\* there, or missing still.
Poll ==
    /\ asks = None
    /\ \E n \in polls :
        /\ polls' = polls \ {n}
        /\ asks' = IF registry[slot] # None THEN Reload
                   ELSE IF n < MaxAttempts THEN n + 1 ELSE None
    /\ UNCHANGED <<registry, states, usable, slot, reloading, cover, shown>>

\* The thread asks for a reload or for the next poll, whether or not the entry is
\* still loaded, and Home Assistant grants or refuses it.
Ask ==
    /\ asks # None
    /\ asks' = None
    /\ \/ UNCHANGED <<reloading, polls>>
       \/ asks = Reload /\ reloading' = TRUE /\ UNCHANGED polls
       \/ asks # Reload /\ polls' = polls \cup {asks} /\ UNCHANGED reloading
    /\ UNCHANGED <<registry, states, usable, slot, cover, shown>>

-----------------------------------------------------------------------------
(* The system *)

Init ==
    /\ registry \in [Slots -> {None} \cup Ids]
    /\ \A s, t \in Slots : registry[s] = registry[t] /\ s # t => registry[s] = None
    /\ states = [id \in Ids |-> IF id \in Transports THEN Unavailable ELSE Absent]
    /\ usable = FALSE
    /\ slot \in Slots
    /\ reloading = FALSE
    /\ cover = None
    /\ shown = Fresh
    /\ polls = {}
    /\ asks = None

Environment ==
    \/ \E now \in BOOLEAN : StatusChanged(now)
    \/ \E id \in Ids, reading \in Readings : Report(id, reading)
    \/ \E s \in Slots, id \in Ids \cup {None} : Register(s, id)
    \/ \E s \in Slots : MoveShutter(s)

Next ==
    \/ Environment
    \/ Added \/ Setup \/ Unload \/ Poll \/ Ask
    \/ \E id \in Ids : Vacate(id)

Spec == Init /\ [][Next]_vars

\* Home Assistant runs its tasks and timers, and the bridge goes on publishing
\* statuses: every command it answers is one. The poll may be slow for ever.
LiveSpec ==
    /\ Spec
    /\ WF_vars(Added) /\ WF_vars(Setup) /\ WF_vars(reloading /\ Unload)
    /\ \A id \in Ids : WF_vars(Vacate(id))
    /\ WF_vars(StatusChanged(usable))

-----------------------------------------------------------------------------
(* Properties *)

\* Every variable has its type.
TypeOK ==
    /\ registry \in [Slots -> Ids \cup {None}]
    /\ states \in [Ids -> Readings]
    /\ usable \in BOOLEAN
    /\ slot \in Slots
    /\ reloading \in BOOLEAN
    /\ cover \in Covers \cup {None}
    /\ shown \in Views
    /\ polls \subseteq 1 .. MaxAttempts
    /\ asks \in (1 .. MaxAttempts) \cup {Reload, None}

\* The cover listens to the transport of its shutter.
Following ==
    /\ cover # None
    /\ cover.added
    /\ cover.slot = slot
    /\ cover.bound = registry[slot]

\* "Keep a managed shutter available when its online ESPHome time-based
\* transport reports `unknown` ... while clearing stale position" (CHANGELOG.md,
\* 0.8.0b3): in whatever order the transport and the bridge come and go, a cover
\* that follows its transport shows what that transport says, and is available
\* when either of the two is online.
ShowsTransport ==
    LET reading == Read(registry[slot])
    IN  Following =>
            /\ shown.available = (reading \notin {Absent, Unavailable} \/ usable)
            /\ shown.state = (IF reading \in Known THEN reading.state ELSE "none")
            /\ reading = Unknown => shown.position = None
            /\ reading.position # None => shown.position = reading.position

\* "Reserve the unavailable state for a missing or genuinely disconnected
\* transport": when the bridge and all transports are offline so is the cover,
\* even if its transport was renamed or removed meanwhile.
OfflineIsShown ==
    /\ cover # None /\ cover.added
    /\ ~usable
    /\ \A id \in Ids : states[id] \in {Absent, Unavailable}
    => ~shown.available

\* "Managed covers also rebind automatically if their ESPHome transport appears
\* after the Somfy platform during startup or hardware replacement"
\* (README.md:210): a transport that stays registered is followed.
LateTransportIsFollowed ==
    \A s \in Slots, id \in Ids :
        <>[](registry[s] = id /\ slot = s) => []<>Following

=============================================================================
