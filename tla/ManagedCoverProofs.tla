-------------------------- MODULE ManagedCoverProofs --------------------------
(* What is proved of ManagedCover: a cover shows the transport it listens to. *)
EXTENDS ManagedCover, TLAPS

\* The view of a cover whose transport has this reading.
Agrees(view, reading, available) ==
    /\ view.available = (reading \notin {Absent, Unavailable} \/ available)
    /\ view.state = (IF reading \in Known THEN reading.state ELSE "none")
    /\ reading = Unknown => view.position = None
    /\ reading.position # None => view.position = reading.position

\* ShowsTransport holds only while the cover follows its transport; what is kept
\* by every step is that it agrees with the transport it listens to.
Mirrors ==
    cover # None /\ cover.added => Agrees(shown, Read(cover.bound), usable)

MirrorInv == TypeOK /\ Mirrors

-----------------------------------------------------------------------------
(* Mirroring one reading *)

\* Whatever was shown before, the new view agrees with the reading.
LEMMA MirroredAgrees ==
    ASSUME NEW view \in Views, NEW reading \in Readings, NEW available \in BOOLEAN
    PROVE  /\ Mirrored(view, reading, available) \in Views
           /\ Agrees(Mirrored(view, reading, available), reading, available)
<1>1. /\ {Absent, Unavailable, Unknown} \cap Known = {}
      /\ Unknown \notin {Absent, Unavailable}
      /\ \A quiet \in {Absent, Unavailable, Unknown} : quiet.position = None
  BY DEF Known, Absent, Unavailable, Unknown
<1>2. /\ view.position \in Positions \cup {None}
      /\ view = [available |-> view.available, state |-> view.state,
                 position |-> view.position]
  BY DEF Views
<1>3. CASE reading \in {Absent, Unavailable}
  <2>1. Mirrored(view, reading, available) =
            [available |-> available, state |-> "none", position |-> view.position]
    BY <1>2, <1>3 DEF Mirrored
  <2>2. Mirrored(view, reading, available) \in Views
    BY <1>2, <2>1 DEF Views
  <2>3. (reading \notin {Absent, Unavailable} \/ available) = available
    BY <1>3
  <2>4. reading \notin Known /\ reading # Unknown /\ reading.position = None
    BY <1>1, <1>3
  <2> QED BY <2>1, <2>2, <2>3, <2>4 DEF Agrees
<1>4. CASE reading = Unknown
  <2>1. Mirrored(view, reading, available) =
            [available |-> TRUE, state |-> "none", position |-> None]
    BY <1>1, <1>4 DEF Mirrored, Fresh
  <2>2. Mirrored(view, reading, available) \in Views
    BY <2>1 DEF Views
  <2>3. (reading \notin {Absent, Unavailable} \/ available) = TRUE
    BY <1>1, <1>4
  <2>4. reading \notin Known /\ reading.position = None
    BY <1>1, <1>4
  <2>5. /\ Mirrored(view, reading, available).available = TRUE
        /\ Mirrored(view, reading, available).state = "none"
        /\ Mirrored(view, reading, available).position = None
    BY <2>1
  <2> QED BY <2>2, <2>3, <2>4, <2>5, Zenon DEF Agrees
<1>5. CASE reading \in Known
  <2>1. Mirrored(view, reading, available) =
            [available |-> TRUE, state |-> reading.state,
             position |-> IF reading.position = None THEN view.position
                          ELSE reading.position]
    BY <1>1, <1>5 DEF Mirrored
  <2>2. /\ reading.state \in {"open", "closed", "opening"}
        /\ reading.position \in Positions \cup {None}
    BY <1>5 DEF Known
  <2>3. Mirrored(view, reading, available) \in Views
    BY <1>2, <2>1, <2>2 DEF Views
  <2>4. (reading \notin {Absent, Unavailable} \/ available) = TRUE
    BY <1>1, <1>5
  <2>5. reading # Unknown
    BY <1>1, <1>5
  <2>6. /\ Mirrored(view, reading, available).available = TRUE
        /\ Mirrored(view, reading, available).state = reading.state
        /\ reading.position # None =>
               Mirrored(view, reading, available).position = reading.position
    BY <2>1
  <2> QED BY <1>5, <2>3, <2>4, <2>5, <2>6, Zenon DEF Agrees
<1> QED BY <1>3, <1>4, <1>5 DEF Readings

LEMMA ReadIsReading == ASSUME TypeOK, NEW id \in Ids \cup {None} PROVE Read(id) \in Readings
BY DEF TypeOK, Read, Readings

\* A cover that binds itself anew agrees with the transport it is bound to.
LEMMA RebindsMirrors ==
    ASSUME MirrorInv, NEW now \in BOOLEAN, cover # None, Rebinds(now),
           usable' = now, UNCHANGED <<registry, states>>
    PROVE  cover' \in Covers /\ shown' \in Views /\ Mirrors'
<1>1. cover \in Covers /\ cover.slot \in Slots /\ registry[cover.slot] \in Ids \cup {None}
  BY DEF MirrorInv, TypeOK, Covers
<1> DEFINE reading == Read(registry[cover.slot])
<1>2. reading \in Readings
  BY <1>1, ReadIsReading DEF MirrorInv
<1>3. /\ cover' = [cover EXCEPT !.bound = registry[cover.slot], !.added = TRUE]
      /\ shown' = Mirrored(shown, reading, now)
  BY DEF Rebinds, Bound
<1>4. cover' \in Covers /\ cover'.bound = registry[cover.slot]
  BY <1>1, <1>3 DEF Covers
<1>5. shown' \in Views /\ Agrees(shown', reading, now)
  BY <1>2, <1>3, MirroredAgrees DEF MirrorInv, TypeOK
<1>6. Read(cover.bound)' = reading
  BY <1>4 DEF Read
<1> QED BY <1>4, <1>5, <1>6 DEF Mirrors, Agrees

\* A state that changes is mirrored by the cover that listens to it.
LEMMA ChangesMirrors ==
    ASSUME MirrorInv, NEW id \in Ids, NEW reading \in Readings, Changes(id, reading),
           UNCHANGED <<cover, usable>>
    PROVE  states' \in [Ids -> Readings] /\ shown' \in Views /\ Mirrors'
<1>1. states' \in [Ids -> Readings] /\ states'[id] = reading
  BY DEF Changes, MirrorInv, TypeOK
<1>2. CASE Listens(id)
  <2>1. shown' = Mirrored(shown, reading, usable)
    BY <1>2 DEF Changes
  <2>2. shown' \in Views /\ Agrees(shown', reading, usable)
    BY <2>1, MirroredAgrees DEF MirrorInv, TypeOK
  <2>3. Read(cover.bound)' = reading
    BY <1>1, <1>2, NoneIsNoId DEF Listens, Read
  <2> QED BY <1>1, <2>2, <2>3 DEF Mirrors, Agrees
<1>3. CASE ~Listens(id)
  <2>1. shown' = shown /\ shown \in Views
    BY <1>3 DEF Changes, MirrorInv, TypeOK
  <2>2. ASSUME cover # None, cover.added
        PROVE  Read(cover.bound)' = Read(cover.bound)
    BY <1>3, <2>2 DEF Listens, Read, Changes, MirrorInv, TypeOK, Covers
  <2> QED BY <1>1, <2>1, <2>2 DEF Mirrors, Agrees, MirrorInv
<1> QED BY <1>2, <1>3

-----------------------------------------------------------------------------
(* The invariant *)

\* While the entry is not loaded nothing is shown.
LEMMA MirrorInit == Init => MirrorInv
<1> SUFFICES ASSUME Init PROVE MirrorInv
  OBVIOUS
<1>1. registry \in [Slots -> Ids \cup {None}] /\ slot \in Slots
  BY DEF Init
<1>2. states \in [Ids -> Readings]
  BY DEF Init, Readings
<1>3. shown \in Views
  BY DEF Init, Fresh, Views
<1> QED BY <1>1, <1>2, <1>3 DEF Init, MirrorInv, TypeOK, Mirrors

\* No step of Home Assistant, ESPHome or the bridge breaks the mirror.
LEMMA MirrorStep == MirrorInv /\ [Next]_vars => MirrorInv'
<1> SUFFICES ASSUME MirrorInv, [Next]_vars PROVE MirrorInv'
  OBVIOUS
<1> USE DEF MirrorInv, polling
<1>1. ASSUME NEW now \in BOOLEAN, StatusChanged(now) PROVE MirrorInv'
  <2>1. CASE cover # None /\ cover.added
    <3>1. cover' \in Covers /\ shown' \in Views /\ Mirrors'
      BY <1>1, <2>1, RebindsMirrors DEF StatusChanged
    <3> QED BY <1>1, <3>1 DEF StatusChanged, TypeOK
  <2>2. CASE ~(cover # None /\ cover.added)
    BY <1>1, <2>2 DEF StatusChanged, TypeOK, Mirrors
  <2> QED BY <2>1, <2>2
<1>2. ASSUME NEW id \in Ids, NEW reading \in Readings, Report(id, reading)
      PROVE  MirrorInv'
  <2>1. states' \in [Ids -> Readings] /\ shown' \in Views /\ Mirrors'
    BY <1>2, ChangesMirrors DEF Report
  <2> QED BY <1>2, <2>1 DEF Report, TypeOK
<1>3. ASSUME NEW s \in Slots, NEW id \in Ids \cup {None}, Register(s, id)
      PROVE  MirrorInv'
  BY <1>3 DEF Register, TypeOK, Mirrors, Agrees, Read
<1>4. ASSUME NEW s \in Slots, MoveShutter(s) PROVE MirrorInv'
  BY <1>4 DEF MoveShutter, TypeOK, Mirrors, Agrees, Read
<1>5. CASE Added
  <2>1. cover' \in Covers /\ shown' \in Views /\ Mirrors'
    BY <1>5, RebindsMirrors DEF Added, TypeOK
  <2> QED BY <1>5, <2>1 DEF Added, TypeOK
<1>6. ASSUME NEW id \in Ids, Vacate(id) PROVE MirrorInv'
  <2>1. states' \in [Ids -> Readings] /\ shown' \in Views /\ Mirrors'
    BY <1>6, ChangesMirrors DEF Vacate, Readings
  <2> QED BY <1>6, <2>1 DEF Vacate, TypeOK
<1>7. CASE Setup
  <2>1. cover' \in Covers /\ ~cover'.added
    BY <1>7 DEF Setup, TypeOK, Covers
  <2>2. shown' \in Views
    BY <1>7 DEF Setup, Fresh, Views
  <2>3. polls' \subseteq 1 .. MaxAttempts
    BY <1>7, AttemptsAreBounded DEF Setup, TypeOK
  <2> QED BY <1>7, <2>1, <2>2, <2>3 DEF Setup, TypeOK, Mirrors
<1>8. CASE Unload
  BY <1>8 DEF Unload, TypeOK, Mirrors, Fresh, Views
<1>9. CASE Poll
  <2>1. PICK n \in polls : /\ polls' = polls \ {n}
                          /\ asks' = IF registry[slot] # None THEN Reload
                                     ELSE IF n < MaxAttempts THEN n + 1 ELSE None
    BY <1>9 DEF Poll
  <2>2. n \in 1 .. MaxAttempts /\ (n < MaxAttempts => n + 1 \in 1 .. MaxAttempts)
    BY AttemptsAreBounded DEF TypeOK
  <2>3. polls' \subseteq 1 .. MaxAttempts
    BY <2>1 DEF TypeOK
  <2>4. asks' \in (1 .. MaxAttempts) \cup {Reload, None}
    BY <2>1, <2>2
  <2> QED BY <1>9, <2>3, <2>4 DEF Poll, TypeOK, Mirrors, Agrees, Read
<1>10. CASE Ask
  <2>1. reloading' \in BOOLEAN
    <3>1. reloading' = reloading \/ reloading' = TRUE
      BY <1>10, Zenon DEF Ask
    <3> QED BY <3>1 DEF TypeOK
  <2>2. polls' \subseteq 1 .. MaxAttempts
    <3>1. polls' = polls \/ (asks # Reload /\ polls' = polls \cup {asks})
      BY <1>10 DEF Ask
    <3>2. asks # Reload => asks \in 1 .. MaxAttempts
      BY <1>10 DEF Ask, TypeOK
    <3> QED BY <3>1, <3>2 DEF TypeOK
  <2> QED BY <1>10, <2>1, <2>2 DEF Ask, TypeOK, Mirrors, Agrees, Read
<1>11. CASE UNCHANGED vars
  BY <1>11 DEF vars, TypeOK, Mirrors, Agrees, Read
<1> QED BY <1>1, <1>2, <1>3, <1>4, <1>5, <1>6, <1>7, <1>8, <1>9, <1>10, <1>11
        DEF Next, Environment

LEMMA Mirroring == Spec => []MirrorInv
BY MirrorInit, MirrorStep, PTL DEF Spec

-----------------------------------------------------------------------------
(* Theorems *)

\* Every variable keeps its type.
THEOREM TypeCorrect == Spec => []TypeOK
<1>1. MirrorInv => TypeOK
  BY DEF MirrorInv
<1> QED BY Mirroring, <1>1, PTL

\* In whatever order transports are registered, renamed, removed or offline and
\* the bridge comes and goes, a cover that is bound to the transport of its slot
\* shows what that transport says (cover.py, _apply_transport_state).
THEOREM TransportIsShown == Spec => []ShowsTransport
<1>1. MirrorInv => ShowsTransport
  BY DEF MirrorInv, Mirrors, Agrees, ShowsTransport, Following
<1> QED BY Mirroring, <1>1, PTL

\* When the bridge and every transport are offline no loaded cover is shown as
\* available, whatever it is bound to (cover.py, _apply_transport_state).
THEOREM OfflineIsUnavailable == Spec => []OfflineIsShown
<1>1. MirrorInv => OfflineIsShown
  <2> SUFFICES ASSUME MirrorInv, cover # None, cover.added, ~usable,
                      \A id \in Ids : states[id] \in {Absent, Unavailable}
               PROVE  ~shown.available
    BY DEF OfflineIsShown
  <2>1. cover.bound \in Ids \cup {None}
    BY DEF MirrorInv, TypeOK, Covers
  <2>2. Read(cover.bound) \in {Absent, Unavailable}
    BY <2>1 DEF Read
  <2> QED BY <2>2 DEF MirrorInv, Mirrors, Agrees, TypeOK
<1> QED BY Mirroring, <1>1, PTL

=============================================================================
