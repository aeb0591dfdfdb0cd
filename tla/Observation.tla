----------------------------- MODULE Observation -----------------------------
(***************************************************************************)
(* Physical remotes: every bridge that hears a frame reports it, and the   *)
(* coordinator collects the copies for a moment, delivers one event to the *)
(* entities of every shutter the remote operates, and moves the position   *)
(* estimator of an owner that did not hear it (receive_observation and     *)
(* what follows in coordinator.py, with the rules of multibridge_logic.py).*)
(*                                                                         *)
(* Simplifications                                                         *)
(*   - One remote; it is the individual remote of some shutters and a      *)
(*     group remote of others.  Entries stay loaded but for a restart of   *)
(*     Home Assistant, which is one step; options do not change.           *)
(*   - A status is only replaced by a later observation; that another      *)
(*     status replaced it is a status that is not published again.         *)
(*   - A report may take any time, and one that is lost never arrives.     *)
(*   - Time passes in ticks of one collection window.  Timers are          *)
(*     countdowns that Tick lets run.                                      *)
(*   - Step counts and signal strength, which only describe an event, are  *)
(*     left out.                                                           *)
(*   - The targets of one event are served in any order.                   *)
(***************************************************************************)
EXTENDS Naturals, FiniteSets

CONSTANTS
    Bridges, Shutters,
    None,
    MaxPresses,  \* bound: presses of the remote and statuses published again
    MaxReports,  \* bound: reports on their way at a time
    SeqMod,      \* 2^16 in the code: rolling sequence numbers
    Window,      \* OBSERVATION_COLLECTION_SECONDS
    Cache,       \* how long completed keys and terminals are remembered
    MaxDelay     \* the age from which a report is stale; nothing bounds its age

ASSUME ObservationAssumption ==
    /\ {MaxPresses, MaxReports, SeqMod, Window, Cache, MaxDelay} \subseteq Nat
    /\ 0 < SeqMod /\ 2 * MaxPresses <= SeqMod
    /\ 0 < Window
    /\ 0 < MaxDelay /\ MaxDelay <= Cache

VARIABLES
    owner,      \* the bridge of each shutter
    paired,     \* shutters whose individual remote it is
    group,      \* shutters that an alias of the remote lists
    press,      \* what each press was and who heard it
    sequence,   \* the remote's next sequence number
    reports,    \* reports on their way to Home Assistant
    statuses,   \* the status of every bridge that has reported: its last report
    repeats,    \* how many statuses were published again
    pending,    \* _pending_observations
    completed,  \* _completed_observations: time left for every key
    terminals,  \* _recent_terminals: time left for every sequence number
    routing,    \* tasks running _async_flush_observation
    events,     \* events the entities of a shutter got, by press and frame
    moves,      \* how often a press moved the estimator of a shutter
    disturbed,  \* presses with a late, repeated or merged report, a failed forward
                \* or a restart
    stale       \* presses of which a stale copy arrived

site == <<owner, paired, group>>
memory == <<pending, completed, terminals>>
air == <<press, sequence, statuses, repeats>>
vars == <<site, air, reports, memory, routing, events, moves, disturbed, stale>>

-----------------------------------------------------------------------------
(* Presses, frames and keys *)

Presses == 1 .. MaxPresses
Sequences == 0 .. SeqMod - 1

\* Mutant: the number is not masked.
AfterUnmasked(n) == n + 1

\* The rolling sequence number that follows n.
After(n) == (n + 1) % SeqMod

\* "stop" has no sequence number; "my" is one complete frame; "tilt" is a STOP
\* frame followed by the frame that tells it from a STOP.
Kinds == {"stop", "my", "tilt"}
Parts == {"whole", "prefix", "terminal"}
\* A press, its first sequence number and the bridges that hear it completely.
PressRecords == [kind : Kinds, first : Sequences, by : SUBSET Bridges]

\* A report is stale when no time is left.
Reports == [by : Bridges, press : Presses, part : Parts, complete : BOOLEAN,
            left : 0 .. MaxDelay]

SequenceOf(r) ==
    IF press[r.press].kind = "stop" THEN None
    ELSE IF r.part = "terminal" THEN After(press[r.press].first)
    ELSE press[r.press].first

\* observation_key, for the one remote
Key(r) == <<SequenceOf(r), IF r.part = "terminal" THEN "tilt_clockwise" ELSE "stop_my">>
Keys == (Sequences \cup {None}) \X {"stop_my", "tilt_clockwise"}

CacheAfterFlush(k) == k[1] # None

\* A bucket: the bridges that reported, those that reported it complete, and the
\* presses and the frame it stands for.
Buckets == [sources : SUBSET Bridges, completeSources : SUBSET Bridges,
            complete : BOOLEAN, left : 0 .. Window,
            presses : SUBSET Presses, part : Parts]

\* A task: the target that it forwards to, if any, and those it has not done.
Tasks == [presses : SUBSET Presses, part : Parts, at : Shutters \cup {None},
          todo : SUBSET Shutters, heard : SUBSET Bridges]

\* Nothing is told apart from None by chance.
ASSUME NoneIsNoValue ==
    None \notin PressRecords \cup Buckets \cup Sequences \cup Shutters

Mapped == paired \cup group

-----------------------------------------------------------------------------
(* The remote is pressed *)

\* Some bridges hear press p whole, or its first or its last frame, and publish
\* what they heard.  The firmware of an owner that hears a complete frame moves its
\* estimator.
Press(p, k, whole, prefix, terminal) ==
    LET record(bs, part, complete) ==
            {[by |-> b, press |-> p, part |-> part, complete |-> complete,
              left |-> MaxDelay] : b \in bs}
        first == record(prefix, IF k = "tilt" THEN "prefix" ELSE "whole", FALSE)
        last == record(whole, "whole", TRUE) \cup record(terminal, "terminal", TRUE)
        heard == whole \cup prefix \cup terminal
    IN  /\ press[p] = None /\ p + repeats <= MaxPresses
        /\ \A q \in 1 .. (p - 1) : press[q] # None
        /\ heard # {}
        /\ press' = [press EXCEPT ![p] = [kind |-> k, first |-> sequence,
                                          by |-> whole \cup terminal]]
        /\ reports' = reports \cup first \cup last
        /\ Cardinality(reports') <= MaxReports
        /\ statuses' = {r \in statuses : r.by \notin heard} \cup last
              \cup {r \in first : r.by \notin terminal}
        /\ moves' = [moves EXCEPT ![p] = [s \in Shutters |->
             IF s \in Mapped /\ owner[s] \in whole \cup terminal THEN 1 ELSE 0]]
        /\ UNCHANGED <<site, repeats, memory, routing, events, disturbed, stale>>

PressStop(p) ==
    \E whole, prefix \in SUBSET Bridges :
        /\ whole \cap prefix = {}
        /\ Press(p, "stop", whole, prefix, {})
        /\ UNCHANGED sequence

PressMy(p) ==
    \E whole \in SUBSET Bridges :
        /\ Press(p, "my", whole, {}, {})
        /\ sequence' = After(sequence)

PressTilt(p) ==
    \E prefix, terminal \in SUBSET Bridges :
        /\ Press(p, "tilt", {}, prefix, terminal)
        /\ sequence' = After(After(sequence))

-----------------------------------------------------------------------------
(* receive_observation *)

\* Mutant: across the rollover the difference is not one.
SupersedesNoRollover(n, r) == n # None /\ r.complete /\ SequenceOf(r) = n + 1

\* terminal_supersedes_prefix: r ends the gesture that began with number n.
Supersedes(n, r) == n # None /\ r.complete /\ SequenceOf(r) = After(n)

\* The buckets r takes away.
Superseded(r) ==
    {k \in Keys : pending[k] # None /\ ~pending[k].complete /\ Supersedes(k[1], r)}

\* A prefix whose terminal frame was seen first.
Overtaken(r) ==
    ~r.complete /\ SequenceOf(r) # None /\ terminals[After(SequenceOf(r))] > 0

\* A copy of what was routed, or superseded, a moment ago.
Repeated(r) == CacheAfterFlush(Key(r)) /\ completed[Key(r)] > 0

\* Mutant: only the copy that opens a bucket can be its owner's.
JoinedIncomplete(bucket, r) ==
    [bucket EXCEPT !.sources = @ \cup {r.by}, !.complete = @ \/ r.complete,
                   !.presses = @ \cup {r.press}]

\* The bucket after one more copy; a complete copy completes it.
Joined(bucket, r) ==
    [bucket EXCEPT !.sources = @ \cup {r.by}, !.complete = @ \/ r.complete,
                   !.completeSources = IF r.complete THEN @ \cup {r.by} ELSE @,
                   !.presses = @ \cup {r.press}]

NewBucket(r) ==
    Joined([sources |-> {}, completeSources |-> {}, complete |-> FALSE,
            left |-> Window, presses |-> {}, part |-> r.part], r)

Collected(r) ==
    [k \in Keys |->
        IF k \in Superseded(r) THEN None
        ELSE IF k = Key(r) /\ ~Repeated(r)
        THEN IF pending[k] = None THEN NewBucket(r) ELSE Joined(pending[k], r)
        ELSE pending[k]]

Receive(r) ==
    /\ r \in reports
    /\ reports' = reports \ {r}
    /\ \/ Overtaken(r) /\ UNCHANGED memory
       \/ /\ ~Overtaken(r)
          /\ terminals' = IF r.complete /\ SequenceOf(r) # None
                          THEN [terminals EXCEPT ![SequenceOf(r)] = Cache]
                          ELSE terminals
          /\ completed' = [k \in Keys |-> IF k \in Superseded(r) THEN Cache
                                          ELSE completed[k]]
          /\ pending' = Collected(r)
    /\ disturbed' = disturbed \cup (IF r.left < MaxDelay THEN {r.press} ELSE {})
         \cup UNION {pending'[k].presses : k \in {c \in Keys :
                  pending'[c] # None /\ Cardinality(pending'[c].presses) > 1}}
    /\ stale' = stale \cup (IF r.left = 0 THEN {r.press} ELSE {})
    /\ UNCHANGED <<site, air, routing, events, moves>>

\* _async_status_changed: a bridge connects again, its status becomes unavailable
\* and then what it was, and the same observation is on its way once more.
Reconnect(r) ==
    /\ \E p \in Presses : press[p] = None /\ p + repeats <= MaxPresses
    /\ r \in statuses \ reports
    /\ reports' = reports \cup {r}
    /\ Cardinality(reports') <= MaxReports
    /\ repeats' = repeats + 1
    /\ disturbed' = disturbed \cup {r.press}
    /\ UNCHANGED <<site, press, sequence, statuses, memory, routing, events, moves, stale>>

-----------------------------------------------------------------------------
(* _async_flush_observation *)

\* _targets_for_remote: the shutters of the aliases, and those whose own bridge
\* heard the remote and knows it.  The individual remotes of other bridges'
\* shutters are not looked at: the generator of shutters is used up by then.
Targets(bucket) == group \cup {s \in paired : owner[s] \in bucket.sources}

\* The flush task, which has nothing to do without a target.
Route(bucket) ==
    routing' = IF Targets(bucket) = {} THEN routing
               ELSE routing \cup {[presses |-> bucket.presses, part |-> bucket.part,
                                   at |-> None, todo |-> Targets(bucket),
                                   heard |-> bucket.completeSources]}

\* Mutant: a routed key is not remembered.
FlushForgotten(k) ==
    /\ pending[k] # None
    /\ pending[k].left = 0
    /\ pending' = [pending EXCEPT ![k] = None]
    /\ Route(pending[k])
    /\ UNCHANGED <<site, air, reports, completed, terminals, events, moves,
                   disturbed, stale>>

\* The collection window of a bucket is over.
Flush(k) ==
    /\ pending[k] # None
    /\ pending[k].left = 0
    /\ pending' = [pending EXCEPT ![k] = None]
    /\ completed' = IF CacheAfterFlush(k) THEN [completed EXCEPT ![k] = Cache]
                    ELSE completed
    /\ Route(pending[k])
    /\ UNCHANGED <<site, air, reports, terminals, events, moves, disturbed, stale>>

\* The task t goes on as u, or ends.
Becomes(t, u) ==
    routing' = (routing \ {t}) \cup (IF u.todo = {} THEN {} ELSE {u})

\* One target: its subscribers, then its owner's estimator unless the owner
\* reported the complete frame.
Deliver(t, s) ==
    /\ t \in routing /\ t.at = None /\ s \in t.todo
    /\ events' = [p \in Presses |-> IF p \in t.presses
                                    THEN [events[p] EXCEPT ![t.part][s] = @ + 1]
                                    ELSE events[p]]
    /\ Becomes(t, IF owner[s] \in t.heard THEN [t EXCEPT !.todo = @ \ {s}]
                  ELSE [t EXCEPT !.at = s])
    /\ UNCHANGED <<site, air, reports, memory, moves, disturbed, stale>>

\* `observe` is executed; whether it is answered makes no difference.
Forwarded(t) ==
    /\ t \in routing /\ t.at # None
    /\ moves' = [p \in Presses |-> IF p \in t.presses
                                   THEN [moves[p] EXCEPT ![t.at] = @ + 1]
                                   ELSE moves[p]]
    /\ Becomes(t, [t EXCEPT !.at = None, !.todo = @ \ {t.at}])
    /\ UNCHANGED <<site, air, reports, memory, events, disturbed, stale>>

ForwardFails(t) ==
    /\ t \in routing /\ t.at # None
    /\ Becomes(t, [t EXCEPT !.at = None, !.todo = @ \ {t.at}])
    /\ disturbed' = disturbed \cup t.presses
    /\ UNCHANGED <<site, air, reports, memory, events, moves, stale>>

-----------------------------------------------------------------------------
(* The system *)

Less(n) == IF n = 0 THEN 0 ELSE n - 1

\* A report that is one tick older, for as long as its age makes a difference.
Aged(r) == [r EXCEPT !.left = Less(@)]

\* Time passes when no timer is due; a report may take any time to arrive.
Tick ==
    /\ \A k \in Keys : pending[k] # None => pending[k].left > 0
    /\ \A t \in routing : t.at # None
    /\ reports' = {Aged(r) : r \in reports}
    /\ statuses' = {Aged(r) : r \in statuses}
    /\ pending' = [k \in Keys |-> IF pending[k] = None THEN None
                                  ELSE [pending[k] EXCEPT !.left = @ - 1]]
    /\ completed' = [k \in Keys |-> Less(completed[k])]
    /\ terminals' = [n \in Sequences |-> Less(terminals[n])]
    /\ <<reports', statuses', memory'>> # <<reports, statuses, memory>>
    /\ UNCHANGED <<site, press, sequence, repeats, routing, events, moves, disturbed, stale>>

\* Home Assistant restarts: a new coordinator remembers nothing of what was
\* reported, and every status that the bridges still have is stale for it.
Restart ==
    /\ reports' = {}
    /\ statuses' = {[r EXCEPT !.left = 0] : r \in statuses}
    /\ pending' = [k \in Keys |-> None]
    /\ completed' = [k \in Keys |-> 0]
    /\ terminals' = [n \in Sequences |-> 0]
    /\ routing' = {}
    /\ disturbed' = disturbed \cup {p \in Presses : press[p] # None}
    /\ UNCHANGED <<site, press, sequence, repeats, events, moves, stale>>

Init ==
    /\ owner \in [Shutters -> Bridges]
    /\ paired \in SUBSET Shutters
    /\ group \in SUBSET Shutters
    /\ paired \cup group = Shutters
    /\ press = [p \in Presses |-> None]
    /\ sequence = SeqMod - 1
    /\ reports = {} /\ statuses = {}
    /\ repeats = 0
    /\ pending = [k \in Keys |-> None]
    /\ completed = [k \in Keys |-> 0]
    /\ terminals = [n \in Sequences |-> 0]
    /\ routing = {}
    /\ events = [p \in Presses |-> [part \in Parts |-> [s \in Shutters |-> 0]]]
    /\ moves = [p \in Presses |-> [s \in Shutters |-> 0]]
    /\ disturbed = {} /\ stale = {}

Next ==
    \/ \E p \in Presses : PressStop(p) \/ PressMy(p) \/ PressTilt(p)
    \/ \E r \in reports : Receive(r)
    \/ \E r \in statuses : Reconnect(r)
    \/ \E k \in Keys : Flush(k)
    \/ \E t \in routing : \/ \E s \in t.todo : Deliver(t, s)
                          \/ Forwarded(t) \/ ForwardFails(t)
    \/ Tick
    \/ Restart

Spec == Init /\ [][Next]_vars

-----------------------------------------------------------------------------
(* Properties *)

\* Every variable has its type.
TypeOK ==
    /\ owner \in [Shutters -> Bridges]
    /\ paired \subseteq Shutters /\ group \subseteq Shutters
    /\ press \in [Presses -> PressRecords \cup {None}]
    /\ sequence \in Sequences
    /\ reports \subseteq Reports /\ statuses \subseteq Reports
    /\ repeats \in Nat
    /\ pending \in [Keys -> Buckets \cup {None}]
    /\ completed \in [Keys -> 0 .. Cache]
    /\ terminals \in [Sequences -> 0 .. Cache]
    /\ routing \subseteq Tasks /\ \A t \in routing : t.at \in t.todo \cup {None}
    /\ events \in [Presses -> [Parts -> [Shutters -> Nat]]]
    /\ moves \in [Presses -> [Shutters -> Nat]]
    /\ disturbed \subseteq Presses /\ stale \subseteq Presses

\* "a late third-bridge copy cannot produce a second event"
\* (docs/future-multi-bridge.md): a frame with a sequence number yields at most one
\* event for a shutter, in whatever order its copies arrive and however often a
\* status is published again, as long as no copy arrives that is older than the
\* coordinator remembers keys (2.0 s) or than its last restart.  A copy that is
\* does yield a second event: nothing tells it from a new press.
OneEvent ==
    \A p \in Presses, part \in Parts, s \in Shutters :
        press[p] # None /\ press[p].kind # "stop" /\ p \notin stale
            => events[p][part][s] <= 1

\* Press p is dealt with and no report or forward of it went wrong.
Settled(p) ==
    /\ press[p] # None
    /\ p \notin disturbed
    /\ \A r \in reports : r.press # p
    /\ \A k \in Keys : pending[k] # None => p \notin pending[k].presses
    /\ \A t \in routing : p \notin t.presses

\* Shutters that can be resolved from the aliases or the owner's own report of
\* the complete frame.
Resolvable(p) == group \cup {s \in paired : owner[s] \in press[p].by}

EventsOf(p, s) == events[p]["whole"][s] + events[p]["prefix"][s] + events[p]["terminal"][s]

\* "Each target's Detected remote sensor updates exactly once"
\* (docs/future-multi-bridge.md): a tilt and its prefix are one gesture, no press
\* is taken for a copy of another.
UpdatesOnce ==
    \A p \in Presses : Settled(p) => \A s \in Resolvable(p) : EventsOf(p, s) = 1

\* "If the owner was among the receivers, no forwarding occurs ... If only a
\* non-owner heard the gesture, Home Assistant calls the owner's estimator-only
\* service once": a gesture moves the estimator of a shutter once.
EstimatorOnce ==
    \A p \in Presses : Settled(p) => \A s \in Resolvable(p) : moves[p][s] = 1

\* "Home Assistant maps the observation to shutters using both their individual
\* physical remote IDs and every configured group alias".
EveryTarget ==
    \A p \in Presses : Settled(p) => \A s \in Mapped : EventsOf(p, s) > 0

=============================================================================
