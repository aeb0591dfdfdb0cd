------------------------------ MODULE AliasSync ------------------------------
(***************************************************************************)
(* Group remotes: the receive-only aliases kept in the options of every    *)
(* entry, the projection of them each bridge's firmware stores (external), *)
(* and the background worker of coordinator.py that keeps the projections  *)
(* up to date while entries are loaded, reloaded and bridges come and go.  *)
(*                                                                         *)
(* Simplifications                                                         *)
(*   - A group is a remote and the bridges that have members; the slots    *)
(*     and names of the members are left out.                              *)
(*   - One step is what happens between two awaits, except that the worker *)
(*     visits each bridge in a step of its own.                            *)
(*   - Bridges are visited, and the commands of one kind sent, in any      *)
(*     order.                                                              *)
(*   - Tasks start eagerly, as Home Assistant creates them.                *)
(***************************************************************************)
EXTENDS Naturals

CONSTANTS
    Bridges,      \* config entries, each with one bridge
    Generations,  \* successive runtime objects of an entry
    Remotes,      \* physical group remotes
    Workers,      \* tasks running _async_alias_sync_worker
    MaxRetries,   \* Len(ALIAS_SYNC_RETRY_DELAYS)
    None          \* no worker, no runtime, no flow

ASSUME RetriesAreBounded == MaxRetries \in Nat

VARIABLES
    options,    \* the aliases every entry lists
    reloading,  \* entries whose options changed: their listener reloads them
    runtimes,   \* registered runtime objects
    unloading,  \* the worker an async_unregister awaits, or "ended"
    up,         \* bridges whose status entity is usable
    stored,     \* the aliases in the firmware of every bridge
    synced,     \* _synced_aliases of every runtime object
    saved,      \* the same, in the store on disk
    unsaved,    \* runtime objects with a delayed save scheduled
    requested,  \* _alias_sync_requested
    current,    \* _alias_sync_task
    worker,     \* the locals of every worker
    gaveUp,     \* bridges left pending when the retries were used up
    flow        \* a dialog about a group that awaits a bridge

vars == <<options, reloading, runtimes, unloading, up, stored, synced, saved,
          unsaved, requested, current, worker, gaveUp, flow>>

alias == <<requested, current, worker>>

-----------------------------------------------------------------------------
(* Values *)

Objects == Bridges \X Generations
BridgeOf(o) == o[1]
Loaded == {BridgeOf(o) : o \in runtimes}

Aliases == [Remotes -> SUBSET Bridges]

\* The union of the directories of all registered entries.
Merged(rts) ==
    [r \in Remotes |-> UNION {options[BridgeOf(o)][r] : o \in rts}]

Wanted(b) == {r \in Remotes : b \in Merged(runtimes)[r]}

Idle == [stage |-> "none", left |-> {}, at |-> None, todo |-> {}, desired |-> {},
         aliases |-> [r \in Remotes |-> {}], pending |-> {}, retry |-> 0,
         cancelled |-> FALSE]

Locals == [stage : {"none", "visit", "command", "sleep"},
           left : SUBSET Objects, at : Objects \cup {None},
           todo : SUBSET ({"remove", "set"} \X Remotes), desired : SUBSET Remotes,
           aliases : Aliases, pending : SUBSET Bridges, retry : 0 .. MaxRetries,
           cancelled : BOOLEAN]

\* A dialog that awaits a bridge, with what it has read and the bridges to tell.
Flows == [kind : {"save", "remove"}, by : Bridges, remote : Remotes,
          members : SUBSET Bridges, directory : Aliases, left : SUBSET Objects]

\* Nothing is told apart from None by chance, nor an ended worker from a running one.
ASSUME NoneIsNoValue == None \notin Workers \cup Flows /\ "ended" \notin Workers \cup {None}

Running(w) == worker[w].stage # "none"

-----------------------------------------------------------------------------
(* The worker's task *)

\* The start of async_sync_remote_aliases, for the entries in targets.
Begin(rts, targets, retry) ==
    [Idle EXCEPT !.stage = "visit", !.retry = retry, !.aliases = Merged(rts),
                 !.left = {o \in rts : BridgeOf(o) \in targets}]

\* Mutant: a request is made while the worker runs and is not remembered.
RequestForgotten(rts) ==
    IF current # None
    THEN UNCHANGED alias
    ELSE \E w \in Workers :
            /\ ~Running(w)
            /\ worker' = [worker EXCEPT ![w] = Begin(rts, Bridges, 0)]
            /\ current' = w
            /\ requested' = FALSE

\* Mutant: every request starts a worker.
RequestCompeting(rts) ==
    \E w \in Workers :
        /\ ~Running(w)
        /\ worker' = [worker EXCEPT ![w] = Begin(rts, Bridges, 0)]
        /\ current' = w
        /\ requested' = FALSE

\* request_alias_sync: at most one task; a running one looks at the flag again.
\* A new one takes the flag in the same turn.
Request(rts) ==
    IF current # None
    THEN requested' = TRUE /\ UNCHANGED <<current, worker>>
    ELSE \E w \in Workers :
            /\ ~Running(w)
            /\ worker' = [worker EXCEPT ![w] = Begin(rts, Bridges, 0)]
            /\ current' = w
            /\ requested' = FALSE

\* The worker's `finally`: the task forgets itself, or makes itself anew when a
\* request arrived in the meantime.  Whoever awaits it goes on.
End(w) ==
    /\ IF requested /\ runtimes # {}
       THEN /\ worker' = [worker EXCEPT ![w] = Begin(runtimes, Bridges, 0)]
            /\ current' = w
            /\ requested' = FALSE
       ELSE /\ worker' = [worker EXCEPT ![w] = Idle]
            /\ current' = None
            /\ UNCHANGED requested
    /\ unloading' = [b \in Bridges |-> IF unloading[b] = w THEN "ended"
                                       ELSE unloading[b]]

Works(w, stage) == worker[w].stage = stage /\ ~worker[w].cancelled

\* The locals of w while its task and the flag stay.
Becomes(w, locals) ==
    /\ worker' = [worker EXCEPT ![w] = locals]
    /\ UNCHANGED <<requested, current>>

\* A runtime has what it should have; the store is written a second later.
Projected(o, desired) ==
    /\ synced' = [synced EXCEPT ![o] = desired]
    /\ unsaved' = unsaved \cup {o}
    /\ gaveUp' = gaveUp \ {BridgeOf(o)}

\* What a runtime object has to be told.  A runtime that is not registered any
\* more owns no active shutter.
Desired(o, aliases) ==
    IF o \in runtimes THEN {r \in Remotes : BridgeOf(o) \in aliases[r]} ELSE {}

\* One turn of the loop over the runtimes, up to the first command.
Visit(w, o) ==
    LET desired == Desired(o, worker[w].aliases)
        todo == ({"remove"} \X (synced[o] \ desired)) \cup ({"set"} \X desired)
        visited == [worker[w] EXCEPT !.left = @ \ {o}]
    IN  /\ Works(w, "visit")
        /\ o \in worker[w].left
        /\ \/ /\ BridgeOf(o) \notin up
              /\ Becomes(w, [visited EXCEPT !.pending = @ \cup {BridgeOf(o)}])
              /\ UNCHANGED <<synced, unsaved, gaveUp>>
           \/ /\ BridgeOf(o) \in up
              /\ todo # {}
              /\ Becomes(w, [visited EXCEPT !.stage = "command", !.at = o,
                                            !.todo = todo, !.desired = desired])
              /\ UNCHANGED <<synced, unsaved, gaveUp>>
           \/ /\ BridgeOf(o) \in up
              /\ todo = {}
              /\ Becomes(w, visited)
              /\ Projected(o, desired)
        /\ UNCHANGED <<options, reloading, runtimes, unloading, up, stored, saved, flow>>

\* Removals come first.
NextCommands(w) ==
    LET removals == {c \in worker[w].todo : c[1] = "remove"}
    IN  IF removals # {} THEN removals ELSE worker[w].todo

\* The effect of a command on the firmware of a bridge.
Executed(b, c) ==
    stored' = [stored EXCEPT ![b] = IF c[1] = "set" THEN @ \cup {c[2]}
                                                     ELSE @ \ {c[2]}]

Back(w) == [worker[w] EXCEPT !.stage = "visit", !.at = None, !.todo = {}, !.desired = {}]

\* A command is answered; "not found" is as good as removed.
Answered(w) ==
    LET o == worker[w].at
    IN  /\ Works(w, "command")
        /\ BridgeOf(o) \in up
        /\ \E c \in NextCommands(w) :
              /\ Executed(BridgeOf(o), c)
              /\ IF worker[w].todo = {c}
                 THEN Becomes(w, Back(w)) /\ Projected(o, worker[w].desired)
                 ELSE /\ Becomes(w, [worker[w] EXCEPT !.todo = @ \ {c}])
                      /\ UNCHANGED <<synced, unsaved, gaveUp>>
        /\ UNCHANGED <<options, reloading, runtimes, unloading, up, saved, flow>>

\* Mutant: a bridge that failed counts as done.
UnansweredDone(w) ==
    /\ Works(w, "command")
    /\ \/ UNCHANGED stored
       \/ /\ BridgeOf(worker[w].at) \in up
          /\ \E c \in NextCommands(w) : Executed(BridgeOf(worker[w].at), c)
    /\ Becomes(w, Back(w))
    /\ UNCHANGED <<options, reloading, runtimes, unloading, up, synced, saved,
                   unsaved, gaveUp, flow>>

\* A command is refused or lost, or its reply is: the bridge stays pending, and
\* _synced_aliases keeps what it had before the first command.
Unanswered(w) ==
    /\ Works(w, "command")
    /\ \/ UNCHANGED stored
       \/ /\ BridgeOf(worker[w].at) \in up
          /\ \E c \in NextCommands(w) : Executed(BridgeOf(worker[w].at), c)
    /\ Becomes(w, [Back(w) EXCEPT !.pending = @ \cup {BridgeOf(worker[w].at)}])
    /\ UNCHANGED <<options, reloading, runtimes, unloading, up, synced, saved,
                   unsaved, gaveUp, flow>>

-----------------------------------------------------------------------------
(* The worker's loop *)

AllVisited(w) == Works(w, "visit") /\ worker[w].left = {}

\* Nothing is pending: the worker ends unless another request has arrived.
Synchronized(w) ==
    /\ AllVisited(w)
    /\ worker[w].pending = {}
    /\ \/ /\ requested
          /\ requested' = FALSE
          /\ worker' = [worker EXCEPT ![w] = Begin(runtimes, Bridges, 0)]
          /\ UNCHANGED <<current, unloading>>
       \/ ~requested /\ End(w)
    /\ UNCHANGED <<options, reloading, runtimes, up, stored, synced, saved,
                   unsaved, gaveUp, flow>>

\* Mutant: the backoff does not count.
RetryUncounted(w) ==
    /\ AllVisited(w)
    /\ worker[w].pending # {}
    /\ worker[w].retry < MaxRetries
    /\ Becomes(w, [worker[w] EXCEPT !.stage = "sleep"])
    /\ UNCHANGED <<options, reloading, runtimes, unloading, up, stored, synced,
                   saved, unsaved, gaveUp, flow>>

\* Mutant: one attempt more than there are delays.
RetryBeyond(w) ==
    /\ AllVisited(w)
    /\ worker[w].pending # {}
    /\ worker[w].retry <= MaxRetries
    /\ Becomes(w, [worker[w] EXCEPT !.stage = "sleep", !.retry = @ + 1])
    /\ UNCHANGED <<options, reloading, runtimes, unloading, up, stored, synced,
                   saved, unsaved, gaveUp, flow>>

Retry(w) ==
    /\ AllVisited(w)
    /\ worker[w].pending # {}
    /\ worker[w].retry < MaxRetries
    /\ Becomes(w, [worker[w] EXCEPT !.stage = "sleep", !.retry = @ + 1])
    /\ UNCHANGED <<options, reloading, runtimes, unloading, up, stored, synced,
                   saved, unsaved, gaveUp, flow>>

\* After the delay: everything if a request arrived, else what was pending.
Wake(w) ==
    /\ Works(w, "sleep")
    /\ worker' = [worker EXCEPT ![w] =
                    IF requested THEN Begin(runtimes, Bridges, 0)
                    ELSE Begin(runtimes, worker[w].pending, worker[w].retry)]
    /\ requested' = FALSE
    /\ UNCHANGED <<options, reloading, runtimes, unloading, up, stored, synced,
                   saved, unsaved, current, gaveUp, flow>>

\* "will retry when a bridge reconnects"
GiveUp(w) ==
    /\ AllVisited(w)
    /\ worker[w].pending # {}
    /\ worker[w].retry = MaxRetries
    /\ gaveUp' = gaveUp \cup worker[w].pending
    /\ End(w)
    /\ UNCHANGED <<options, reloading, runtimes, up, stored, synced, saved,
                   unsaved, flow>>

\* CancelledError at the await the worker is in.  A command under way may have
\* been executed.
Cancelled(w) ==
    /\ worker[w].cancelled
    /\ \/ UNCHANGED stored
       \/ /\ worker[w].stage = "command"
          /\ BridgeOf(worker[w].at) \in up
          /\ \E c \in NextCommands(w) : Executed(BridgeOf(worker[w].at), c)
    /\ End(w)
    /\ UNCHANGED <<options, reloading, runtimes, up, synced, saved, unsaved,
                   gaveUp, flow>>

WorkerStep(w) ==
    \/ \E o \in worker[w].left : Visit(w, o)
    \/ Answered(w) \/ Unanswered(w)
    \/ Synchronized(w) \/ Retry(w) \/ Wake(w) \/ GiveUp(w) \/ Cancelled(w)

-----------------------------------------------------------------------------
(* Entries are loaded and unloaded, bridges come and go *)

\* The end of async_unregister, once no worker is awaited any more.
RestartSync(rts) ==
    IF rts = {}
    THEN current' = None /\ requested' = FALSE /\ UNCHANGED worker
    ELSE \E w \in Workers :
            /\ ~Running(w)
            /\ worker' = [worker EXCEPT ![w] = Begin(rts, Bridges, 0)]
            /\ current' = w
            /\ requested' = FALSE

\* async_unregister, up to `await task`.
Unload(b) ==
    LET rts == {o \in runtimes : BridgeOf(o) # b}
    IN  /\ b \in Loaded
        /\ runtimes' = rts
        /\ reloading' = reloading \ {b}
        /\ IF current = None
           THEN RestartSync(rts) /\ UNCHANGED unloading
           ELSE /\ worker' = [worker EXCEPT ![current].cancelled = TRUE]
                /\ requested' = FALSE
                /\ unloading' = [unloading EXCEPT ![b] = current]
                /\ UNCHANGED current
        /\ UNCHANGED <<options, up, stored, synced, saved, unsaved, gaveUp, flow>>

\* async_unregister, after `await task`.
Unloaded(b) ==
    /\ unloading[b] = "ended"
    /\ unloading' = [unloading EXCEPT ![b] = None]
    /\ RestartSync(runtimes)
    /\ UNCHANGED <<options, reloading, runtimes, up, stored, synced, saved,
                   unsaved, gaveUp, flow>>

\* A runtime object nobody holds any more.
FreeObject(o) ==
    /\ o \notin runtimes \cup unsaved
    /\ \A w \in Workers : o \notin worker[w].left /\ worker[w].at # o
    /\ flow # None => o \notin flow.left

\* async_setup and register
Load(b) ==
    /\ b \notin Loaded
    /\ unloading[b] = None
    /\ \E g \in Generations :
          /\ FreeObject(<<b, g>>)
          /\ runtimes' = runtimes \cup {<<b, g>>}
          /\ synced' = [synced EXCEPT ![<<b, g>>] = saved[b]]
          /\ Request(runtimes \cup {<<b, g>>})
    /\ UNCHANGED <<options, reloading, unloading, up, stored, saved, unsaved,
                   gaveUp, flow>>

\* The delayed save of a runtime object, registered or not.
Save(o) ==
    /\ o \in unsaved
    /\ saved' = [saved EXCEPT ![BridgeOf(o)] = synced[o]]
    /\ unsaved' = unsaved \ {o}
    /\ UNCHANGED <<options, reloading, runtimes, unloading, up, stored, synced,
                   requested, current, worker, gaveUp, flow>>

Disconnect(b) ==
    /\ b \in up
    /\ up' = up \ {b}
    /\ UNCHANGED <<options, reloading, runtimes, unloading, stored, synced, saved,
                   unsaved, requested, current, worker, gaveUp, flow>>

\* _alias_bridge_status_changed, from unusable to usable
Reconnect(b) ==
    /\ b \notin up
    /\ up' = up \cup {b}
    /\ IF b \in Loaded THEN Request(runtimes) ELSE UNCHANGED alias
    /\ UNCHANGED <<options, reloading, runtimes, unloading, stored, synced, saved,
                   unsaved, gaveUp, flow>>

-----------------------------------------------------------------------------
(* Dialogs *)

\* _save_global_remote_aliases: every loaded entry and the dialog's own.  An
\* entry whose options change is reloaded.
SaveDirectory(b, directory) ==
    /\ options' = [c \in Bridges |-> IF c \in Loaded \cup {b} THEN directory
                                     ELSE options[c]]
    /\ reloading' = reloading \cup {c \in Loaded : options[c] # options'[c]}

\* An open dialog of entry b about group r, until the answers it waits for.
Opens(kind, b, r, members, targets) ==
    flow' = [kind |-> kind, by |-> b, remote |-> r, members |-> members,
             directory |-> IF kind = "remove" THEN Merged(runtimes) ELSE Merged({}),
             left |-> targets]

\* async_step_capture_group_remote: a group that is known already is extended
\* with the chosen members, one of which is on the dialog's own bridge.
Capture(b, r, chosen) ==
    /\ flow = None
    /\ b \in chosen /\ chosen \subseteq Loaded
    /\ Opens("save", b, r, chosen \cup Merged(runtimes)[r], {})
    /\ UNCHANGED <<options, reloading, runtimes, unloading, up, stored, synced,
                   saved, unsaved, requested, current, worker, gaveUp>>

\* async_step_group_remote_targets: the members are replaced.  The dialog's own
\* bridge is told first when it has some.
Edit(b, r, members) ==
    /\ flow = None
    /\ b \in Loaded /\ Merged(runtimes)[r] # {}
    /\ members # {} /\ members \subseteq Loaded
    /\ IF b \in members
       THEN Opens("save", b, r, members, {}) /\ UNCHANGED <<options, reloading>>
       ELSE SaveDirectory(b, [Merged(runtimes) EXCEPT ![r] = members]) /\ UNCHANGED flow
    /\ UNCHANGED <<runtimes, unloading, up, stored, synced, saved, unsaved,
                   requested, current, worker, gaveUp>>

Dialog(kind) == flow # None /\ flow.kind = kind

\* The bridge has answered: the directory is read again and saved.
GroupTold ==
    /\ Dialog("save")
    /\ flow.by \in up
    /\ stored' = [stored EXCEPT ![flow.by] = @ \cup {flow.remote}]
    /\ SaveDirectory(flow.by, [Merged(runtimes) EXCEPT ![flow.remote] = flow.members])
    /\ flow' = None
    /\ UNCHANGED <<runtimes, unloading, up, synced, saved, unsaved, requested,
                   current, worker, gaveUp>>

\* The command or its reply is lost: the dialog shows an error.
GroupLost ==
    /\ Dialog("save")
    /\ \/ UNCHANGED stored
       \/ /\ flow.by \in up
          /\ stored' = [stored EXCEPT ![flow.by] = @ \cup {flow.remote}]
    /\ flow' = None
    /\ UNCHANGED <<options, reloading, runtimes, unloading, up, synced, saved,
                   unsaved, requested, current, worker, gaveUp>>

\* async_step_remove_group_remote reads the directory before it awaits.
Remove(b, r) ==
    /\ flow = None
    /\ b \in Loaded
    /\ Merged(runtimes)[r] # {}
    /\ Opens("remove", b, r, {}, runtimes)
    /\ UNCHANGED <<options, reloading, runtimes, unloading, up, stored, synced,
                   saved, unsaved, requested, current, worker, gaveUp>>

\* async_remove_remote_alias, one bridge: offline ones are left out, and an
\* error of the transport is only logged.
RemoveAt(o) ==
    /\ Dialog("remove")
    /\ o \in flow.left
    /\ \/ /\ BridgeOf(o) \in up
          /\ stored' = [stored EXCEPT ![BridgeOf(o)] = @ \ {flow.remote}]
       \/ UNCHANGED stored
    /\ flow' = [flow EXCEPT !.left = @ \ {o}]
    /\ UNCHANGED <<options, reloading, runtimes, unloading, up, synced, saved,
                   unsaved, requested, current, worker, gaveUp>>

\* A bridge refuses: the dialog ends, the group stays in the options.
RemoveRefused ==
    /\ Dialog("remove")
    /\ flow.left # {}
    /\ flow' = None
    /\ UNCHANGED <<options, reloading, runtimes, unloading, up, stored, synced,
                   saved, unsaved, requested, current, worker, gaveUp>>

Removed ==
    /\ Dialog("remove")
    /\ flow.left = {}
    /\ SaveDirectory(flow.by, [flow.directory EXCEPT ![flow.remote] = {}])
    /\ flow' = None
    /\ UNCHANGED <<runtimes, unloading, up, stored, synced, saved, unsaved,
                   requested, current, worker, gaveUp>>

-----------------------------------------------------------------------------
(* The system *)

\* Home Assistant dies and starts again without having loaded anything.
Crash ==
    /\ reloading' = {}
    /\ runtimes' = {}
    /\ unloading' = [b \in Bridges |-> None]
    /\ unsaved' = {}
    /\ requested' = FALSE
    /\ current' = None
    /\ worker' = [w \in Workers |-> Idle]
    /\ gaveUp' = {}
    /\ flow' = None
    /\ UNCHANGED <<options, up, stored, synced, saved>>

Init ==
    /\ options = [b \in Bridges |-> [r \in Remotes |-> {}]]
    /\ reloading = {}
    /\ runtimes = {}
    /\ unloading = [b \in Bridges |-> None]
    /\ up = Bridges
    /\ stored = [b \in Bridges |-> {}]
    /\ synced = [o \in Objects |-> {}]
    /\ saved = [b \in Bridges |-> {}]
    /\ unsaved = {}
    /\ requested = FALSE
    /\ current = None
    /\ worker = [w \in Workers |-> Idle]
    /\ gaveUp = {}
    /\ flow = None

\* What goes on by itself once it was started.
Progress ==
    \/ \E w \in Workers : WorkerStep(w)
    \/ \E b \in Bridges : Unloaded(b)
    \/ \E o \in Objects : Save(o) \/ RemoveAt(o)
    \/ GroupTold \/ Removed
    \/ \E b \in reloading : Unload(b)

Dialogs ==
    \E b \in Bridges, r \in Remotes :
        \/ \E members \in SUBSET Bridges : Edit(b, r, members) \/ Capture(b, r, members)
        \/ Remove(b, r)

Events ==
    \/ \E b \in Bridges : Load(b) \/ Unload(b) \/ Disconnect(b) \/ Reconnect(b)
    \/ Crash

Next == Progress \/ Dialogs \/ Events \/ GroupLost \/ RemoveRefused

Spec == Init /\ [][Next]_vars

\* One entry is unloaded at a time, and nothing asks for a synchronization
\* between a worker's cancellation and its end.
Calm == /\ \A b \in Bridges : unloading[b] = None
        /\ \A w \in Workers : ~worker[w].cancelled

CalmUnload(b) == Calm /\ Unload(b)

CalmProgress ==
    \/ \E w \in Workers : WorkerStep(w)
    \/ \E b \in Bridges : Unloaded(b)
    \/ \E o \in Objects : Save(o) \/ RemoveAt(o)
    \/ GroupTold \/ Removed
    \/ \E b \in reloading : CalmUnload(b)

CalmEvents ==
    \/ \E b \in Bridges : CalmUnload(b) \/ Disconnect(b)
    \/ \E b \in Bridges : Calm /\ (Load(b) \/ Reconnect(b))
    \/ Crash

CalmNext == CalmProgress \/ Dialogs \/ CalmEvents \/ GroupLost

CalmSpec == Init /\ [][CalmNext]_vars

\* Groups are edited and entries reloaded; bridges stay up and so does Home
\* Assistant, and no group is removed.
SteadyNext ==
    \/ CalmProgress
    \/ \E b \in Bridges, r \in Remotes, members \in SUBSET Bridges :
           Edit(b, r, members) \/ Capture(b, r, members)
    \/ \E b \in Bridges : CalmUnload(b) \/ (Calm /\ Load(b))

SteadySpec == Init /\ [][SteadyNext]_vars

-----------------------------------------------------------------------------
(* Properties *)

\* Every variable has its type.
TypeOK ==
    /\ options \in [Bridges -> Aliases]
    /\ reloading \subseteq Bridges
    /\ runtimes \subseteq Objects
    /\ unloading \in [Bridges -> Workers \cup {None, "ended"}]
    /\ up \subseteq Bridges
    /\ stored \in [Bridges -> SUBSET Remotes]
    /\ synced \in [Objects -> SUBSET Remotes]
    /\ saved \in [Bridges -> SUBSET Remotes]
    /\ unsaved \subseteq Objects
    /\ requested \in BOOLEAN
    /\ current \in Workers \cup {None}
    /\ worker \in [Workers -> Locals]
    /\ gaveUp \subseteq Bridges
    /\ flow \in Flows \cup {None}

\* "Serialize and deduplicate ... instead of launching one competing startup
\* task per bridge" (CHANGELOG.md:16): two workers never run.
OneWorker == \A v, w \in Workers : Running(v) /\ Running(w) => v = w

\* Nothing is going on and nothing is asked for.
Quiet ==
    /\ \A w \in Workers : ~Running(w)
    /\ \A b \in Bridges : unloading[b] = None
    /\ reloading = {}
    /\ flow = None

\* When everything has settled, a usable bridge answers to every group that
\* has members on it, unless the worker has given up on the bridge: no load,
\* reload, reconnection or edit of a group is missed.
Converged ==
    Quiet => \A b \in (Loaded \cap up) \ gaveUp : Wanted(b) \subseteq stored[b]

-----------------------------------------------------------------------------
(* Liveness *)

LiveSpec == CalmSpec /\ WF_vars(\E w \in Workers : WorkerStep(w))

\* "bounded retry while bridges become ready": the worker does not go on forever
\* when no bridge and no entry changes any more.
Undisturbed ==
    \/ \E w \in Workers : WorkerStep(w)
    \/ \E o \in Objects : Save(o) \/ RemoveAt(o)

WorkerEnds ==
    <>[][Undisturbed]_vars => <>[](\A w \in Workers : ~Running(w))

=============================================================================
