--------------------------- MODULE AliasSyncProofs ---------------------------
(***************************************************************************)
(* The group remotes, for any bridges, runtime objects, remotes, workers   *)
(* and number of retries.  Every variable keeps its type; and while one    *)
(* entry is unloaded at a time (CalmSpec), one worker runs at a time and   *)
(* no group is missed.  WorkInv is about the tasks: whoever runs is the    *)
(* current one, and the one an unload awaits does not begin anew.  CareInv *)
(* is about the groups: unless everything will be looked at again, each    *)
(* group of a loaded bridge is stored there or the running worker will     *)
(* still tell the bridge, from a directory that is still right.            *)
(***************************************************************************)
EXTENDS AliasSync, TLAPS

\* A worker that commands has a runtime object to command.
Commands ==
    \A w \in Workers : worker[w].stage = "command" => worker[w].at \in Objects

TypeInv == TypeOK /\ Commands

\* The bridge of an object.
LEMMA ObjectBridge ==
    ASSUME NEW o \in Objects
    PROVE  BridgeOf(o) \in Bridges
  BY DEF Objects, BridgeOf

LEMMA LocalsFields ==
    ASSUME NEW l \in Locals
    PROVE  /\ l.stage \in {"none", "visit", "command", "sleep"}
           /\ l.left \subseteq Objects
           /\ l.at \in Objects \cup {None}
           /\ l.todo \subseteq {"remove", "set"} \X Remotes
           /\ l.desired \subseteq Remotes
           /\ l.aliases \in Aliases
           /\ l.pending \subseteq Bridges
           /\ l.retry \in 0 .. MaxRetries
           /\ l.cancelled \in BOOLEAN
  BY DEF Locals

\* A merged directory lists bridges.
LEMMA MergedTyped ==
    ASSUME TypeOK, NEW rts \in SUBSET Objects
    PROVE  Merged(rts) \in Aliases
<1>1. ASSUME NEW r \in Remotes
      PROVE  UNION {options[BridgeOf(o)][r] : o \in rts} \in SUBSET Bridges
  <2>1. ASSUME NEW o \in rts
        PROVE  options[BridgeOf(o)][r] \in SUBSET Bridges
    BY <2>1, ObjectBridge DEF TypeOK, Aliases
  <2> QED
    BY <2>1
<1> QED
  BY <1>1 DEF Merged, Aliases

LEMMA IdleTyped ==
    Idle \in Locals /\ Idle.stage = "none" /\ Idle.cancelled = FALSE
  BY RetriesAreBounded DEF Idle, Locals, RetriesAreBounded, Aliases

\* What a worker begins with.
LEMMA BeginFields ==
    ASSUME TypeOK, NEW rts \in SUBSET Objects, NEW targets, NEW n \in 0 .. MaxRetries
    PROVE  Begin(rts, targets, n) \in Locals /\ Begin(rts, targets, n).stage = "visit"
           /\ Begin(rts, targets, n).cancelled = FALSE
           /\ Begin(rts, targets, n).aliases = Merged(rts)
<1> DEFINE S == {o \in rts : BridgeOf(o) \in targets}
           A == Merged(rts)
           l == Begin(rts, targets, n)
<1>1. A \in Aliases /\ S \in SUBSET Objects
  BY MergedTyped
<1>2. l = [Idle EXCEPT !.stage = "visit", !.retry = n, !.aliases = A, !.left = S]
  BY DEF Begin
<1> HIDE DEF S, A, l
<1>3. l \in Locals /\ l.stage = "visit" /\ l.cancelled = FALSE /\ l.aliases = A
  BY ONLY <1>1, <1>2, IdleTyped, n \in 0 .. MaxRetries DEF Locals
<1> QED
  BY <1>3 DEF A, l

LEMMA BeginTyped ==
    ASSUME TypeOK, NEW rts \in SUBSET Objects, NEW targets, NEW n \in 0 .. MaxRetries
    PROVE  /\ Begin(rts, targets, n) \in Locals /\ Begin(rts, targets, n).stage = "visit"
           /\ ~Begin(rts, targets, n).cancelled
<1> HIDE DEF Begin
<1> QED
  BY ONLY BeginFields, TypeOK, rts \in SUBSET Objects, n \in 0 .. MaxRetries, Zenon

\* The runtime objects a worker visits.
LEMMA BeginLeft ==
    ASSUME NEW rts, NEW targets, NEW n, NEW o
    PROVE  o \in Begin(rts, targets, n).left <=> o \in rts /\ BridgeOf(o) \in targets
<1> DEFINE S == {p \in rts : BridgeOf(p) \in targets}
           A == Merged(rts)
           l == Begin(rts, targets, n)
<1>1. l = [Idle EXCEPT !.stage = "visit", !.retry = n, !.aliases = A, !.left = S]
  BY DEF Begin
<1>2. o \in S <=> o \in rts /\ BridgeOf(o) \in targets
  OBVIOUS
<1> HIDE DEF S, A, l
<1>3. l.left = S
  BY ONLY <1>1 DEF Idle
<1> QED
  BY <1>2, <1>3 DEF l

\* One worker's locals change.
LEMMA WorkerTyped ==
    ASSUME TypeInv, NEW w, NEW l \in Locals, l.stage = "command" => l.at \in Objects,
           worker' = [worker EXCEPT ![w] = l]
    PROVE  worker' \in [Workers -> Locals] /\ Commands'
  BY DEF TypeInv, TypeOK, Commands

LEMMA RequestTyped ==
    ASSUME TypeInv, NEW rts \in SUBSET Objects, Request(rts)
    PROVE  /\ requested' \in BOOLEAN /\ current' \in Workers \cup {None}
           /\ worker' \in [Workers -> Locals] /\ Commands'
<1>1. CASE current # None
  BY <1>1 DEF Request, TypeInv, TypeOK, Commands
<1>2. CASE current = None
  <2>1. PICK w \in Workers : /\ worker' = [worker EXCEPT ![w] = Begin(rts, Bridges, 0)]
                             /\ current' = w /\ requested' = FALSE
    BY <1>2 DEF Request
  <2>2. Begin(rts, Bridges, 0) \in Locals /\ Begin(rts, Bridges, 0).stage = "visit"
    BY BeginTyped, RetriesAreBounded DEF RetriesAreBounded, TypeInv
  <2> QED
    BY <2>1, <2>2, WorkerTyped
<1> QED
  BY <1>1, <1>2

LEMMA RestartTyped ==
    ASSUME TypeInv, NEW rts \in SUBSET Objects, RestartSync(rts)
    PROVE  /\ requested' \in BOOLEAN /\ current' \in Workers \cup {None}
           /\ worker' \in [Workers -> Locals] /\ Commands'
<1>1. CASE rts = {}
  BY <1>1 DEF RestartSync, TypeInv, TypeOK, Commands
<1>2. CASE rts # {}
  <2>1. PICK w \in Workers : /\ worker' = [worker EXCEPT ![w] = Begin(rts, Bridges, 0)]
                             /\ current' = w /\ requested' = FALSE
    BY <1>2 DEF RestartSync
  <2>2. Begin(rts, Bridges, 0) \in Locals /\ Begin(rts, Bridges, 0).stage = "visit"
    BY BeginTyped, RetriesAreBounded DEF RetriesAreBounded, TypeInv
  <2> QED
    BY <2>1, <2>2, WorkerTyped
<1> QED
  BY <1>1, <1>2

LEMMA EndTyped ==
    ASSUME TypeInv, NEW w \in Workers, End(w)
    PROVE  /\ requested' \in BOOLEAN /\ current' \in Workers \cup {None}
           /\ worker' \in [Workers -> Locals] /\ Commands'
           /\ unloading' \in [Bridges -> Workers \cup {None, "ended"}]
<1>1. unloading' \in [Bridges -> Workers \cup {None, "ended"}]
  BY DEF End, TypeInv, TypeOK
<1>2. CASE requested /\ runtimes # {}
  <2>1. /\ worker' = [worker EXCEPT ![w] = Begin(runtimes, Bridges, 0)]
        /\ current' = w /\ requested' = FALSE
    BY <1>2 DEF End
  <2>2. Begin(runtimes, Bridges, 0) \in Locals /\ Begin(runtimes, Bridges, 0).stage = "visit"
    BY BeginTyped, RetriesAreBounded DEF RetriesAreBounded, TypeInv, TypeOK
  <2> QED
    BY <1>1, <2>1, <2>2, WorkerTyped
<1>3. CASE ~(requested /\ runtimes # {})
  <2>1. worker' = [worker EXCEPT ![w] = Idle] /\ current' = None /\ requested' = requested
    BY <1>3 DEF End
  <2>2. worker' \in [Workers -> Locals] /\ Commands'
    BY <2>1, IdleTyped, WorkerTyped
  <2> QED
    BY <1>1, <2>1, <2>2 DEF TypeInv, TypeOK
<1> QED
  BY <1>2, <1>3

\* What a command does to a bridge.
LEMMA ExecutedTyped ==
    ASSUME TypeInv, NEW b, NEW c, Executed(b, c), c[2] \in Remotes
    PROVE  stored' \in [Bridges -> SUBSET Remotes]
  BY DEF Executed, TypeInv, TypeOK

LEMMA CommandsFields ==
    ASSUME TypeInv, NEW w \in Workers, NEW c \in NextCommands(w)
    PROVE  c \in worker[w].todo /\ c[1] \in {"remove", "set"} /\ c[2] \in Remotes
           /\ c = <<c[1], c[2]>>
<1>1. c \in worker[w].todo
  BY DEF NextCommands
<1>2. worker[w] \in Locals
  BY DEF TypeInv, TypeOK
<1>3. c \in {"remove", "set"} \X Remotes
  BY <1>1, <1>2, LocalsFields
<1> QED
  BY <1>1, <1>3

\* Whatever changes the directory keeps its type.
LEMMA SaveTyped ==
    ASSUME TypeOK, NEW b \in Bridges, NEW d \in Aliases, SaveDirectory(b, d)
    PROVE  options' \in [Bridges -> Aliases] /\ reloading' \subseteq Bridges
<1>1. Loaded \subseteq Bridges
  BY ObjectBridge DEF Loaded, TypeOK
<1> QED
  BY <1>1 DEF SaveDirectory, TypeOK

\* A dialog.
LEMMA FlowFields ==
    ASSUME TypeOK, flow # None
    PROVE  /\ flow \in Flows
           /\ flow.kind \in {"save", "remove"} /\ flow.by \in Bridges
           /\ flow.remote \in Remotes /\ flow.members \subseteq Bridges
           /\ flow.directory \in Aliases /\ flow.left \subseteq Objects
<1>1. flow \in Flows
  BY DEF TypeOK
<1> QED
  BY <1>1 DEF Flows

-----------------------------------------------------------------------------
(* Every variable keeps its type *)

LEMMA VisitTyped ==
    ASSUME TypeInv, NEW w \in Workers, NEW o \in worker[w].left, Visit(w, o)
    PROVE  TypeInv'
<1> DEFINE l == worker[w]
           desired == Desired(o, l.aliases)
           todo == ({"remove"} \X (synced[o] \ desired)) \cup ({"set"} \X desired)
           visited == [l EXCEPT !.left = @ \ {o}]
<1>1. l \in Locals
  BY DEF TypeInv, TypeOK
<1>2. o \in Objects /\ BridgeOf(o) \in Bridges
  BY <1>1, LocalsFields, ObjectBridge
<1>3. desired \subseteq Remotes /\ todo \subseteq {"remove", "set"} \X Remotes
  BY <1>2 DEF Desired, TypeInv, TypeOK
<1>4. visited \in Locals /\ visited.stage = "visit"
  BY <1>1 DEF Locals, Visit, Works
<1> HIDE DEF desired, todo, visited
<1>5. CASE Becomes(w, [visited EXCEPT !.pending = @ \cup {BridgeOf(o)}])
           /\ UNCHANGED <<synced, unsaved, gaveUp>>
  <2> DEFINE n == [visited EXCEPT !.pending = @ \cup {BridgeOf(o)}]
  <2>1. n \in Locals /\ n.stage = "visit"
    BY <1>2, <1>4 DEF Locals
  <2>2. worker' \in [Workers -> Locals] /\ Commands'
    BY <1>5, <2>1, WorkerTyped DEF Becomes
  <2> QED
    BY <1>5, <2>2 DEF TypeInv, TypeOK, Visit, Becomes
<1>6. CASE Becomes(w, [visited EXCEPT !.stage = "command", !.at = o,
                                      !.todo = todo, !.desired = desired])
           /\ UNCHANGED <<synced, unsaved, gaveUp>>
  <2> DEFINE n == [visited EXCEPT !.stage = "command", !.at = o,
                                  !.todo = todo, !.desired = desired]
  <2>1. n \in Locals /\ n.at = o
    BY <1>2, <1>3, <1>4 DEF Locals
  <2>2. worker' \in [Workers -> Locals] /\ Commands'
    BY <1>2, <1>6, <2>1, WorkerTyped DEF Becomes
  <2> QED
    BY <1>6, <2>2 DEF TypeInv, TypeOK, Visit, Becomes
<1>7. CASE Becomes(w, visited) /\ Projected(o, desired)
  <2>1. worker' \in [Workers -> Locals] /\ Commands'
    BY <1>4, <1>7, WorkerTyped DEF Becomes
  <2> QED
    BY <1>2, <1>3, <1>7, <2>1 DEF TypeInv, TypeOK, Visit, Becomes, Projected
<1> QED
  BY <1>5, <1>6, <1>7 DEF Visit, desired, todo, visited

LEMMA BackTyped ==
    ASSUME TypeInv, NEW w \in Workers
    PROVE  Back(w) \in Locals /\ Back(w).stage = "visit"
<1>1. worker[w] \in Locals
  BY DEF TypeInv, TypeOK
<1> QED
  BY <1>1 DEF Locals, Back

LEMMA AnsweredTyped ==
    ASSUME TypeInv, NEW w \in Workers, Answered(w)
    PROVE  TypeInv'
<1> DEFINE o == worker[w].at
<1>1. worker[w] \in Locals /\ o \in Objects
  BY DEF Answered, Works, TypeInv, TypeOK, Commands
<1>2. PICK c \in NextCommands(w) :
         /\ Executed(BridgeOf(o), c)
         /\ IF worker[w].todo = {c}
            THEN Becomes(w, Back(w)) /\ Projected(o, worker[w].desired)
            ELSE /\ Becomes(w, [worker[w] EXCEPT !.todo = @ \ {c}])
                 /\ UNCHANGED <<synced, unsaved, gaveUp>>
  BY DEF Answered
<1>3. stored' \in [Bridges -> SUBSET Remotes]
  BY <1>2, CommandsFields, ExecutedTyped
<1>4. CASE worker[w].todo = {c}
  <2>1. worker' \in [Workers -> Locals] /\ Commands'
    BY <1>2, <1>4, BackTyped, WorkerTyped DEF Becomes
  <2>2. worker[w].desired \subseteq Remotes /\ BridgeOf(o) \in Bridges
    BY <1>1, LocalsFields, ObjectBridge
  <2> QED
    BY <1>1, <1>2, <1>3, <1>4, <2>1, <2>2 DEF TypeInv, TypeOK, Answered, Becomes, Projected
<1>5. CASE worker[w].todo # {c}
  <2> DEFINE n == [worker[w] EXCEPT !.todo = @ \ {c}]
  <2>1. n \in Locals /\ n.at \in Objects
    BY <1>1 DEF Locals
  <2>2. worker' \in [Workers -> Locals] /\ Commands'
    BY <1>2, <1>5, <2>1, WorkerTyped DEF Becomes
  <2> QED
    BY <1>2, <1>3, <1>5, <2>2 DEF TypeInv, TypeOK, Answered, Becomes
<1> QED
  BY <1>4, <1>5

LEMMA UnansweredTyped ==
    ASSUME TypeInv, NEW w \in Workers, Unanswered(w)
    PROVE  TypeInv'
<1> DEFINE n == [Back(w) EXCEPT !.pending = @ \cup {BridgeOf(worker[w].at)}]
<1>1. worker[w].at \in Objects /\ BridgeOf(worker[w].at) \in Bridges
  BY ObjectBridge DEF Unanswered, Works, TypeInv, Commands
<1>2. n \in Locals /\ n.stage = "visit"
  BY <1>1, BackTyped DEF Locals
<1>3. worker' \in [Workers -> Locals] /\ Commands'
  BY <1>2, WorkerTyped DEF Unanswered, Becomes
<1>4. stored' \in [Bridges -> SUBSET Remotes]
  BY CommandsFields, ExecutedTyped DEF Unanswered, TypeInv, TypeOK
<1> QED
  BY <1>3, <1>4 DEF TypeInv, TypeOK, Unanswered, Becomes

LEMMA WorkerStepTyped ==
    ASSUME TypeInv, NEW w \in Workers, WorkerStep(w)
    PROVE  TypeInv'
<1>1. CASE Synchronized(w)
  <2>1. CASE requested
    <3>1. worker' = [worker EXCEPT ![w] = Begin(runtimes, Bridges, 0)]
      BY <1>1, <2>1 DEF Synchronized
    <3>2. Begin(runtimes, Bridges, 0) \in Locals /\ Begin(runtimes, Bridges, 0).stage = "visit"
      BY BeginTyped, RetriesAreBounded DEF RetriesAreBounded, TypeInv, TypeOK
    <3>3. worker' \in [Workers -> Locals] /\ Commands'
      BY <3>1, <3>2, WorkerTyped
    <3> QED
      BY <1>1, <2>1, <3>3 DEF Synchronized, TypeInv, TypeOK
  <2>2. CASE ~requested
    <3>1. End(w)
      BY <1>1, <2>2 DEF Synchronized
    <3> QED
      BY <1>1, <3>1, EndTyped DEF Synchronized, TypeInv, TypeOK
  <2> QED
    BY <2>1, <2>2
<1>2. CASE Retry(w)
  <2> DEFINE n == [worker[w] EXCEPT !.stage = "sleep", !.retry = @ + 1]
  <2>1. worker[w] \in Locals /\ worker[w].retry \in Nat /\ worker[w].retry < MaxRetries
    BY <1>2, LocalsFields DEF Retry, TypeInv, TypeOK
  <2>2. worker[w].retry + 1 \in 0 .. MaxRetries
    BY <2>1, RetriesAreBounded DEF RetriesAreBounded
  <2>3. n \in Locals /\ n.stage = "sleep"
    BY <2>1, <2>2 DEF Locals
  <2>4. worker' \in [Workers -> Locals] /\ Commands'
    BY <1>2, <2>3, WorkerTyped DEF Retry, Becomes
  <2> QED
    BY <1>2, <2>4 DEF Retry, Becomes, TypeInv, TypeOK
<1>3. CASE Wake(w)
  <2>1. worker[w].retry \in 0 .. MaxRetries
    BY LocalsFields DEF TypeInv, TypeOK
  <2>2. ASSUME NEW targets, NEW k \in 0 .. MaxRetries,
               worker' = [worker EXCEPT ![w] = Begin(runtimes, targets, k)]
        PROVE  worker' \in [Workers -> Locals] /\ Commands'
    <3>1. Begin(runtimes, targets, k) \in Locals /\ Begin(runtimes, targets, k).stage = "visit"
      BY BeginTyped DEF TypeInv, TypeOK
    <3> QED
      BY <2>2, <3>1, WorkerTyped
  <2>3. worker' \in [Workers -> Locals] /\ Commands'
    <3>1. 0 \in 0 .. MaxRetries
      BY RetriesAreBounded DEF RetriesAreBounded
    <3>2. CASE requested
      <4>1. worker' = [worker EXCEPT ![w] = Begin(runtimes, Bridges, 0)]
        BY <1>3, <3>2 DEF Wake
      <4> QED
        BY <2>2, <3>1, <4>1
    <3>3. CASE ~requested
      <4>1. worker' = [worker EXCEPT ![w] = Begin(runtimes, worker[w].pending, worker[w].retry)]
        BY <1>3, <3>3 DEF Wake
      <4> QED
        BY <2>1, <2>2, <4>1
    <3> QED
      BY <3>2, <3>3
  <2> QED
    BY <1>3, <2>3 DEF Wake, TypeInv, TypeOK
<1>4. CASE GiveUp(w)
  <2>1. worker[w].pending \subseteq Bridges
    BY LocalsFields DEF TypeInv, TypeOK
  <2>2. End(w)
    BY <1>4 DEF GiveUp
  <2> QED
    BY <1>4, <2>1, <2>2, EndTyped DEF GiveUp, TypeInv, TypeOK
<1>5. CASE Cancelled(w)
  <2>1. stored' \in [Bridges -> SUBSET Remotes]
    BY <1>5, CommandsFields, ExecutedTyped DEF Cancelled, TypeInv, TypeOK
  <2>2. End(w)
    BY <1>5 DEF Cancelled
  <2> QED
    BY <1>5, <2>1, <2>2, EndTyped DEF Cancelled, TypeInv, TypeOK
<1> QED
  BY <1>1, <1>2, <1>3, <1>4, <1>5, VisitTyped, AnsweredTyped, UnansweredTyped DEF WorkerStep

LEMMA UnloadTyped ==
    ASSUME TypeInv, NEW b \in Bridges, Unload(b)
    PROVE  TypeInv'
<1> DEFINE rts == {o \in runtimes : BridgeOf(o) # b}
<1>1. rts \subseteq Objects
  BY DEF TypeInv, TypeOK
<1>2. CASE current = None
  <2>1. RestartSync(rts) /\ UNCHANGED unloading
    BY <1>2 DEF Unload
  <2> QED
    BY <1>1, <2>1, RestartTyped DEF Unload, TypeInv, TypeOK
<1>3. CASE current # None
  <2>1. current \in Workers /\ worker[current] \in Locals
    BY <1>3 DEF TypeInv, TypeOK
  <2> DEFINE n == [worker[current] EXCEPT !.cancelled = TRUE]
  <2>2. n \in Locals /\ n.stage = worker[current].stage /\ n.at = worker[current].at
    BY <2>1 DEF Locals
  <2>3. worker' = [worker EXCEPT ![current] = n]
    BY <1>3 DEF Unload
  <2>4. worker' \in [Workers -> Locals] /\ Commands'
    BY <2>1, <2>2, <2>3, WorkerTyped DEF TypeInv, Commands
  <2> QED
    BY <1>1, <1>3, <2>1, <2>4 DEF Unload, TypeInv, TypeOK
<1> QED
  BY <1>2, <1>3

LEMMA UnloadedTyped ==
    ASSUME TypeInv, NEW b \in Bridges, Unloaded(b)
    PROVE  TypeInv'
<1>1. RestartSync(runtimes) /\ runtimes \subseteq Objects
  BY DEF Unloaded, TypeInv, TypeOK
<1> QED
  BY <1>1, RestartTyped DEF Unloaded, TypeInv, TypeOK

LEMMA LoadTyped ==
    ASSUME TypeInv, NEW b \in Bridges, Load(b)
    PROVE  TypeInv'
<1>1. PICK g \in Generations :
         /\ runtimes' = runtimes \cup {<<b, g>>}
         /\ synced' = [synced EXCEPT ![<<b, g>>] = saved[b]]
         /\ Request(runtimes \cup {<<b, g>>})
  BY DEF Load
<1>2. runtimes \cup {<<b, g>>} \subseteq Objects
  BY DEF Objects, TypeInv, TypeOK
<1> QED
  BY <1>1, <1>2, RequestTyped DEF Load, TypeInv, TypeOK

LEMMA ReconnectTyped ==
    ASSUME TypeInv, NEW b \in Bridges, Reconnect(b)
    PROVE  TypeInv'
<1>1. CASE b \in Loaded
  BY <1>1, RequestTyped DEF Reconnect, TypeInv, TypeOK
<1>2. CASE b \notin Loaded
  BY <1>2 DEF Reconnect, TypeInv, TypeOK, Commands, alias
<1> QED
  BY <1>1, <1>2

\* Nothing happens to the workers.
LEMMA SameCommands ==
    ASSUME TypeInv, UNCHANGED worker
    PROVE  Commands'
  BY DEF TypeInv, Commands

LEMMA DialogTyped ==
    ASSUME TypeInv, Dialogs \/ GroupTold \/ GroupLost \/ Removed \/ RemoveRefused
                      \/ \E o \in Objects : RemoveAt(o)
    PROVE  TypeInv'
<1>1. Merged(runtimes) \in Aliases /\ Merged({}) \in Aliases
  BY MergedTyped DEF TypeInv, TypeOK
<1>2. Loaded \subseteq Bridges
  BY ObjectBridge DEF Loaded, TypeInv, TypeOK
<1>3. ASSUME NEW kind \in {"save", "remove"}, NEW b \in Bridges, NEW r \in Remotes,
             NEW m \in SUBSET Bridges, NEW targets \in SUBSET Objects,
             Opens(kind, b, r, m, targets)
      PROVE  flow' \in Flows
  BY <1>1, <1>3 DEF Opens, Flows
<1>4. ASSUME NEW b \in Bridges, NEW r \in Remotes, NEW m \in SUBSET Bridges, Edit(b, r, m)
      PROVE  TypeInv'
  <2>1. CASE b \in m
    BY <1>3, <1>4, <2>1, SameCommands DEF Edit, TypeInv, TypeOK
  <2>2. CASE b \notin m
    <3>1. [Merged(runtimes) EXCEPT ![r] = m] \in Aliases
      BY <1>1 DEF Aliases
    <3> QED
      BY <1>4, <2>2, <3>1, SaveTyped, SameCommands DEF Edit, TypeInv, TypeOK
  <2> QED
    BY <2>1, <2>2
<1>5. ASSUME NEW b \in Bridges, NEW r \in Remotes, NEW m \in SUBSET Bridges, Capture(b, r, m)
      PROVE  TypeInv'
  <2>1. m \cup Merged(runtimes)[r] \in SUBSET Bridges
    BY <1>1 DEF Aliases
  <2>2. flow' \in Flows
    BY <1>3, <1>5, <2>1 DEF Capture
  <2> QED
    BY <1>5, <2>2, SameCommands DEF Capture, TypeInv, TypeOK
<1>6. ASSUME NEW b \in Bridges, NEW r \in Remotes, Remove(b, r)
      PROVE  TypeInv'
  <2>1. flow' \in Flows
    BY <1>3, <1>6 DEF Remove, TypeInv, TypeOK
  <2> QED
    BY <1>6, <2>1, SameCommands DEF Remove, TypeInv, TypeOK
<1>7. CASE GroupTold
  <2>1. /\ flow # None /\ flow.by \in Bridges /\ flow.remote \in Remotes
        /\ flow.members \subseteq Bridges
    BY <1>7, FlowFields DEF GroupTold, Dialog, TypeInv
  <2>2. [Merged(runtimes) EXCEPT ![flow.remote] = flow.members] \in Aliases
    BY <1>1, <2>1 DEF Aliases
  <2>3. options' \in [Bridges -> Aliases] /\ reloading' \subseteq Bridges
    BY <1>7, <2>1, <2>2, SaveTyped DEF GroupTold, TypeInv
  <2>4. stored' \in [Bridges -> SUBSET Remotes]
    BY <1>7, <2>1 DEF GroupTold, TypeInv, TypeOK
  <2> QED
    BY <1>7, <2>3, <2>4, SameCommands DEF GroupTold, TypeInv, TypeOK
<1>8. CASE GroupLost
  <2>1. flow # None /\ flow.by \in Bridges /\ flow.remote \in Remotes
    BY <1>8, FlowFields DEF GroupLost, Dialog, TypeInv
  <2>2. stored' \in [Bridges -> SUBSET Remotes]
    BY <1>8, <2>1 DEF GroupLost, TypeInv, TypeOK
  <2> QED
    BY <1>8, <2>2, SameCommands DEF GroupLost, TypeInv, TypeOK
<1>9. ASSUME NEW o \in Objects, RemoveAt(o)
      PROVE  TypeInv'
  <2>1. flow # None /\ flow \in Flows /\ flow.remote \in Remotes
    BY <1>9, FlowFields DEF RemoveAt, Dialog, TypeInv
  <2>2. stored' \in [Bridges -> SUBSET Remotes]
    BY <1>9, <2>1 DEF RemoveAt, TypeInv, TypeOK
  <2>3. flow' \in Flows
    BY <1>9, <2>1 DEF RemoveAt, Flows
  <2> QED
    BY <1>9, <2>2, <2>3, SameCommands DEF RemoveAt, TypeInv, TypeOK
<1>10. CASE RemoveRefused
  BY <1>10, SameCommands DEF RemoveRefused, TypeInv, TypeOK
<1>11. CASE Removed
  <2>1. /\ flow # None /\ flow.by \in Bridges /\ flow.remote \in Remotes
        /\ flow.directory \in Aliases
    BY <1>11, FlowFields DEF Removed, Dialog, TypeInv
  <2>2. [flow.directory EXCEPT ![flow.remote] = {}] \in Aliases
    BY <2>1 DEF Aliases
  <2>3. options' \in [Bridges -> Aliases] /\ reloading' \subseteq Bridges
    BY <1>11, <2>1, <2>2, SaveTyped DEF Removed, TypeInv
  <2> QED
    BY <1>11, <2>3, SameCommands DEF Removed, TypeInv, TypeOK
<1> QED
  BY <1>4, <1>5, <1>6, <1>7, <1>8, <1>9, <1>10, <1>11 DEF Dialogs

LEMMA EventTyped ==
    ASSUME TypeInv, \/ \E b \in Bridges : Disconnect(b)
                    \/ \E o \in Objects : Save(o)
                    \/ Crash
                    \/ UNCHANGED vars
    PROVE  TypeInv'
<1>1. ASSUME NEW b \in Bridges, Disconnect(b) PROVE TypeInv'
  BY <1>1, SameCommands DEF Disconnect, TypeInv, TypeOK
<1>2. ASSUME NEW o \in Objects, Save(o) PROVE TypeInv'
  BY <1>2, SameCommands, ObjectBridge DEF Save, TypeInv, TypeOK
<1>3. CASE Crash
  BY <1>3, IdleTyped DEF Crash, TypeInv, TypeOK, Commands
<1>4. CASE UNCHANGED vars
  BY <1>4, SameCommands DEF vars, TypeInv, TypeOK
<1> QED
  BY <1>1, <1>2, <1>3, <1>4

LEMMA NextTyped ==
    ASSUME TypeInv, [Next]_vars
    PROVE  TypeInv'
<1>1. CASE Progress
  BY <1>1, WorkerStepTyped, UnloadedTyped, UnloadTyped, DialogTyped, EventTyped
     DEF Progress, TypeInv, TypeOK
<1>2. CASE Events
  BY <1>2, LoadTyped, UnloadTyped, EventTyped, ReconnectTyped DEF Events
<1> QED
  BY <1>1, <1>2, DialogTyped, EventTyped DEF Next

LEMMA InitTyped == Init => TypeInv
  BY IdleTyped DEF Init, TypeInv, TypeOK, Commands, Aliases

\* Every variable keeps its type, whatever entries, bridges and dialogs do.
THEOREM AliasTyped == Spec => []TypeOK
<1>1. TypeInv /\ [Next]_vars => TypeInv'
  BY NextTyped
<1>2. TypeInv => TypeOK
  BY DEF TypeInv
<1> QED
  BY <1>1, <1>2, InitTyped, PTL DEF Spec

-----------------------------------------------------------------------------
(* One worker at a time *)

\* Whoever runs is the current task, and only an unload cancels it.
RunsAsCurrent ==
    /\ \A w \in Workers : Running(w) <=> current = w
    /\ \A w \in Workers : worker[w].cancelled => \E b \in Bridges : unloading[b] = w

\* One entry is unloaded at a time.  The worker it awaits is cancelled and will not
\* begin anew; when it has ended there is no worker.
UnloadFits ==
    /\ \A b, c \in Bridges : unloading[b] # None /\ unloading[c] # None => b = c
    /\ \A b \in Bridges : unloading[b] = "ended" => current = None
    /\ \A b \in Bridges, w \in Workers :
          unloading[b] = w => Running(w) /\ worker[w].cancelled /\ ~requested

WorkInv == TypeInv /\ RunsAsCurrent /\ UnloadFits

\* A worker that is not cancelled goes on.
LEMMA GoesOn ==
    ASSUME WorkInv, NEW w \in Workers, Running(w), ~worker[w].cancelled,
           NEW l \in Locals, l.stage # "none", ~l.cancelled,
           worker' = [worker EXCEPT ![w] = l], UNCHANGED <<current, unloading>>,
           requested' => requested
    PROVE  RunsAsCurrent' /\ UnloadFits'
<1>1. worker \in [Workers -> Locals]
  BY DEF WorkInv, TypeInv, TypeOK
<1>2. \A v \in Workers : worker'[v] = IF v = w THEN l ELSE worker[v]
  BY <1>1
<1>3. RunsAsCurrent'
  BY <1>2 DEF WorkInv, RunsAsCurrent, Running
<1>4. UnloadFits'
  BY <1>2 DEF WorkInv, UnloadFits, Running
<1> QED
  BY <1>3, <1>4

\* A worker starts when there is none.
LEMMA StartFits ==
    ASSUME WorkInv, current = None, NEW w \in Workers,
           NEW l \in Locals, l.stage # "none", ~l.cancelled,
           worker' = [worker EXCEPT ![w] = l], current' = w,
           \A b \in Bridges : unloading'[b] = None
    PROVE  RunsAsCurrent' /\ UnloadFits'
<1>1. worker \in [Workers -> Locals]
  BY DEF WorkInv, TypeInv, TypeOK
<1>2. \A v \in Workers : worker'[v] = IF v = w THEN l ELSE worker[v]
  BY <1>1
<1>3. \A v \in Workers : ~Running(v) /\ (worker[v].cancelled => \E b \in Bridges : unloading[b] = v)
  BY NoneIsNoValue DEF NoneIsNoValue, WorkInv, RunsAsCurrent
<1>4. \A v \in Workers : ~worker[v].cancelled
  BY <1>3 DEF WorkInv, UnloadFits
<1>5. RunsAsCurrent'
  BY <1>2, <1>3, <1>4 DEF RunsAsCurrent, Running
<1>6. UnloadFits'
  BY NoneIsNoValue DEF NoneIsNoValue, UnloadFits
<1> QED
  BY <1>5, <1>6

\* Without a worker nothing is awaited that could still run.
LEMMA NoWorker ==
    ASSUME WorkInv, current = None
    PROVE  \A v \in Workers : ~Running(v) /\ ~worker[v].cancelled
  BY NoneIsNoValue DEF NoneIsNoValue, WorkInv, RunsAsCurrent, UnloadFits

\* While a worker runs that is not cancelled, nothing is unloaded.
LEMMA NothingUnloads ==
    ASSUME WorkInv, NEW w \in Workers, Running(w), ~worker[w].cancelled
    PROVE  \A b \in Bridges : unloading[b] = None
<1>1. current = w
  BY DEF WorkInv, RunsAsCurrent
<1>2. \A b \in Bridges : unloading[b] \in Workers \cup {None, "ended"}
  BY DEF WorkInv, TypeInv, TypeOK
<1>3. \A b \in Bridges : unloading[b] # "ended"
  BY <1>1, NoneIsNoValue DEF NoneIsNoValue, WorkInv, UnloadFits
<1>4. \A b \in Bridges, v \in Workers : unloading[b] = v => v = w
  BY <1>1 DEF WorkInv, UnloadFits, RunsAsCurrent
<1> QED
  BY <1>2, <1>3, <1>4 DEF WorkInv, UnloadFits

LEMMA EndFits ==
    ASSUME WorkInv, NEW w \in Workers, Running(w), End(w)
    PROVE  /\ RunsAsCurrent' /\ UnloadFits'
           /\ worker[w].cancelled => \E b \in Bridges : unloading'[b] = "ended"
<1>1. worker \in [Workers -> Locals] /\ current = w
  BY DEF WorkInv, TypeInv, TypeOK, RunsAsCurrent
<1>2. unloading' = [b \in Bridges |-> IF unloading[b] = w THEN "ended" ELSE unloading[b]]
  BY DEF End
<1>3. CASE worker[w].cancelled
  <2>1. PICK b \in Bridges : unloading[b] = w
    BY <1>3 DEF WorkInv, RunsAsCurrent
  <2>2. ~requested /\ w # None
    BY <2>1, NoneIsNoValue DEF NoneIsNoValue, WorkInv, UnloadFits
  <2>3. worker' = [worker EXCEPT ![w] = Idle] /\ current' = None /\ ~requested'
    BY <2>2 DEF End
  <2>4. \A c \in Bridges : unloading'[c] = IF c = b THEN "ended" ELSE None
    BY <1>2, <2>1, <2>2 DEF WorkInv, UnloadFits
  <2>5. \A v \in Workers : worker'[v] = IF v = w THEN Idle ELSE worker[v]
    BY <1>1, <2>3
  <2>6. \A v \in Workers : v # w => ~Running(v) /\ ~worker[v].cancelled
    BY <1>1, <2>1, <2>2 DEF WorkInv, RunsAsCurrent, UnloadFits
  <2>7. RunsAsCurrent'
    BY <2>3, <2>5, <2>6, IdleTyped, NoneIsNoValue DEF NoneIsNoValue, RunsAsCurrent, Running
  <2>8. UnloadFits'
    BY <2>3, <2>4, NoneIsNoValue DEF NoneIsNoValue, UnloadFits
  <2> QED
    BY <2>4, <2>7, <2>8
<1>4. CASE ~worker[w].cancelled
  <2>1. \A b \in Bridges : unloading[b] = None
    BY <1>4, NothingUnloads
  <2>2. \A b \in Bridges : unloading'[b] = None
    BY <1>2, <2>1, NoneIsNoValue DEF NoneIsNoValue
  <2>3. \A v \in Workers : v # w => ~Running(v) /\ ~worker[v].cancelled
    BY <1>1, <2>1, NoneIsNoValue DEF NoneIsNoValue, WorkInv, RunsAsCurrent
  <2>4. PICK l \in Locals : /\ worker' = [worker EXCEPT ![w] = l] /\ ~l.cancelled
                            /\ l.stage # "none" => current' = w
                            /\ l.stage = "none" => current' = None
    <3>1. CASE requested /\ runtimes # {}
      <4>1. worker' = [worker EXCEPT ![w] = Begin(runtimes, Bridges, 0)] /\ current' = w
        BY <3>1 DEF End
      <4>2. /\ Begin(runtimes, Bridges, 0) \in Locals /\ Begin(runtimes, Bridges, 0).stage = "visit"
            /\ ~Begin(runtimes, Bridges, 0).cancelled
        BY BeginTyped, RetriesAreBounded DEF RetriesAreBounded, WorkInv, TypeInv, TypeOK
      <4> QED
        BY <4>1, <4>2
    <3>2. CASE ~(requested /\ runtimes # {})
      <4>1. worker' = [worker EXCEPT ![w] = Idle] /\ current' = None
        BY <3>2 DEF End
      <4> QED
        BY <4>1, IdleTyped
    <3> QED
      BY <3>1, <3>2
  <2>5. \A v \in Workers : worker'[v] = IF v = w THEN l ELSE worker[v]
    BY <1>1, <2>4
  <2>6. RunsAsCurrent'
    BY <2>3, <2>4, <2>5, NoneIsNoValue DEF NoneIsNoValue, RunsAsCurrent, Running
  <2>7. UnloadFits'
    BY <2>2, NoneIsNoValue DEF NoneIsNoValue, UnloadFits
  <2> QED
    BY <1>4, <2>6, <2>7
<1> QED
  BY <1>3, <1>4

\* Somebody starts a worker, or leaves the one that runs a note.
LEMMA RequestFits ==
    ASSUME WorkInv, NEW rts \in SUBSET Objects, Request(rts), Calm, UNCHANGED unloading
    PROVE  RunsAsCurrent' /\ UnloadFits'
<1>1. CASE current # None
  BY <1>1, NoneIsNoValue
     DEF NoneIsNoValue, Calm, Request, WorkInv, RunsAsCurrent, UnloadFits, Running
<1>2. CASE current = None
  <2>1. PICK w \in Workers : /\ worker' = [worker EXCEPT ![w] = Begin(rts, Bridges, 0)]
                             /\ current' = w
    BY <1>2 DEF Request
  <2>2. /\ Begin(rts, Bridges, 0) \in Locals /\ Begin(rts, Bridges, 0).stage = "visit"
        /\ ~Begin(rts, Bridges, 0).cancelled
    BY BeginTyped, RetriesAreBounded DEF RetriesAreBounded, WorkInv, TypeInv
  <2>4. \A b \in Bridges : unloading'[b] = None
    BY DEF Calm
  <2> QED
    BY <1>2, <2>1, <2>2, <2>4, StartFits
<1> QED
  BY <1>1, <1>2

LEMMA RestartFits ==
    ASSUME WorkInv, NEW rts \in SUBSET Objects, RestartSync(rts), current = None,
           \A b \in Bridges : unloading'[b] = None
    PROVE  RunsAsCurrent' /\ UnloadFits'
<1>1. CASE rts = {}
  BY <1>1, NoWorker, NoneIsNoValue
     DEF NoneIsNoValue, RestartSync, RunsAsCurrent, UnloadFits, Running
<1>2. CASE rts # {}
  <2>1. PICK w \in Workers : /\ worker' = [worker EXCEPT ![w] = Begin(rts, Bridges, 0)]
                             /\ current' = w
    BY <1>2 DEF RestartSync
  <2>2. /\ Begin(rts, Bridges, 0) \in Locals /\ Begin(rts, Bridges, 0).stage = "visit"
        /\ ~Begin(rts, Bridges, 0).cancelled
    BY BeginTyped, RetriesAreBounded DEF RetriesAreBounded, WorkInv, TypeInv
  <2> QED
    BY <2>1, <2>2, StartFits
<1> QED
  BY <1>1, <1>2

\* Nothing that the two conditions speak of changes.
LEMMA SameWork ==
    ASSUME WorkInv, UNCHANGED <<unloading, requested, current, worker>>
    PROVE  RunsAsCurrent' /\ UnloadFits'
  BY DEF WorkInv, RunsAsCurrent, UnloadFits, Running

LEMMA WorkerStepFits ==
    ASSUME WorkInv, NEW w \in Workers, WorkerStep(w)
    PROVE  RunsAsCurrent' /\ UnloadFits'
<1>1. worker[w] \in Locals
  BY DEF WorkInv, TypeInv, TypeOK
<1>2. ASSUME NEW stage, Works(w, stage), stage # "none"
      PROVE  Running(w) /\ ~worker[w].cancelled
  BY <1>2 DEF Works, Running
<1>3. ASSUME NEW o \in worker[w].left, Visit(w, o)
      PROVE  RunsAsCurrent' /\ UnloadFits'
  <2>1. Running(w) /\ ~worker[w].cancelled /\ UNCHANGED unloading
    BY <1>2, <1>3 DEF Visit
  <2>2. TypeInv'
    BY <1>3, VisitTyped DEF WorkInv
  <2>3. /\ worker' = [worker EXCEPT ![w] = worker'[w]] /\ worker'[w] \in Locals
        /\ worker'[w].stage # "none" /\ ~worker'[w].cancelled
        /\ UNCHANGED <<current, requested>>
    <3>1. worker \in [Workers -> Locals] /\ worker' \in [Workers -> Locals]
      BY <2>2 DEF WorkInv, TypeInv, TypeOK
    <3>2. PICK l : /\ worker' = [worker EXCEPT ![w] = l]
                   /\ UNCHANGED <<current, requested>>
                   /\ l.stage # "none" /\ ~l.cancelled
      <4> DEFINE desired == Desired(o, worker[w].aliases)
                 todo == ({"remove"} \X (synced[o] \ desired)) \cup ({"set"} \X desired)
                 visited == [worker[w] EXCEPT !.left = @ \ {o}]
      <4>1. visited.stage = "visit" /\ ~visited.cancelled /\ visited \in Locals
        BY <1>1, <1>3 DEF Visit, Works, Locals
      <4> HIDE DEF desired, todo, visited
      <4>2. CASE Becomes(w, [visited EXCEPT !.pending = @ \cup {BridgeOf(o)}])
        <5> DEFINE n == [visited EXCEPT !.pending = @ \cup {BridgeOf(o)}]
        <5>1. n.stage # "none" /\ ~n.cancelled
          BY <4>1 DEF Locals
        <5> QED
          BY <4>2, <5>1 DEF Becomes
      <4>3. CASE Becomes(w, [visited EXCEPT !.stage = "command", !.at = o,
                                            !.todo = todo, !.desired = desired])
        <5> DEFINE n == [visited EXCEPT !.stage = "command", !.at = o,
                                        !.todo = todo, !.desired = desired]
        <5>1. n.stage # "none" /\ ~n.cancelled
          BY <4>1 DEF Locals
        <5> QED
          BY <4>3, <5>1 DEF Becomes
      <4>4. CASE Becomes(w, visited)
        BY <4>1, <4>4 DEF Becomes
      <4> QED
        BY <1>3, <4>2, <4>3, <4>4 DEF Visit, desired, todo, visited
    <3>3. worker'[w] = l
      BY <3>1, <3>2
    <3> QED
      BY <3>1, <3>2, <3>3
  <2> QED
    BY <2>1, <2>3, GoesOn
<1>4. ASSUME Answered(w)
      PROVE  RunsAsCurrent' /\ UnloadFits'
  <2>1. Running(w) /\ ~worker[w].cancelled /\ UNCHANGED unloading
    BY <1>2, <1>4 DEF Answered
  <2>2. PICK c : \/ Becomes(w, Back(w)) \/ Becomes(w, [worker[w] EXCEPT !.todo = @ \ {c}])
    BY <1>4 DEF Answered
  <2>3. Back(w) \in Locals /\ Back(w).stage # "none" /\ ~Back(w).cancelled
    BY <1>1, <2>1 DEF Back, Locals
  <2> DEFINE n == [worker[w] EXCEPT !.todo = @ \ {c}]
  <2>4. n \in Locals /\ n.stage # "none" /\ ~n.cancelled
    BY <1>1, <2>1 DEF Locals, Running
  <2> HIDE DEF n
  <2>5. PICK l \in Locals : Becomes(w, l) /\ l.stage # "none" /\ ~l.cancelled
    BY <2>2, <2>3, <2>4 DEF n
  <2> QED
    BY <2>1, <2>5, GoesOn DEF Becomes
<1>5. ASSUME Unanswered(w)
      PROVE  RunsAsCurrent' /\ UnloadFits'
  <2>1. Running(w) /\ ~worker[w].cancelled /\ UNCHANGED unloading
    BY <1>2, <1>5 DEF Unanswered
  <2> DEFINE n == [Back(w) EXCEPT !.pending = @ \cup {BridgeOf(worker[w].at)}]
  <2>2. worker[w].at \in Objects
    BY <1>5 DEF Unanswered, Works, WorkInv, TypeInv, Commands
  <2>3. Back(w) \in Locals /\ Back(w).stage # "none" /\ ~Back(w).cancelled
    BY <1>1, <2>1 DEF Back, Locals
  <2>4. n \in Locals /\ n.stage # "none" /\ ~n.cancelled
    BY <2>2, <2>3, ObjectBridge DEF Locals
  <2> QED
    BY <1>5, <2>1, <2>4, GoesOn DEF Unanswered, Becomes
<1>6. ASSUME Synchronized(w)
      PROVE  RunsAsCurrent' /\ UnloadFits'
  <2>1. Running(w) /\ ~worker[w].cancelled
    BY <1>2, <1>6 DEF Synchronized, AllVisited
  <2>2. CASE requested
    <3>1. /\ worker' = [worker EXCEPT ![w] = Begin(runtimes, Bridges, 0)]
          /\ requested' = FALSE /\ UNCHANGED <<current, unloading>>
      BY <1>6, <2>2 DEF Synchronized
    <3>2. /\ Begin(runtimes, Bridges, 0) \in Locals /\ Begin(runtimes, Bridges, 0).stage = "visit"
          /\ ~Begin(runtimes, Bridges, 0).cancelled
      BY BeginTyped, RetriesAreBounded DEF RetriesAreBounded, WorkInv, TypeInv, TypeOK
    <3> QED
      BY <2>1, <3>1, <3>2, GoesOn
  <2>3. CASE ~requested
    BY <1>6, <2>1, <2>3, EndFits DEF Synchronized
  <2> QED
    BY <2>2, <2>3
<1>7. ASSUME Retry(w)
      PROVE  RunsAsCurrent' /\ UnloadFits'
  <2>1. Running(w) /\ ~worker[w].cancelled /\ UNCHANGED unloading
    BY <1>2, <1>7 DEF Retry, AllVisited
  <2> DEFINE n == [worker[w] EXCEPT !.stage = "sleep", !.retry = @ + 1]
  <2>2. worker[w].retry + 1 \in 0 .. MaxRetries
    BY <1>1, <1>7, LocalsFields, RetriesAreBounded DEF Retry, RetriesAreBounded
  <2>3. n \in Locals /\ n.stage # "none" /\ ~n.cancelled
    BY <1>1, <2>1, <2>2 DEF Locals
  <2> QED
    BY <1>7, <2>1, <2>3, GoesOn DEF Retry, Becomes
<1>8. ASSUME Wake(w)
      PROVE  RunsAsCurrent' /\ UnloadFits'
  <2>1. Running(w) /\ ~worker[w].cancelled
    BY <1>2, <1>8 DEF Wake
  <2>2. worker[w].retry \in 0 .. MaxRetries /\ 0 \in 0 .. MaxRetries
    BY <1>1, LocalsFields, RetriesAreBounded DEF RetriesAreBounded
  <2>3. ASSUME NEW targets, NEW k \in 0 .. MaxRetries,
               worker' = [worker EXCEPT ![w] = Begin(runtimes, targets, k)]
        PROVE  RunsAsCurrent' /\ UnloadFits'
    <3>1. /\ Begin(runtimes, targets, k) \in Locals /\ Begin(runtimes, targets, k).stage = "visit"
          /\ ~Begin(runtimes, targets, k).cancelled
      BY BeginTyped DEF WorkInv, TypeInv, TypeOK
    <3>3. requested' = FALSE /\ UNCHANGED <<current, unloading>>
      BY <1>8 DEF Wake
    <3> QED
      BY <2>1, <2>3, <3>1, <3>3, GoesOn
  <2>4. CASE requested
    <3>1. worker' = [worker EXCEPT ![w] = Begin(runtimes, Bridges, 0)]
      BY <1>8, <2>4 DEF Wake
    <3> QED
      BY <2>2, <2>3, <3>1
  <2>5. CASE ~requested
    <3>1. worker' = [worker EXCEPT ![w] = Begin(runtimes, worker[w].pending, worker[w].retry)]
      BY <1>8, <2>5 DEF Wake
    <3> QED
      BY <2>2, <2>3, <3>1
  <2> QED
    BY <2>4, <2>5
<1>9. ASSUME GiveUp(w)
      PROVE  RunsAsCurrent' /\ UnloadFits'
  BY <1>2, <1>9, EndFits DEF GiveUp, AllVisited
<1>10. ASSUME Cancelled(w)
       PROVE  RunsAsCurrent' /\ UnloadFits'
  <2>1. Running(w)
    BY <1>10 DEF Cancelled, WorkInv, RunsAsCurrent, UnloadFits
  <2> QED
    BY <1>10, <2>1, EndFits DEF Cancelled
<1> QED
  BY <1>3, <1>4, <1>5, <1>6, <1>7, <1>8, <1>9, <1>10 DEF WorkerStep

LEMMA UnloadFitsToo ==
    ASSUME WorkInv, NEW b \in Bridges, CalmUnload(b)
    PROVE  RunsAsCurrent' /\ UnloadFits'
<1> DEFINE rts == {o \in runtimes : BridgeOf(o) # b}
<1>1. Unload(b) /\ Calm /\ rts \subseteq Objects
  BY DEF CalmUnload, WorkInv, TypeInv, TypeOK
<1>2. CASE current = None
  <2>1. RestartSync(rts) /\ UNCHANGED unloading
    BY <1>1, <1>2 DEF Unload
  <2>2. \A c \in Bridges : unloading'[c] = None
    BY <1>1, <2>1 DEF Calm
  <2> HIDE DEF rts
  <2> QED
    BY <1>1, <1>2, <2>1, <2>2, RestartFits
<1>3. CASE current # None
  <2>1. current \in Workers /\ worker \in [Workers -> Locals] /\ Running(current)
    BY <1>3 DEF WorkInv, TypeInv, TypeOK, RunsAsCurrent
  <2>2. /\ worker' = [worker EXCEPT ![current].cancelled = TRUE] /\ requested' = FALSE
        /\ unloading' = [unloading EXCEPT ![b] = current] /\ current' = current
    BY <1>1, <1>3 DEF Unload
  <2>3. unloading \in [Bridges -> Workers \cup {None, "ended"}]
    BY DEF WorkInv, TypeInv, TypeOK
  <2>4. \A c \in Bridges : unloading'[c] = IF c = b THEN current ELSE None
    BY <1>1, <2>2, <2>3 DEF Calm
  <2>5. \A v \in Workers : /\ worker'[v].stage = worker[v].stage
                           /\ v # current => worker'[v] = worker[v]
                           /\ v = current => worker'[v].cancelled
    BY <2>1, <2>2 DEF Locals
  <2>6. RunsAsCurrent'
    BY <1>1, <2>2, <2>4, <2>5 DEF Calm, WorkInv, RunsAsCurrent, Running
  <2>7. UnloadFits'
    BY <2>1, <2>2, <2>4, <2>5, NoneIsNoValue DEF NoneIsNoValue, UnloadFits, Running
  <2> QED
    BY <2>6, <2>7
<1> QED
  BY <1>2, <1>3

LEMMA UnloadedFits ==
    ASSUME WorkInv, NEW b \in Bridges, Unloaded(b)
    PROVE  RunsAsCurrent' /\ UnloadFits'
<1>1. unloading[b] = "ended" /\ unloading' = [unloading EXCEPT ![b] = None]
      /\ RestartSync(runtimes)
  BY DEF Unloaded
<1>2. current = None
  BY <1>1 DEF WorkInv, UnloadFits
<1>3. \A c \in Bridges : unloading'[c] = None
  BY <1>1, NoneIsNoValue DEF NoneIsNoValue, WorkInv, UnloadFits, TypeInv, TypeOK
<1> QED
  BY <1>1, <1>2, <1>3, RestartFits DEF WorkInv, TypeInv, TypeOK

\* Every step of CalmSpec is one of Spec.
LEMMA CalmIsNext == CalmNext => Next
  BY DEF CalmNext, CalmProgress, CalmEvents, CalmUnload, Next, Progress, Events

LEMMA CalmWork ==
    ASSUME WorkInv, [CalmNext]_vars
    PROVE  WorkInv'
<1>1. TypeInv'
  BY NextTyped, CalmIsNext DEF WorkInv
<1>2. RunsAsCurrent' /\ UnloadFits'
  <2>1. ASSUME NEW b \in Bridges, Calm, Load(b) \/ Reconnect(b)
        PROVE  RunsAsCurrent' /\ UnloadFits'
    <3>1. CASE Load(b)
      <4>1. PICK g \in Generations : Request(runtimes \cup {<<b, g>>})
        BY <3>1 DEF Load
      <4>2. runtimes \cup {<<b, g>>} \subseteq Objects
        BY DEF Objects, WorkInv, TypeInv, TypeOK
      <4> QED
        BY <2>1, <3>1, <4>1, <4>2, RequestFits DEF Load
    <3>2. CASE Reconnect(b)
      <4>1. UNCHANGED unloading /\ (Request(runtimes) \/ UNCHANGED alias)
        BY <3>2 DEF Reconnect
      <4> QED
        BY <2>1, <4>1, RequestFits, SameWork DEF alias, WorkInv, TypeInv, TypeOK
    <3> QED
      BY <2>1, <3>1, <3>2
  <2>2. CASE CalmProgress
    <3>1. ASSUME NEW o \in Objects, Save(o) \/ RemoveAt(o)
          PROVE  RunsAsCurrent' /\ UnloadFits'
      BY <3>1, SameWork DEF Save, RemoveAt
    <3>2. ASSUME GroupTold \/ Removed
          PROVE  RunsAsCurrent' /\ UnloadFits'
      BY <3>2, SameWork DEF GroupTold, Removed
    <3>3. reloading \subseteq Bridges
      BY DEF WorkInv, TypeInv, TypeOK
    <3> QED
      BY <2>2, <3>1, <3>2, <3>3, WorkerStepFits, UnloadedFits, UnloadFitsToo DEF CalmProgress
  <2>3. CASE Dialogs \/ GroupLost
    <3>1. UNCHANGED <<unloading, requested, current, worker>>
      BY <2>3 DEF Dialogs, Edit, Capture, Remove, GroupLost
    <3> QED
      BY <3>1, SameWork
  <2>4. CASE CalmEvents
    <3>1. CASE Crash
      BY <3>1, IdleTyped, NoneIsNoValue
         DEF NoneIsNoValue, Crash, RunsAsCurrent, UnloadFits, Running
    <3>2. ASSUME NEW b \in Bridges, Disconnect(b)
          PROVE  RunsAsCurrent' /\ UnloadFits'
      BY <3>2, SameWork DEF Disconnect
    <3> QED
      BY <2>1, <2>4, <3>1, <3>2, UnloadFitsToo DEF CalmEvents
  <2>5. CASE UNCHANGED vars
    BY <2>5, SameWork DEF vars
  <2> QED
    BY <2>2, <2>3, <2>4, <2>5 DEF CalmNext
<1> QED
  BY <1>1, <1>2 DEF WorkInv

LEMMA InitWork == Init => WorkInv
<1> SUFFICES ASSUME Init PROVE RunsAsCurrent /\ UnloadFits
  BY InitTyped DEF WorkInv
<1> QED
  BY IdleTyped, NoneIsNoValue
     DEF NoneIsNoValue, Init, RunsAsCurrent, UnloadFits, Running

LEMMA WorkInvariance == CalmSpec => []WorkInv
<1>1. WorkInv /\ [CalmNext]_vars => WorkInv'
  BY CalmWork
<1> QED
  BY <1>1, InitWork, PTL DEF CalmSpec

\* Two workers never run, whoever asks for a synchronization and however often
\* entries are reloaded, one at a time.
THEOREM WorkersAlone == CalmSpec => []OneWorker
<1>1. WorkInv => OneWorker
  BY DEF WorkInv, RunsAsCurrent, OneWorker
<1> QED
  BY <1>1, WorkInvariance, PTL

-----------------------------------------------------------------------------
(* No group is missed *)

\* An entry has one registered runtime object.
OneObject == \A o, p \in runtimes : BridgeOf(o) = BridgeOf(p) => o = p

\* Everything will be looked at again: the flag is set while a worker runs, or an
\* entry is about to be reloaded or on its way out.
Settling ==
    \/ requested /\ current # None
    \/ reloading # {}
    \/ \E b \in Bridges : unloading[b] # None

\* Bridge b has group r, unless a dialog is removing it.
Done(b, r) == r \in stored[b] \/ (Dialog("remove") /\ flow.remote = r)

\* Worker w will still tell bridge b about group r.
Handles(w, b, r) ==
    \/ \E o \in worker[w].left : BridgeOf(o) = b
    \/ b \in worker[w].pending
    \/ /\ worker[w].stage = "command" /\ BridgeOf(worker[w].at) = b
       /\ <<"set", r>> \in worker[w].todo

Handled ==
    \A b \in (Loaded \cap up) \ gaveUp : \A r \in Wanted(b) :
        Done(b, r) \/ \E w \in Workers : Running(w) /\ Handles(w, b, r)

\* What a worker has read is still so, and its commands are the right ones.
CommandFits(w) ==
    LET b == BridgeOf(worker[w].at)
    IN  /\ worker[w].at \in runtimes /\ worker[w].at \notin worker[w].left
        /\ worker[w].desired = Wanted(b)
        /\ \A r \in Wanted(b) : /\ <<"remove", r>> \notin worker[w].todo
                               /\ (Done(b, r) \/ <<"set", r>> \in worker[w].todo)

LocalsFit ==
    \A w \in Workers : Running(w) =>
        /\ worker[w].aliases = Merged(runtimes)
        /\ worker[w].left \subseteq runtimes
        /\ worker[w].stage = "sleep" => worker[w].left = {}
        /\ worker[w].stage = "command" => CommandFits(w)

CareInv == WorkInv /\ OneObject /\ (~Settling => Handled /\ LocalsFit)

\* A worker begins with everything that is loaded.
LEMMA BeginCares ==
    ASSUME WorkInv, NEW w \in Workers, runtimes' \subseteq Objects, UNCHANGED options,
           NEW n \in 0 .. MaxRetries, NEW targets,
           worker' = [worker EXCEPT ![w] = Begin(runtimes', targets, n)],
           \A v \in Workers : v # w => ~Running(v),
           \A b \in (Loaded' \cap up') \ gaveUp' : \A r \in Wanted(b)' :
              Done(b, r)' \/ b \in targets
    PROVE  Handled' /\ LocalsFit'
<1> DEFINE rts == runtimes'
           l == Begin(rts, targets, n)
<1>1. worker \in [Workers -> Locals] /\ TypeOK
  BY DEF WorkInv, TypeInv, TypeOK
<1>2. worker'[w] = l /\ \A v \in Workers : v # w => worker'[v] = worker[v]
  BY <1>1
<1>3. l.stage = "visit" /\ l.aliases = Merged(rts)
  BY <1>1, BeginFields
<1>4. \A o : o \in l.left <=> o \in rts /\ BridgeOf(o) \in targets
  BY BeginLeft
<1>5. Merged(runtimes)' = Merged(rts)
  BY DEF Merged
<1> HIDE DEF l
<1>6. LocalsFit'
  BY <1>2, <1>3, <1>4, <1>5 DEF LocalsFit, Running
<1>7. Handled'
  <2> SUFFICES ASSUME NEW b \in ((Loaded \cap up) \ gaveUp)', NEW r \in Wanted(b)', ~Done(b, r)'
               PROVE  Running(w)' /\ Handles(w, b, r)'
    BY DEF Handled
  <2>1. b \in targets
    OBVIOUS
  <2>2. PICK o \in rts : BridgeOf(o) = b
    BY DEF Loaded
  <2> QED
    BY <1>2, <1>3, <1>4, <2>1, <2>2 DEF Running, Handles
<1> QED
  BY <1>6, <1>7

\* The same for all bridges.
LEMMA BeginAllCares ==
    ASSUME WorkInv, NEW w \in Workers, runtimes' \subseteq Objects, UNCHANGED options,
           NEW rts, rts = runtimes',
           worker' = [worker EXCEPT ![w] = Begin(rts, Bridges, 0)],
           \A v \in Workers : v # w => ~Running(v)
    PROVE  Handled' /\ LocalsFit'
<1>1. Loaded' \subseteq Bridges
  BY ObjectBridge DEF Loaded
<1>2. 0 \in 0 .. MaxRetries
  BY RetriesAreBounded DEF RetriesAreBounded
<1> QED
  BY <1>1, <1>2, BeginCares

\* Nothing is loaded and nothing runs.
LEMMA NothingLoaded ==
    ASSUME runtimes' = {}, \A v \in Workers : ~Running(v)'
    PROVE  Handled' /\ LocalsFit'
  BY DEF Handled, LocalsFit, Loaded

\* The workers and the merged directory stay, and no bridge loses a group.
LEMMA StaysHandled ==
    ASSUME CareInv, ~Settling, UNCHANGED <<worker, runtimes>>, UNCHANGED Merged(runtimes),
           Loaded \cap up' \subseteq up, gaveUp' = gaveUp,
           \A b \in Bridges : \A r \in Wanted(b) : Done(b, r) => Done(b, r)'
    PROVE  Handled' /\ LocalsFit'
<1>1. Loaded' = Loaded /\ (\A b : Wanted(b)' = Wanted(b)) /\ Loaded \subseteq Bridges
  BY ObjectBridge DEF Loaded, Wanted, CareInv, WorkInv, TypeInv, TypeOK
<1>2. \A w \in Workers : /\ Running(w)' <=> Running(w)
                         /\ \A b, r : Handles(w, b, r)' <=> Handles(w, b, r)
  BY DEF Running, Handles
<1>3. Handled'
  BY <1>1, <1>2 DEF CareInv, Handled
<1>4. ASSUME NEW w \in Workers, CommandFits(w)
      PROVE  CommandFits(w)'
  <2>1. BridgeOf(worker[w].at) \in Bridges
    BY <1>4, ObjectBridge DEF CommandFits, CareInv, WorkInv, TypeInv, TypeOK
  <2> QED
    BY <1>1, <1>4, <2>1 DEF CommandFits
<1>5. LocalsFit'
  BY <1>2, <1>4 DEF CareInv, LocalsFit
<1> QED
  BY <1>3, <1>5

\* A save that reloads nobody leaves the loaded directories as they were.
LEMMA SavedQuietly ==
    ASSUME WorkInv, NEW b, NEW d, SaveDirectory(b, d), reloading' = {}, UNCHANGED runtimes
    PROVE  /\ UNCHANGED Merged(runtimes)
           /\ \A c \in Loaded : options[c] = d
<1>1. Loaded \subseteq Bridges
  BY ObjectBridge DEF Loaded, WorkInv, TypeInv, TypeOK
<1>2. \A c \in Loaded : options'[c] = options[c]
  BY DEF SaveDirectory
<1>3. \A c \in Loaded : options'[c] = d
  BY <1>1 DEF SaveDirectory
<1>4. \A o \in runtimes : options'[BridgeOf(o)] = options[BridgeOf(o)]
  BY <1>2 DEF Loaded
<1>5. \A r \in Remotes : {options'[BridgeOf(o)][r] : o \in runtimes}
                          = {options[BridgeOf(o)][r] : o \in runtimes}
  BY <1>4
<1>6. Merged(runtimes)' = Merged(runtimes)
  BY <1>5 DEF Merged
<1> QED
  BY <1>2, <1>3, <1>6

\* The worker that is at work is the only one.
LEMMA OnlyWorker ==
    ASSUME WorkInv, NEW w \in Workers, Running(w)
    PROVE  /\ current = w /\ current # None
           /\ \A v \in Workers : v # w => ~Running(v)
  BY NoneIsNoValue DEF NoneIsNoValue, WorkInv, RunsAsCurrent

\* A worker that goes on while nothing settles: what it has left is handled.
LEMMA WorkCares ==
    ASSUME CareInv, ~Settling, NEW w \in Workers, Running(w), NEW l,
           worker' = [worker EXCEPT ![w] = l], l.stage # "none",
           UNCHANGED <<options, runtimes, up, flow>>,
           l.aliases = worker[w].aliases, l.left \subseteq worker[w].left,
           l.stage = "sleep" => l.left = {},
           l.stage = "command" => CommandFits(w)',
           \A b \in (Loaded \cap up) \ gaveUp' : \A r \in Wanted(b) :
              Done(b, r)' \/ Handles(w, b, r)'
    PROVE  Handled' /\ LocalsFit'
<1>1. worker \in [Workers -> Locals]
  BY DEF CareInv, WorkInv, TypeInv, TypeOK
<1>2. worker'[w] = l /\ \A v \in Workers : v # w => worker'[v] = worker[v]
  BY <1>1
<1>3. \A v \in Workers : v # w => ~Running(v)
  BY OnlyWorker DEF CareInv
<1>4. Loaded' = Loaded /\ (\A b : Wanted(b)' = Wanted(b)) /\ Merged(runtimes)' = Merged(runtimes)
  BY DEF Loaded, Wanted, Merged
<1>5. Handled'
  BY <1>2, <1>4 DEF Handled, Running
<1>6. LocalsFit'
  BY <1>2, <1>3, <1>4 DEF CareInv, LocalsFit, Running
<1> QED
  BY <1>5, <1>6

\* What a worker knows while nothing settles.
LEMMA WorkerKnows ==
    ASSUME CareInv, ~Settling, NEW w \in Workers, Running(w)
    PROVE  /\ worker[w] \in Locals
           /\ worker[w].aliases = Merged(runtimes)
           /\ worker[w].left \subseteq runtimes /\ runtimes \subseteq Objects
           /\ worker[w].stage = "sleep" => worker[w].left = {}
           /\ worker[w].stage = "command" => CommandFits(w)
           /\ \A b \in (Loaded \cap up) \ gaveUp : \A r \in Wanted(b) :
                 Done(b, r) \/ Handles(w, b, r)
<1>1. \A v \in Workers : v # w => ~Running(v)
  BY OnlyWorker DEF CareInv
<1> QED
  BY <1>1 DEF CareInv, WorkInv, TypeInv, TypeOK, LocalsFit, Handled

\* The commands that bring a bridge from one set of groups to another.
LEMMA CommandSet ==
    ASSUME NEW D, NEW E
    PROVE  LET todo == ({"remove"} \X (E \ D)) \cup ({"set"} \X D)
           IN  /\ \A r \in D : <<"set", r>> \in todo /\ <<"remove", r>> \notin todo
               /\ todo = {} => D = {}
<1>1. \A r \in D : <<"set", r>> \in {"set"} \X D
  OBVIOUS
<1>2. \A r \in D : <<"remove", r>> \notin {"set"} \X D
  OBVIOUS
<1>3. \A r \in D : <<"remove", r>> \notin {"remove"} \X (E \ D)
  OBVIOUS
<1> QED
  BY <1>1, <1>2, <1>3

LEMMA VisitCares ==
    ASSUME CareInv, ~Settling, NEW w \in Workers, NEW o \in worker[w].left, Visit(w, o)
    PROVE  Handled' /\ LocalsFit'
<1> DEFINE desired == Desired(o, worker[w].aliases)
           todo == ({"remove"} \X (synced[o] \ desired)) \cup ({"set"} \X desired)
           visited == [worker[w] EXCEPT !.left = @ \ {o}]
<1>1. Running(w) /\ worker[w].stage = "visit"
  BY DEF Visit, Works, Running
<1>2. /\ worker[w] \in Locals /\ worker[w].aliases = Merged(runtimes)
      /\ worker[w].left \subseteq runtimes /\ runtimes \subseteq Objects
      /\ \A b \in (Loaded \cap up) \ gaveUp : \A r \in Wanted(b) :
            Done(b, r) \/ Handles(w, b, r)
  BY <1>1, WorkerKnows
<1>3. desired = Wanted(BridgeOf(o)) /\ o \in runtimes
  BY <1>2 DEF Desired, Wanted
<1>4. /\ \A r \in desired : <<"set", r>> \in todo /\ <<"remove", r>> \notin todo
      /\ todo = {} => desired = {}
  BY CommandSet
<1>5. /\ visited \in Locals /\ visited.stage = "visit"
      /\ visited.left = worker[w].left \ {o} /\ visited.pending = worker[w].pending
      /\ visited.aliases = worker[w].aliases
  BY <1>1, <1>2 DEF Locals
<1>6. UNCHANGED <<options, runtimes, up, flow, stored>>
  BY DEF Visit
<1>7. \A b, r : Done(b, r)' <=> Done(b, r)
  BY <1>6 DEF Done, Dialog
<1>8. worker \in [Workers -> Locals]
  BY DEF CareInv, WorkInv, TypeInv, TypeOK
<1> HIDE DEF desired, todo, visited
<1>9. CASE /\ BridgeOf(o) \notin up /\ UNCHANGED gaveUp
           /\ Becomes(w, [visited EXCEPT !.pending = @ \cup {BridgeOf(o)}])
  <2> DEFINE n == [visited EXCEPT !.pending = @ \cup {BridgeOf(o)}]
  <2>1. /\ n.stage = "visit" /\ n.left = worker[w].left \ {o}
        /\ n.pending = worker[w].pending \cup {BridgeOf(o)} /\ n.aliases = worker[w].aliases
    BY <1>5 DEF Locals
  <2> HIDE DEF n
  <2>2. worker' = [worker EXCEPT ![w] = n] /\ worker'[w] = n
    BY <1>8, <1>9 DEF Becomes, n
  <2>3. \A b \in (Loaded \cap up) \ gaveUp' : \A r \in Wanted(b) :
           Done(b, r)' \/ Handles(w, b, r)'
    BY <1>1, <1>2, <1>7, <1>9, <2>1, <2>2 DEF Handles
  <2> QED
    BY <1>1, <1>6, <2>1, <2>2, <2>3, WorkCares
<1>10. CASE /\ UNCHANGED gaveUp
            /\ Becomes(w, [visited EXCEPT !.stage = "command", !.at = o,
                                          !.todo = todo, !.desired = desired])
  <2> DEFINE n == [visited EXCEPT !.stage = "command", !.at = o,
                                  !.todo = todo, !.desired = desired]
  <2>1. /\ n.stage = "command" /\ n.left = worker[w].left \ {o} /\ n.at = o
        /\ n.pending = worker[w].pending /\ n.aliases = worker[w].aliases
        /\ n.todo = todo /\ n.desired = desired
    BY <1>5 DEF Locals
  <2> HIDE DEF n
  <2>2. worker' = [worker EXCEPT ![w] = n] /\ worker'[w] = n
    BY <1>8, <1>10 DEF Becomes, n
  <2>3. \A b \in (Loaded \cap up) \ gaveUp' : \A r \in Wanted(b) :
           Done(b, r)' \/ Handles(w, b, r)'
    BY <1>1, <1>2, <1>3, <1>4, <1>7, <1>10, <2>1, <2>2 DEF Handles
  <2>4. Wanted(BridgeOf(o))' = Wanted(BridgeOf(o))
    BY <1>6 DEF Wanted, Merged
  <2>5. CommandFits(w)'
    BY <1>3, <1>4, <1>6, <2>1, <2>2, <2>4 DEF CommandFits
  <2> QED
    BY <1>1, <1>6, <2>1, <2>2, <2>3, <2>5, WorkCares
<1>11. CASE todo = {} /\ Becomes(w, visited) /\ Projected(o, desired)
  <2>1. worker' = [worker EXCEPT ![w] = visited] /\ worker'[w] = visited
    BY <1>8, <1>11 DEF Becomes
  <2>2. \A b \in (Loaded \cap up) \ gaveUp' : \A r \in Wanted(b) :
           Done(b, r)' \/ Handles(w, b, r)'
    <3> SUFFICES ASSUME NEW b \in (Loaded \cap up) \ gaveUp', NEW r \in Wanted(b), ~Done(b, r)'
                 PROVE  Handles(w, b, r)'
      OBVIOUS
    <3>1. b # BridgeOf(o)
      BY <1>3, <1>4, <1>11
    <3>2. b \notin gaveUp
      BY <1>11, <3>1 DEF Projected
    <3> QED
      BY <1>1, <1>2, <1>5, <1>7, <2>1, <3>1, <3>2 DEF Handles
  <2> QED
    BY <1>1, <1>5, <1>6, <2>1, <2>2, WorkCares
<1> QED
  BY <1>9, <1>10, <1>11 DEF Visit, desired, todo, visited

\* A command of a worker that knows what is wanted takes no wanted group away.
LEMMA ExecutedKeeps ==
    ASSUME CareInv, ~Settling, NEW w \in Workers, Running(w), worker[w].stage = "command",
           NEW c \in NextCommands(w), Executed(BridgeOf(worker[w].at), c), UNCHANGED flow
    PROVE  \A b \in Bridges : \A r \in Wanted(b) : Done(b, r) => Done(b, r)'
<1>1. CommandFits(w) /\ runtimes \subseteq Objects
  BY WorkerKnows
<1>2. c \in worker[w].todo /\ c[1] \in {"remove", "set"} /\ c[2] \in Remotes /\ c = <<c[1], c[2]>>
  BY CommandsFields DEF CareInv, WorkInv
<1>3. stored \in [Bridges -> SUBSET Remotes]
  BY DEF CareInv, WorkInv, TypeInv, TypeOK
<1> SUFFICES ASSUME NEW b \in Bridges, NEW r \in Wanted(b), r \in stored[b]
             PROVE  r \in stored'[b]
  BY DEF Done, Dialog
<1>4. CASE b = BridgeOf(worker[w].at)
  <2>1. c # <<"remove", r>>
    BY <1>1, <1>2, <1>4 DEF CommandFits
  <2>2. c[1] = "remove" => c[2] # r
    BY <1>2, <2>1
  <2> QED
    BY <1>2, <1>3, <1>4, <2>2 DEF Executed
<1>5. CASE b # BridgeOf(worker[w].at)
  BY <1>3, <1>5 DEF Executed
<1> QED
  BY <1>4, <1>5

LEMMA AnsweredCares ==
    ASSUME CareInv, ~Settling, NEW w \in Workers, Answered(w)
    PROVE  Handled' /\ LocalsFit'
<1>0. PICK o, B : o = worker[w].at /\ B = BridgeOf(o)
  OBVIOUS
<1>1. Running(w) /\ worker[w].stage = "command"
  BY DEF Answered, Works, Running
<1>2. /\ worker[w] \in Locals /\ worker[w].left \subseteq runtimes
      /\ CommandFits(w) /\ runtimes \subseteq Objects
      /\ \A b \in (Loaded \cap up) \ gaveUp : \A r \in Wanted(b) :
            Done(b, r) \/ Handles(w, b, r)
  BY <1>1, WorkerKnows
<1>3. PICK c \in NextCommands(w) :
         /\ Executed(B, c)
         /\ IF worker[w].todo = {c}
            THEN Becomes(w, Back(w)) /\ Projected(o, worker[w].desired)
            ELSE /\ Becomes(w, [worker[w] EXCEPT !.todo = @ \ {c}])
                 /\ UNCHANGED <<synced, unsaved, gaveUp>>
  BY <1>0 DEF Answered
<1>4. UNCHANGED <<options, runtimes, up, flow>>
  BY DEF Answered
<1>5. \A b \in Bridges : \A r \in Wanted(b) : Done(b, r) => Done(b, r)'
  BY <1>0, <1>1, <1>3, <1>4, ExecutedKeeps
<1>6. c \in worker[w].todo /\ c[1] \in {"remove", "set"} /\ c[2] \in Remotes /\ c = <<c[1], c[2]>>
  BY <1>3, CommandsFields DEF CareInv, WorkInv
<1>7. /\ worker \in [Workers -> Locals] /\ B \in Bridges /\ Loaded \subseteq Bridges
      /\ stored \in [Bridges -> SUBSET Remotes]
  BY <1>0, <1>2, ObjectBridge DEF CareInv, WorkInv, TypeInv, TypeOK, CommandFits, Loaded
<1>8. \A r : c = <<"set", r>> => r \in stored'[B]
  BY <1>3, <1>6, <1>7 DEF Executed
<1>9. \A r \in Wanted(B) : Done(B, r)' \/ <<"set", r>> \in worker[w].todo \ {c}
  <2> TAKE r \in Wanted(B)
  <2>1. Done(B, r) \/ <<"set", r>> \in worker[w].todo
    BY <1>0, <1>2 DEF CommandFits
  <2>2. c = <<"set", r>> => Done(B, r)'
    BY <1>8 DEF Done
  <2> QED
    BY <1>5, <1>7, <2>1, <2>2
<1>10. CASE worker[w].todo = {c}
  <2> DEFINE n == Back(w)
  <2>1. n.stage = "visit" /\ n.left = worker[w].left /\ n.pending = worker[w].pending
        /\ n.aliases = worker[w].aliases
    BY <1>2 DEF Back, Locals
  <2> HIDE DEF n
  <2>2. worker' = [worker EXCEPT ![w] = n] /\ worker'[w] = n
    BY <1>3, <1>7, <1>10 DEF Becomes, n
  <2>3. gaveUp' = gaveUp \ {B}
    BY <1>0, <1>3, <1>10 DEF Projected
  <2>4. \A b \in (Loaded \cap up) \ gaveUp' : \A r \in Wanted(b) :
           Done(b, r)' \/ Handles(w, b, r)'
    <3> SUFFICES ASSUME NEW b \in (Loaded \cap up) \ gaveUp', NEW r \in Wanted(b)
                 PROVE  Done(b, r)' \/ Handles(w, b, r)'
      OBVIOUS
    <3>1. CASE b = B
      BY <1>9, <1>10, <3>1
    <3>2. CASE b # B
      <4>1. Done(b, r) \/ Handles(w, b, r)
        BY <1>2, <2>3, <3>2
      <4> QED
        BY <1>0, <1>5, <1>7, <2>1, <2>2, <3>2, <4>1 DEF Handles
    <3> QED
      BY <3>1, <3>2
  <2> QED
    BY <1>1, <1>4, <2>1, <2>2, <2>4, WorkCares
<1>11. CASE worker[w].todo # {c}
  <2> DEFINE n == [worker[w] EXCEPT !.todo = @ \ {c}]
  <2>1. /\ n.stage = "command" /\ n.left = worker[w].left /\ n.pending = worker[w].pending
        /\ n.aliases = worker[w].aliases /\ n.at = o /\ n.desired = worker[w].desired
        /\ n.todo = worker[w].todo \ {c}
    BY <1>0, <1>1, <1>2 DEF Locals
  <2> HIDE DEF n
  <2>2. worker' = [worker EXCEPT ![w] = n] /\ worker'[w] = n
    BY <1>3, <1>7, <1>11 DEF Becomes, n
  <2>3. gaveUp' = gaveUp
    BY <1>3, <1>11
  <2>4. \A b \in (Loaded \cap up) \ gaveUp' : \A r \in Wanted(b) :
           Done(b, r)' \/ Handles(w, b, r)'
    <3> SUFFICES ASSUME NEW b \in (Loaded \cap up) \ gaveUp', NEW r \in Wanted(b)
                 PROVE  Done(b, r)' \/ Handles(w, b, r)'
      OBVIOUS
    <3>1. CASE b = B
      BY <1>0, <1>9, <2>1, <2>2, <3>1 DEF Handles
    <3>2. CASE b # B
      <4>1. Done(b, r) \/ Handles(w, b, r)
        BY <1>2, <2>3
      <4> QED
        BY <1>0, <1>5, <1>7, <2>1, <2>2, <3>2, <4>1 DEF Handles
    <3> QED
      BY <3>1, <3>2
  <2>5. Wanted(B)' = Wanted(B)
    BY <1>4 DEF Wanted, Merged
  <2>6. CommandFits(w)'
    BY <1>0, <1>2, <1>4, <1>9, <2>1, <2>2, <2>5 DEF CommandFits
  <2> QED
    BY <1>1, <1>4, <2>1, <2>2, <2>4, <2>6, WorkCares
<1> QED
  BY <1>10, <1>11

LEMMA UnansweredCares ==
    ASSUME CareInv, ~Settling, NEW w \in Workers, Unanswered(w)
    PROVE  Handled' /\ LocalsFit'
<1>0. PICK B : B = BridgeOf(worker[w].at)
  OBVIOUS
<1> DEFINE n == [Back(w) EXCEPT !.pending = @ \cup {B}]
<1>1. Running(w) /\ worker[w].stage = "command"
  BY DEF Unanswered, Works, Running
<1>2. /\ worker[w] \in Locals /\ worker[w].left \subseteq runtimes
      /\ runtimes \subseteq Objects
      /\ \A b \in (Loaded \cap up) \ gaveUp : \A r \in Wanted(b) :
            Done(b, r) \/ Handles(w, b, r)
  BY <1>1, WorkerKnows
<1>3. UNCHANGED <<options, runtimes, up, flow, gaveUp>>
  BY DEF Unanswered
<1>4. \A b \in Bridges : \A r \in Wanted(b) : Done(b, r) => Done(b, r)'
  <2>1. CASE UNCHANGED stored
    BY <1>3, <2>1 DEF Done, Dialog
  <2>2. ASSUME NEW c \in NextCommands(w), Executed(B, c)
        PROVE  \A b \in Bridges : \A r \in Wanted(b) : Done(b, r) => Done(b, r)'
    BY <1>0, <1>1, <1>3, <2>2, ExecutedKeeps
  <2> QED
    BY <1>0, <2>1, <2>2 DEF Unanswered
<1>5. worker \in [Workers -> Locals] /\ Loaded \subseteq Bridges
  BY <1>2, ObjectBridge DEF CareInv, WorkInv, TypeInv, TypeOK, Loaded
<1>6. n.stage = "visit" /\ n.left = worker[w].left /\ n.pending = worker[w].pending \cup {B}
      /\ n.aliases = worker[w].aliases
  <2>1. Back(w) \in Locals
    BY <1>2 DEF Back, Locals
  <2>2. Back(w).stage = "visit" /\ Back(w).left = worker[w].left
        /\ Back(w).pending = worker[w].pending /\ Back(w).aliases = worker[w].aliases
    BY <1>2 DEF Back, Locals
  <2> QED
    BY <2>1, <2>2 DEF Locals
<1>7. Becomes(w, n)
  BY <1>0 DEF Unanswered
<1> HIDE DEF n
<1>8. worker' = [worker EXCEPT ![w] = n] /\ worker'[w] = n
  BY <1>5, <1>7 DEF Becomes
<1>9. \A b \in (Loaded \cap up) \ gaveUp' : \A r \in Wanted(b) :
         Done(b, r)' \/ Handles(w, b, r)'
  <2> SUFFICES ASSUME NEW b \in (Loaded \cap up) \ gaveUp, NEW r \in Wanted(b)
               PROVE  Done(b, r)' \/ Handles(w, b, r)'
    BY <1>3
  <2>1. Done(b, r) \/ Handles(w, b, r)
    BY <1>2
  <2> QED
    BY <1>0, <1>4, <1>5, <1>6, <1>8, <2>1 DEF Handles
<1> QED
  BY <1>1, <1>3, <1>6, <1>8, <1>9, WorkCares

LEMMA WorkerStepCares ==
    ASSUME CareInv, WorkInv', NEW w \in Workers, WorkerStep(w), ~Settling'
    PROVE  Handled' /\ LocalsFit'
<1>1. UNCHANGED <<options, reloading, runtimes, up, flow>> /\ runtimes \subseteq Objects
  BY DEF WorkerStep, Visit, Answered, Unanswered, Synchronized, Retry, Wake, GiveUp, Cancelled,
         CareInv, WorkInv, TypeInv, TypeOK
<1>2. reloading = {}
  BY <1>1 DEF Settling
<1>3. ASSUME ~worker[w].cancelled, Running(w), ~requested
      PROVE  ~Settling
  <2>1. \A b \in Bridges : unloading[b] = None
    BY <1>3, NothingUnloads DEF CareInv
  <2> QED
    BY <1>2, <1>3, <2>1 DEF Settling
<1>4. ASSUME ~worker[w].cancelled, Running(w), UNCHANGED <<requested, current>>
      PROVE  ~Settling
  BY <1>2, <1>3, <1>4, OnlyWorker DEF Settling, CareInv
<1>5. ASSUME Running(w), worker' = [worker EXCEPT ![w] = Begin(runtimes, Bridges, 0)]
      PROVE  Handled' /\ LocalsFit'
  BY <1>1, <1>5, OnlyWorker, BeginAllCares DEF CareInv
<1>6. ASSUME NEW stage, Works(w, stage), stage # "none"
      PROVE  Running(w) /\ ~worker[w].cancelled /\ worker[w].stage = stage
  BY <1>6 DEF Works, Running
<1>7. CASE \E o \in worker[w].left : Visit(w, o)
  BY <1>4, <1>6, <1>7, VisitCares DEF Visit, Becomes
<1>8. CASE Answered(w)
  BY <1>4, <1>6, <1>8, AnsweredCares DEF Answered, Becomes
<1>9. CASE Unanswered(w)
  BY <1>4, <1>6, <1>9, UnansweredCares DEF Unanswered, Becomes
<1>10. ASSUME Running(w), ~worker[w].cancelled, End(w), worker[w].stage = "visit",
              worker[w].left = {}, UNCHANGED stored,
              gaveUp' = gaveUp \cup worker[w].pending
       PROVE  Handled' /\ LocalsFit'
  <2>1. CASE requested /\ runtimes # {}
    BY <1>5, <1>10, <2>1 DEF End
  <2>2. CASE runtimes = {} /\ requested
    <3>1. current' = None
      BY <1>10, <2>2 DEF End
    <3>2. \A v \in Workers : ~Running(v)'
      BY <3>1, NoneIsNoValue DEF NoneIsNoValue, WorkInv, RunsAsCurrent
    <3> QED
      BY <1>1, <2>2, <3>2, NothingLoaded
  <2>3. CASE ~requested
    <3>1. current' = None
      BY <1>10, <2>3 DEF End
    <3>2. \A v \in Workers : ~Running(v)'
      BY <3>1, NoneIsNoValue DEF NoneIsNoValue, WorkInv, RunsAsCurrent
    <3>3. \A b \in (Loaded \cap up) \ gaveUp : \A r \in Wanted(b) : Done(b, r) \/ Handles(w, b, r)
      BY <1>3, <1>10, <2>3, WorkerKnows
    <3>4. \A b \in (Loaded \cap up) \ gaveUp' : \A r \in Wanted(b) : Done(b, r)
      BY <1>10, <3>3 DEF Handles
    <3>5. Loaded' = Loaded /\ (\A b : Wanted(b)' = Wanted(b)) /\ \A b, r : Done(b, r)' <=> Done(b, r)
      BY <1>1, <1>10 DEF Loaded, Wanted, Merged, Done, Dialog
    <3>6. Handled'
      BY <1>1, <3>4, <3>5 DEF Handled
    <3> QED
      BY <3>2, <3>6 DEF LocalsFit
  <2> QED
    BY <2>1, <2>2, <2>3
<1>11. CASE Synchronized(w)
  <2>1. /\ Running(w) /\ ~worker[w].cancelled /\ worker[w].stage = "visit"
        /\ worker[w].left = {} /\ worker[w].pending = {} /\ UNCHANGED <<stored, gaveUp>>
    BY <1>6, <1>11 DEF Synchronized, AllVisited
  <2>2. CASE requested
    BY <1>5, <1>11, <2>1, <2>2 DEF Synchronized
  <2>3. CASE ~requested
    BY <1>10, <1>11, <2>1, <2>3 DEF Synchronized
  <2> QED
    BY <2>2, <2>3
<1>12. CASE GiveUp(w)
  BY <1>6, <1>10, <1>12 DEF GiveUp, AllVisited
<1>13. CASE Retry(w)
  <2>1. /\ Running(w) /\ ~worker[w].cancelled /\ worker[w].stage = "visit"
        /\ worker[w].left = {} /\ UNCHANGED <<stored, gaveUp>>
    BY <1>6, <1>13 DEF Retry, AllVisited
  <2>2. ~Settling
    BY <1>4, <1>13, <2>1 DEF Retry, Becomes
  <2>3. /\ worker[w] \in Locals
        /\ \A b \in (Loaded \cap up) \ gaveUp : \A r \in Wanted(b) : Done(b, r) \/ Handles(w, b, r)
    BY <2>1, <2>2, WorkerKnows
  <2> DEFINE n == [worker[w] EXCEPT !.stage = "sleep", !.retry = @ + 1]
  <2>4. /\ n.stage = "sleep" /\ n.left = {} /\ n.pending = worker[w].pending
        /\ n.aliases = worker[w].aliases
    BY <2>1, <2>3 DEF Locals
  <2>5. Becomes(w, n)
    BY <1>13 DEF Retry
  <2> HIDE DEF n
  <2>6. worker' = [worker EXCEPT ![w] = n] /\ worker'[w] = n
    BY <2>5 DEF Becomes, CareInv, WorkInv, TypeInv, TypeOK
  <2>7. \A b \in (Loaded \cap up) \ gaveUp' : \A r \in Wanted(b) :
           Done(b, r)' \/ Handles(w, b, r)'
    BY <1>1, <2>1, <2>3, <2>4, <2>6 DEF Handles, Done, Dialog
  <2> QED
    BY <1>1, <2>1, <2>2, <2>4, <2>6, <2>7, WorkCares
<1>14. CASE Wake(w)
  <2>1. Running(w) /\ ~worker[w].cancelled /\ worker[w].stage = "sleep" /\ UNCHANGED <<stored, gaveUp>>
    BY <1>6, <1>14 DEF Wake
  <2>2. CASE requested
    BY <1>5, <1>14, <2>1, <2>2 DEF Wake
  <2>3. CASE ~requested
    <3>1. worker' = [worker EXCEPT ![w] = Begin(runtimes, worker[w].pending, worker[w].retry)]
      BY <1>14, <2>3 DEF Wake
    <3>2. ~Settling
      BY <1>3, <2>1, <2>3
    <3>3. /\ worker[w] \in Locals /\ worker[w].left = {}
          /\ \A b \in (Loaded \cap up) \ gaveUp : \A r \in Wanted(b) : Done(b, r) \/ Handles(w, b, r)
      BY <2>1, <3>2, WorkerKnows
    <3>4. \A b \in (Loaded \cap up) \ gaveUp : \A r \in Wanted(b) :
             Done(b, r) \/ b \in worker[w].pending
      BY <2>1, <3>3 DEF Handles
    <3>5. Loaded' = Loaded /\ (\A b : Wanted(b)' = Wanted(b)) /\ \A b, r : Done(b, r)' <=> Done(b, r)
      BY <1>1, <2>1 DEF Loaded, Wanted, Merged, Done, Dialog
    <3>6. PICK targets, k : targets = worker[w].pending /\ k = worker[w].retry
      OBVIOUS
    <3>7. k \in 0 .. MaxRetries
      BY <3>3, <3>6, LocalsFields
    <3>8. worker' = [worker EXCEPT ![w] = Begin(runtimes', targets, k)]
      BY <1>1, <3>1, <3>6
    <3>9. \A b \in (Loaded' \cap up') \ gaveUp' : \A r \in Wanted(b)' : Done(b, r)' \/ b \in targets
      BY <1>1, <2>1, <3>4, <3>5, <3>6
    <3>10. runtimes' \subseteq Objects /\ \A v \in Workers : v # w => ~Running(v)
      BY <1>1, <2>1, OnlyWorker DEF CareInv
    <3> QED
      BY <1>1, <3>7, <3>8, <3>9, <3>10, BeginCares DEF CareInv
  <2> QED
    BY <2>2, <2>3
<1>15. CASE Cancelled(w)
  <2>1. worker[w].cancelled /\ End(w)
    BY <1>15 DEF Cancelled
  <2>2. Running(w)
    BY <2>1 DEF CareInv, WorkInv, RunsAsCurrent, UnloadFits
  <2>3. \E b \in Bridges : unloading'[b] = "ended"
    BY <2>1, <2>2, EndFits DEF CareInv
  <2> QED
    BY <2>3, NoneIsNoValue DEF NoneIsNoValue, Settling
<1> QED
  BY <1>7, <1>8, <1>9, <1>11, <1>12, <1>13, <1>14, <1>15 DEF WorkerStep

\* Somebody asks for a synchronization, of what is loaded afterwards.
LEMMA RequestCares ==
    ASSUME CareInv, NEW rts \in SUBSET Objects, rts = runtimes', Request(rts), ~Settling',
           UNCHANGED options
    PROVE  Handled' /\ LocalsFit'
<1>1. current = None
  BY DEF Request, Settling
<1>2. PICK w \in Workers : worker' = [worker EXCEPT ![w] = Begin(rts, Bridges, 0)]
  BY <1>1 DEF Request
<1>3. \A v \in Workers : ~Running(v)
  BY <1>1, NoWorker DEF CareInv
<1> QED
  BY <1>2, <1>3, BeginAllCares DEF CareInv

LEMMA RestartCares ==
    ASSUME CareInv, WorkInv', NEW rts \in SUBSET Objects, rts = runtimes', RestartSync(rts),
           current = None, UNCHANGED options
    PROVE  Handled' /\ LocalsFit'
<1>1. CASE rts = {}
  <2>1. \A v \in Workers : ~Running(v)'
    BY <1>1, NoneIsNoValue DEF NoneIsNoValue, RestartSync, WorkInv, RunsAsCurrent
  <2> QED
    BY <1>1, <2>1, NothingLoaded
<1>2. CASE rts # {}
  <2>1. PICK w \in Workers : worker' = [worker EXCEPT ![w] = Begin(rts, Bridges, 0)]
    BY <1>2 DEF RestartSync
  <2>2. \A v \in Workers : ~Running(v)
    BY NoWorker DEF CareInv
  <2> QED
    BY <2>1, <2>2, BeginAllCares DEF CareInv
<1> QED
  BY <1>1, <1>2

LEMMA UnloadCares ==
    ASSUME CareInv, WorkInv', NEW b \in Bridges, Unload(b) \/ Unloaded(b), ~Settling'
    PROVE  Handled' /\ LocalsFit'
<1>1. CASE Unload(b)
  <2> DEFINE rts == {o \in runtimes : BridgeOf(o) # b}
  <2>1. rts = runtimes' /\ rts \subseteq Objects /\ UNCHANGED options
    BY <1>1 DEF Unload, CareInv, WorkInv, TypeInv, TypeOK
  <2>2. current = None
    <3> SUFFICES ASSUME current # None PROVE FALSE
      OBVIOUS
    <3>1. unloading' = [unloading EXCEPT ![b] = current]
      BY <1>1 DEF Unload
    <3>2. unloading'[b] = current
      BY <3>1 DEF CareInv, WorkInv, TypeInv, TypeOK
    <3> QED
      BY <3>2 DEF Settling
  <2>3. RestartSync(rts)
    BY <1>1, <2>2 DEF Unload
  <2> HIDE DEF rts
  <2> QED
    BY <2>1, <2>2, <2>3, RestartCares
<1>2. CASE Unloaded(b)
  <2>1. current = None /\ RestartSync(runtimes) /\ UNCHANGED <<options, runtimes>>
    BY <1>2 DEF Unloaded, CareInv, WorkInv, UnloadFits
  <2> QED
    BY <2>1, RestartCares DEF CareInv, WorkInv, TypeInv, TypeOK
<1> QED
  BY <1>1, <1>2

LEMMA LoadCares ==
    ASSUME CareInv, NEW b \in Bridges, Load(b) \/ Reconnect(b), ~Settling'
    PROVE  Handled' /\ LocalsFit'
<1>1. CASE Load(b)
  <2>1. PICK g \in Generations : /\ runtimes' = runtimes \cup {<<b, g>>}
                                 /\ Request(runtimes \cup {<<b, g>>})
    BY <1>1 DEF Load
  <2>2. runtimes \cup {<<b, g>>} \subseteq Objects
    BY DEF Objects, CareInv, WorkInv, TypeInv, TypeOK
  <2> QED
    BY <1>1, <2>1, <2>2, RequestCares DEF Load
<1>2. CASE Reconnect(b)
  <2>1. CASE b \in Loaded
    BY <1>2, <2>1, RequestCares DEF Reconnect, CareInv, WorkInv, TypeInv, TypeOK
  <2>2. CASE b \notin Loaded
    <3>1. /\ UNCHANGED <<worker, runtimes, gaveUp, requested, current, reloading, unloading,
                         options, stored, flow>>
          /\ up' = up \cup {b}
      BY <1>2, <2>2 DEF Reconnect, alias
    <3>2. ~Settling /\ Merged(runtimes)' = Merged(runtimes)
      BY <3>1 DEF Settling, Merged
    <3>3. \A c \in Bridges : \A r \in Wanted(c) : Done(c, r) => Done(c, r)'
      BY <3>1 DEF Done, Dialog
    <3> QED
      BY <2>2, <3>1, <3>2, <3>3, StaysHandled
  <2> QED
    BY <2>1, <2>2
<1> QED
  BY <1>1, <1>2

LEMMA DialogCares ==
    ASSUME CareInv, ~Settling',
           Dialogs \/ GroupTold \/ GroupLost \/ Removed \/ \E o \in Objects : RemoveAt(o)
    PROVE  Handled' /\ LocalsFit'
<1>1. UNCHANGED <<runtimes, unloading, up, gaveUp, requested, current, worker>>
  BY DEF Dialogs, Edit, Capture, Remove, GroupTold, GroupLost, Removed, RemoveAt
<1>2. reloading \subseteq reloading'
  BY DEF Dialogs, Edit, Capture, Remove, GroupTold, GroupLost, Removed, RemoveAt, SaveDirectory
<1>3. ~Settling /\ reloading' = {}
  BY <1>1, <1>2 DEF Settling
<1>4. ASSUME UNCHANGED options
      PROVE  UNCHANGED Merged(runtimes)
  BY <1>1, <1>4 DEF Merged
<1>5. stored \in [Bridges -> SUBSET Remotes]
  BY DEF CareInv, WorkInv, TypeInv, TypeOK
<1>6. CASE Dialogs
  <2>1. UNCHANGED Merged(runtimes)
    BY <1>1, <1>3, <1>4, <1>6, SavedQuietly DEF Dialogs, Edit, Capture, Remove, CareInv
  <2>2. flow = None /\ UNCHANGED stored
    BY <1>6 DEF Dialogs, Edit, Capture, Remove
  <2>3. \A c \in Bridges : \A r \in Wanted(c) : Done(c, r) => Done(c, r)'
    BY <2>2 DEF Done, Dialog
  <2> QED
    BY <1>1, <1>3, <2>1, <2>3, StaysHandled
<1>7. CASE GroupTold \/ GroupLost
  <2>1. UNCHANGED Merged(runtimes)
    BY <1>1, <1>3, <1>4, <1>7, SavedQuietly DEF GroupTold, GroupLost, CareInv
  <2>2. ~Dialog("remove")
    BY <1>7 DEF GroupTold, GroupLost, Dialog
  <2>3. \A c \in Bridges : stored[c] \subseteq stored'[c]
    BY <1>5, <1>7 DEF GroupTold, GroupLost
  <2>4. \A c \in Bridges : \A r \in Wanted(c) : Done(c, r) => Done(c, r)'
    BY <2>2, <2>3 DEF Done
  <2> QED
    BY <1>1, <1>3, <2>1, <2>4, StaysHandled
<1>8. ASSUME NEW o \in Objects, RemoveAt(o)
      PROVE  Handled' /\ LocalsFit'
  <2>1. UNCHANGED Merged(runtimes)
    BY <1>4, <1>8 DEF RemoveAt
  <2>2. flow \in Flows /\ Dialog("remove") /\ flow' = [flow EXCEPT !.left = @ \ {o}]
    BY <1>8, FlowFields DEF RemoveAt, Dialog, CareInv, WorkInv, TypeInv
  <2>3. flow' \in Flows /\ flow'.kind = flow.kind /\ flow'.remote = flow.remote
    BY <2>2 DEF Flows
  <2>4. Dialog("remove")' /\ flow'.remote = flow.remote
    BY <2>2, <2>3, NoneIsNoValue DEF NoneIsNoValue, Dialog
  <2>5. \A c \in Bridges : stored[c] \ {flow.remote} \subseteq stored'[c]
    BY <1>5, <1>8 DEF RemoveAt
  <2>6. \A c \in Bridges : \A r \in Wanted(c) : Done(c, r) => Done(c, r)'
    BY <2>4, <2>5 DEF Done
  <2> QED
    BY <1>1, <1>3, <2>1, <2>6, StaysHandled
<1>9. CASE Removed
  <2> DEFINE d == [flow.directory EXCEPT ![flow.remote] = {}]
  <2>1. SaveDirectory(flow.by, d) /\ UNCHANGED stored
    BY <1>9 DEF Removed
  <2>2. d[flow.remote] = {}
    BY <1>9, FlowFields DEF Removed, Dialog, Aliases, CareInv, WorkInv, TypeInv
  <2> HIDE DEF d
  <2>3. UNCHANGED Merged(runtimes) /\ \A c \in Loaded : options[c] = d
    BY <1>1, <1>3, <2>1, SavedQuietly DEF CareInv
  <2>4. \A c \in Bridges : flow.remote \notin Wanted(c)
    <3> SUFFICES ASSUME NEW c \in Bridges, flow.remote \in Remotes, c \in Merged(runtimes)[flow.remote]
                 PROVE  FALSE
      BY DEF Wanted
    <3>1. Merged(runtimes)[flow.remote] = UNION {options[BridgeOf(o)][flow.remote] : o \in runtimes}
      BY DEF Merged
    <3>2. \A o \in runtimes : options[BridgeOf(o)][flow.remote] = {}
      BY <2>2, <2>3 DEF Loaded
    <3> QED
      BY <3>1, <3>2
  <2>5. \A c \in Bridges : \A r \in Wanted(c) : Done(c, r) => Done(c, r)'
    BY <2>1, <2>4 DEF Done
  <2> QED
    BY <1>1, <1>3, <2>3, <2>5, StaysHandled
<1> QED
  BY <1>6, <1>7, <1>8, <1>9

LEMMA EventCares ==
    ASSUME CareInv, WorkInv', ~Settling',
           \/ \E b \in Bridges : Disconnect(b)
           \/ \E o \in Objects : Save(o)
           \/ Crash
           \/ UNCHANGED vars
    PROVE  Handled' /\ LocalsFit'
<1>1. CASE Crash
  <2>1. \A v \in Workers : ~Running(v)'
    BY <1>1, NoneIsNoValue DEF NoneIsNoValue, Crash, WorkInv, RunsAsCurrent
  <2> QED
    BY <1>1, <2>1, NothingLoaded DEF Crash
<1>2. CASE \/ \E b \in Bridges : Disconnect(b)
           \/ \E o \in Objects : Save(o)
           \/ UNCHANGED vars
  <2>1. /\ UNCHANGED <<worker, runtimes, gaveUp, requested, current, reloading, unloading,
                       options, stored, flow>>
        /\ up' \subseteq up
    BY <1>2 DEF Disconnect, Save, vars
  <2>2. ~Settling /\ Merged(runtimes)' = Merged(runtimes)
    BY <2>1 DEF Settling, Merged
  <2>3. \A c \in Bridges : \A r \in Wanted(c) : Done(c, r) => Done(c, r)'
    BY <2>1 DEF Done, Dialog
  <2> QED
    BY <2>1, <2>2, <2>3, StaysHandled
<1> QED
  BY <1>1, <1>2

\* Only an entry that has none gets a runtime object.
LEMMA OneObjectStays ==
    ASSUME CareInv, [CalmNext]_vars
    PROVE  OneObject'
<1>1. CASE runtimes' \subseteq runtimes
  BY <1>1 DEF CareInv, OneObject
<1>2. ASSUME NEW b \in Bridges, Load(b)
      PROVE  OneObject'
  <2>1. PICK g \in Generations : runtimes' = runtimes \cup {<<b, g>>}
    BY <1>2 DEF Load
  <2>2. \A o \in runtimes : BridgeOf(o) # b
    BY <1>2 DEF Load, Loaded
  <2>3. BridgeOf(<<b, g>>) = b
    BY DEF BridgeOf
  <2> QED
    BY <2>1, <2>2, <2>3 DEF CareInv, OneObject
<1>3. ASSUME NEW w \in Workers, WorkerStep(w)
      PROVE  runtimes' = runtimes
  BY <1>3 DEF WorkerStep, Visit, Answered, Unanswered, Synchronized, Retry, Wake, GiveUp, Cancelled
<1>4. ASSUME NEW b, CalmUnload(b) \/ Unloaded(b) \/ Disconnect(b) \/ Reconnect(b)
      PROVE  runtimes' \subseteq runtimes
  BY <1>4 DEF CalmUnload, Unload, Unloaded, Disconnect, Reconnect
<1>5. ASSUME NEW o, Save(o) \/ RemoveAt(o)
      PROVE  runtimes' = runtimes
  BY <1>5 DEF Save, RemoveAt
<1>6. ASSUME GroupTold \/ Removed \/ Dialogs \/ GroupLost \/ UNCHANGED vars
      PROVE  runtimes' = runtimes
  BY <1>6 DEF GroupTold, Removed, Dialogs, Edit, Capture, Remove, GroupLost, vars
<1>7. ASSUME Crash
      PROVE  runtimes' = {}
  BY <1>7 DEF Crash
<1> QED
  BY <1>1, <1>2, <1>3, <1>4, <1>5, <1>6, <1>7 DEF CalmNext, CalmProgress, CalmEvents

LEMMA CalmCares ==
    ASSUME CareInv, [CalmNext]_vars
    PROVE  CareInv'
<1>1. WorkInv' /\ OneObject'
  BY CalmWork, OneObjectStays DEF CareInv
<1>2. ASSUME ~Settling'
      PROVE  Handled' /\ LocalsFit'
  <2>1. reloading \subseteq Bridges
    BY DEF CareInv, WorkInv, TypeInv, TypeOK
  <2>2. CASE CalmProgress
    <3>1. ASSUME NEW o \in Objects, Save(o) \/ RemoveAt(o)
          PROVE  Handled' /\ LocalsFit'
      BY <1>1, <1>2, <3>1, EventCares, DialogCares
    <3>2. ASSUME NEW b \in reloading, CalmUnload(b)
          PROVE  Handled' /\ LocalsFit'
      BY <1>1, <1>2, <2>1, <3>2, UnloadCares DEF CalmUnload
    <3>3. ASSUME NEW b \in Bridges, Unloaded(b)
          PROVE  Handled' /\ LocalsFit'
      BY <1>1, <1>2, <3>3, UnloadCares
    <3> QED
      BY <1>1, <1>2, <2>2, <3>1, <3>2, <3>3, WorkerStepCares, DialogCares DEF CalmProgress
  <2>3. CASE Dialogs \/ GroupLost
    BY <1>2, <2>3, DialogCares
  <2>4. CASE CalmEvents
    <3>1. ASSUME NEW b \in Bridges, CalmUnload(b)
          PROVE  Handled' /\ LocalsFit'
      BY <1>1, <1>2, <3>1, UnloadCares DEF CalmUnload
    <3>2. ASSUME NEW b \in Bridges, Load(b) \/ Reconnect(b)
          PROVE  Handled' /\ LocalsFit'
      BY <1>2, <3>2, LoadCares
    <3> QED
      BY <1>1, <1>2, <2>4, <3>1, <3>2, EventCares DEF CalmEvents
  <2>5. CASE UNCHANGED vars
    BY <1>1, <1>2, <2>5, EventCares
  <2> QED
    BY <2>2, <2>3, <2>4, <2>5 DEF CalmNext
<1> QED
  BY <1>1, <1>2 DEF CareInv

LEMMA InitCares == Init => CareInv
<1> SUFFICES ASSUME Init PROVE CareInv
  OBVIOUS
<1>1. WorkInv
  BY InitWork
<1>2. runtimes = {} /\ \A v \in Workers : ~Running(v)
  BY IdleTyped DEF Init, Running
<1>3. OneObject /\ Handled /\ LocalsFit
  BY <1>2 DEF OneObject, Handled, LocalsFit, Loaded
<1> QED
  BY <1>1, <1>3 DEF CareInv

LEMMA CareInvariance == CalmSpec => []CareInv
<1>1. CareInv /\ [CalmNext]_vars => CareInv'
  BY CalmCares
<1> QED
  BY <1>1, InitCares, PTL DEF CalmSpec

\* When everything has settled, a usable bridge answers to every group that has
\* members on it, unless the worker has given up on the bridge.
THEOREM NoGroupIsMissed == CalmSpec => []Converged
<1>1. CareInv => Converged
  <2> SUFFICES ASSUME CareInv, Quiet, NEW b \in (Loaded \cap up) \ gaveUp, NEW r \in Wanted(b)
               PROVE  r \in stored[b]
    BY DEF Converged
  <2>1. current = None
    BY DEF Quiet, CareInv, WorkInv, RunsAsCurrent, TypeInv, TypeOK
  <2>2. ~Settling
    BY <2>1 DEF Quiet, Settling
  <2>3. Done(b, r)
    BY <2>2 DEF Quiet, CareInv, Handled
  <2> QED
    BY <2>3 DEF Quiet, Done, Dialog
<1> QED
  BY <1>1, CareInvariance, PTL

=============================================================================
