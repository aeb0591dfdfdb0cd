--------------------------- MODULE BridgeTransfer ---------------------------
(***************************************************************************)
(* The cross-bridge ownership transfer of coordinator.py, with the options *)
(* flow that starts, resumes and rolls it back (config_flow.py), the       *)
(* journal each bridge's runtime keeps on disk (runtime.py) and the slots  *)
(* of the manager firmware (external).                                     *)
(*                                                                         *)
(* A controller identity (a Somfy rolling code) lives in a slot of one     *)
(* bridge.  A transfer archives it at the source, imports a copy at the    *)
(* destination, activates the copy, erases the source and finalizes the    *)
(* destination, and checkpoints a journal before and after every firmware  *)
(* command.  Any command can be refused, lost, or executed with its reply  *)
(* lost; Home Assistant can die between any two steps.                     *)
(*                                                                         *)
(* Simplifications                                                         *)
(*   - `next_action` is written to the journal and never read: left out.   *)
(*   - A journal write changes memory and disk in one step; the options    *)
(*     of the entries are durable once updated.                            *)
(*   - One step is what happens between two awaits.  A command and its     *)
(*     reply are one step: the runtime's service lock keeps every other    *)
(*     command away from that firmware in between, and what follows the    *)
(*     reply up to the next await runs in the same turn of the event loop. *)
(*     A command whose caller has timed out is not executed later.         *)
(*   - The two options updates that end a transfer happen in one turn and  *)
(*     are one step.                                                       *)
(*   - _rf_lock, which a start holds from STOP to prepare, only keeps      *)
(*     cover commands away, and is left out with them.                     *)
(*   - A backup is the identity it holds; a firmware token is a member of  *)
(*     Tokens that nothing else uses when the firmware draws it.           *)
(***************************************************************************)
CONSTANTS
    Bridges,   \* config entries, each with its manager runtime
    Slots,     \* controller slots of one bridge
    Shutters,  \* permanent shutter identities
    Tasks,     \* options flows and recovery tasks running at the same time
    Tokens,    \* transfer tokens the firmware can draw
    None       \* no token, no backup, no journal, no lock holder

VARIABLES
    fw,            \* firmware: the content of every slot of every bridge
    meta,          \* rows of the entries' options: which slot owns a shutter
    journal,       \* pending_transfer of every runtime
    startLock,     \* holder of _transfer_start_lock
    transferLock,  \* holder of _transfer_lock
    pc,            \* where each task is
    op,            \* what each task is doing: start, resume, rollback, reconcile
    job,           \* each task's local `transfer`
    seen           \* source_state, held across the destination query

vars == <<fw, meta, journal, startLock, transferLock, pc, op, job, seen>>

-----------------------------------------------------------------------------
(* Values *)

Places == Bridges \X Slots
BridgeOf(place) == place[1]

Phases == {"preparing", "prepared", "imported", "activated", "committed",
           "active"}

Transfer == [id : Shutters, src : Places, dst : Places, phase : Phases,
             token : Tokens \cup {None}, backup : Shutters \cup {None}]

SlotStates == [id : Shutters \cup {None}, role : {"none", "source", "destination"},
               phase : {"empty", "active", "archived"},
               token : Tokens \cup {None}]

\* None stands for the absence of each of these values.
ASSUME NoneIsNoValue ==
    None \notin Tokens \cup Shutters \cup Tasks \cup Places \cup Phases
                  \cup Transfer \cup SlotStates

Empty == [id |-> None, role |-> "none", phase |-> "empty", token |-> None]
Active(s) == [id |-> s, role |-> "none", phase |-> "active", token |-> None]
Archived(s, k) == [id |-> s, role |-> "source", phase |-> "archived", token |-> k]
Imported(s, k) == [id |-> s, role |-> "destination", phase |-> "archived", token |-> k]
Activated(s, k) == [id |-> s, role |-> "destination", phase |-> "active", token |-> k]

\* Where a task waits: for a lock, a reply, or a journal to be saved.
Stages == {"idle", "acquire_start", "ensure_empty", "stop_motor", "checkpoint",
           "exchange", "prepared", "acquire_transfer", "query_source",
           "query_destination", "reprepare", "abort", "rollback", "finish"}

Operations == {"none", "start", "resume", "rollback", "reconcile"}

Rows == [id : Shutters, at : Places]

\* Tokens that name no transfer anywhere; a running firmware draws one of them.
TokensInUse ==
    {fw[p].token : p \in Places}
        \cup {journal[b].token : b \in {c \in Bridges : journal[c] # None}}
        \cup {job[t].token : t \in {u \in Tasks : job[u] # None}}
        \cup {seen[t].token : t \in {u \in Tasks : seen[u] # None}}

FreshTokens == Tokens \ TokensInUse

-----------------------------------------------------------------------------
(* The firmware's `transfer` service.  Each operator is enabled when the    *)
(* slot accepts the command and is then its effect.                         *)

FwPrepare(p) ==
    \/ /\ fw[p].role = "source"            \* repeating prepare is convergent
       /\ UNCHANGED fw
    \/ /\ fw[p].id # None
       /\ fw[p] = Active(fw[p].id)
       /\ \E k \in FreshTokens : fw' = [fw EXCEPT ![p] = Archived(fw[p].id, k)]

FwImport(p, id, token) ==
    /\ fw[p] = Empty
    /\ id # None
    /\ fw' = [fw EXCEPT ![p] = Imported(id, token)]

FwActivate(p, token) ==
    /\ fw[p] = Imported(fw[p].id, token)
    /\ fw' = [fw EXCEPT ![p] = Activated(fw[p].id, token)]

FwCommit(p, token) ==
    /\ fw[p] = Archived(fw[p].id, token)
    /\ fw' = [fw EXCEPT ![p] = Empty]

FwFinalize(p, token) ==
    /\ fw[p] = Activated(fw[p].id, token)
    /\ fw' = [fw EXCEPT ![p] = Active(fw[p].id)]

FwAbort(p, token) ==
    /\ fw[p] = Imported(fw[p].id, token)
    /\ fw' = [fw EXCEPT ![p] = Empty]

FwRollback(p, token) ==
    /\ fw[p] = Archived(fw[p].id, token)
    /\ fw' = [fw EXCEPT ![p] = Active(fw[p].id)]

-----------------------------------------------------------------------------
(* Control of a task *)

At(t, stage) == pc[t] = stage

GoTo(t, stage) == pc' = [pc EXCEPT ![t] = stage]

\* An asyncio.Lock is taken without yielding when nobody holds it or waits
\* for it; a released lock goes to a waiter, never to a newcomer.
Free(lock, waiting) == lock = None /\ \A t \in Tasks : pc[t] # waiting

\* Mutant: an error leaves _transfer_lock taken.
FinishedKeepingLock(t) ==
    /\ pc' = [pc EXCEPT ![t] = "idle"]
    /\ job' = [job EXCEPT ![t] = None]
    /\ seen' = [seen EXCEPT ![t] = None]
    /\ startLock' = IF startLock = t THEN None ELSE startLock
    /\ op' = [op EXCEPT ![t] = "none"]
    /\ UNCHANGED transferLock

\* The task returns or raises: `async with` gives back the locks it holds.
Finished(t) ==
    /\ pc' = [pc EXCEPT ![t] = "idle"]
    /\ job' = [job EXCEPT ![t] = None]
    /\ seen' = [seen EXCEPT ![t] = None]
    /\ startLock' = IF startLock = t THEN None ELSE startLock
    /\ transferLock' = IF transferLock = t THEN None ELSE transferLock
    /\ op' = [op EXCEPT ![t] = "none"]

\* ManagerUnavailable or ManagerRejected out of an awaited call, with the
\* command not executed: offline, refused, timed out before it was sent.
Awaiting == {"ensure_empty", "stop_motor", "exchange", "query_source",
             "query_destination", "reprepare", "abort", "rollback", "finish"}

Fail(t) ==
    /\ pc[t] \in Awaiting
    /\ Finished(t)
    /\ UNCHANGED <<fw, meta, journal>>

-----------------------------------------------------------------------------
(* Starting a transfer *)

\* find_shutter: exactly one row claims the shutter, and it is the source's.
SoleOwner(id, bridge) ==
    \E r \in meta : /\ r.id = id
                    /\ BridgeOf(r.at) = bridge
                    /\ \A q \in meta : q.id = id => q = r

\* async_step_move_to_bridge: no journal on this bridge, another destination.
\* A free lock is taken in the same turn; then ownership is checked under it.
SubmitStart(t, row, dst) ==
    /\ At(t, "idle")
    /\ row \in meta
    /\ journal[BridgeOf(row.at)] = None
    /\ BridgeOf(dst) # BridgeOf(row.at)
    /\ op' = [op EXCEPT ![t] = "start"]
    /\ job' = [job EXCEPT ![t] =
                 [id |-> row.id, src |-> row.at, dst |-> dst,
                  phase |-> "preparing", token |-> None, backup |-> None]]
    /\ IF Free(startLock, "acquire_start")
       THEN /\ SoleOwner(row.id, BridgeOf(row.at))
            /\ startLock' = t
            /\ GoTo(t, "ensure_empty")
       ELSE /\ GoTo(t, "acquire_start")
            /\ UNCHANGED startLock
    /\ UNCHANGED <<fw, meta, journal, transferLock, seen>>

AcquireStart(t) ==
    /\ At(t, "acquire_start")
    /\ startLock = None
    /\ SoleOwner(job[t].id, BridgeOf(job[t].src))
    /\ startLock' = t
    /\ GoTo(t, "ensure_empty")
    /\ UNCHANGED <<fw, meta, journal, transferLock, op, job, seen>>

\* duplicate_or_missing_owner: the lock is taken and given back.
RejectStart(t) ==
    /\ At(t, "acquire_start")
    /\ startLock = None
    /\ ~SoleOwner(job[t].id, BridgeOf(job[t].src))
    /\ Finished(t)
    /\ UNCHANGED <<fw, meta, journal>>

EnsureDestinationEmpty(t) ==
    /\ At(t, "ensure_empty")
    /\ fw[job[t].dst].phase = "empty"
    /\ GoTo(t, "stop_motor")
    /\ UNCHANGED <<fw, meta, journal, startLock, transferLock, op, job, seen>>

\* Mutant: the first checkpoint is written after the prepare.
StopMotorThenPrepare(t) ==
    /\ At(t, "stop_motor")
    /\ SoleOwner(job[t].id, BridgeOf(job[t].src))
    /\ fw[job[t].src].phase = "active"
    /\ GoTo(t, "exchange")
    /\ UNCHANGED <<fw, meta, journal, startLock, transferLock, op, job, seen>>

\* STOP has to be accepted before anything is archived; the control path
\* checks the owner again.
StopMotor(t) ==
    /\ At(t, "stop_motor")
    /\ SoleOwner(job[t].id, BridgeOf(job[t].src))
    /\ fw[job[t].src].phase = "active"
    /\ GoTo(t, "checkpoint")
    /\ UNCHANGED <<fw, meta, journal, startLock, transferLock, op, job, seen>>

-----------------------------------------------------------------------------
(* One phase: checkpoint, firmware command, checkpoint of the next phase *)

SetPendingTransfer(j) ==
    journal' = [journal EXCEPT ![BridgeOf(j.src)] = j]

\* Before the command of the phase: after the motor has settled, and again
\* once the checkpoint of the previous phase is saved.
Checkpoint(t) ==
    /\ At(t, "checkpoint")
    /\ SetPendingTransfer(job[t])
    /\ GoTo(t, "exchange")
    /\ UNCHANGED <<fw, meta, startLock, transferLock, op, job, seen>>

\* Mutant: the source is committed before the destination is activated.
ExecuteCommitFirst(j, next) ==
    \/ j.phase = "preparing" /\ next = "prepared"  /\ FwPrepare(j.src)
    \/ j.phase = "prepared"  /\ next = "imported"  /\ FwImport(j.dst, j.backup, j.token)
    \/ j.phase = "imported"  /\ next = "activated" /\ FwCommit(j.src, j.token)
    \/ j.phase = "activated" /\ next = "committed" /\ FwActivate(j.dst, j.token)
    \/ j.phase = "committed" /\ next = "active"    /\ FwFinalize(j.dst, j.token)

\* The command of each phase and the phase its reply leads to.
Execute(j, next) ==
    \/ j.phase = "preparing" /\ next = "prepared"  /\ FwPrepare(j.src)
    \/ j.phase = "prepared"  /\ next = "imported"  /\ FwImport(j.dst, j.backup, j.token)
    \/ j.phase = "imported"  /\ next = "activated" /\ FwActivate(j.dst, j.token)
    \/ j.phase = "activated" /\ next = "committed" /\ FwCommit(j.src, j.token)
    \/ j.phase = "committed" /\ next = "active"    /\ FwFinalize(j.dst, j.token)

\* The same transfer, further on.
Amend(j, phase, token, backup) ==
    [id |-> j.id, src |-> j.src, dst |-> j.dst,
     phase |-> phase, token |-> token, backup |-> backup]

\* What the reply adds: prepare returns the token and publishes the backup.
Replied(j, next) ==
    IF j.phase = "preparing"
    THEN Amend(j, next, fw'[j.src].token, fw'[j.src].id)
    ELSE Amend(j, next, j.token, j.backup)

Learn(t, j) == job' = [job EXCEPT ![t] = j]

\* Mutant: the options are updated as soon as the source is erased.
AfterReplyEarly(t, j) ==
    \/ op[t] = "start" /\ GoTo(t, "prepared")
    \/ op[t] # "start" /\ j.phase = "committed" /\ GoTo(t, "finish")
    \/ op[t] # "start" /\ j.phase # "committed" /\ GoTo(t, "checkpoint")

\* A start has prepared outside _transfer_lock and now goes through resume.
AfterReply(t, j) ==
    \/ op[t] = "start" /\ GoTo(t, "prepared")
    \/ op[t] # "start" /\ j.phase = "active" /\ GoTo(t, "finish")
    \/ op[t] # "start" /\ j.phase # "active" /\ GoTo(t, "checkpoint")

Exchange(t) ==
    /\ At(t, "exchange")
    /\ \E next \in Phases :
          /\ Execute(job[t], next)
          /\ Learn(t, Replied(job[t], next))
          /\ SetPendingTransfer(Replied(job[t], next))
          /\ AfterReply(t, Replied(job[t], next))
    /\ UNCHANGED <<meta, startLock, transferLock, op, seen>>

\* Executed, but the reply is lost, or carries no token or no backup.
ExchangeLost(t) ==
    /\ At(t, "exchange")
    /\ \E next \in Phases : Execute(job[t], next)
    /\ Finished(t)
    /\ UNCHANGED <<meta, journal>>

-----------------------------------------------------------------------------
(* Reconciliation with both firmware journals, under _transfer_lock *)

EnterTransferLock(t) ==
    IF Free(transferLock, "acquire_transfer")
    THEN transferLock' = t /\ GoTo(t, "query_source")
    ELSE UNCHANGED transferLock /\ GoTo(t, "acquire_transfer")

\* The journal is captured when the form is submitted or the recovery task
\* starts, before _transfer_lock is acquired.  A form offers rollback for the
\* phase it showed, which the journal may have left since.
Submit(t, b, operation) ==
    /\ At(t, "idle")
    /\ journal[b] # None
    /\ op' = [op EXCEPT ![t] = operation]
    /\ job' = [job EXCEPT ![t] = journal[b]]
    /\ EnterTransferLock(t)
    /\ UNCHANGED <<fw, meta, journal, startLock, seen>>

\* The end of _async_start_transfer calls async_resume_transfer.
ResumeStart(t) ==
    /\ At(t, "prepared")
    /\ op' = [op EXCEPT ![t] = "resume"]
    /\ EnterTransferLock(t)
    /\ UNCHANGED <<fw, meta, journal, startLock, job, seen>>

AcquireTransfer(t) ==
    /\ At(t, "acquire_transfer")
    /\ transferLock = None
    /\ transferLock' = t
    /\ GoTo(t, "query_source")
    /\ UNCHANGED <<fw, meta, journal, startLock, op, job, seen>>

QuerySource(t) ==
    /\ At(t, "query_source")
    /\ seen' = [seen EXCEPT ![t] = fw[job[t].src]]
    /\ GoTo(t, "query_destination")
    /\ UNCHANGED <<fw, meta, journal, startLock, transferLock, op, job>>

Gone(slot) == slot.role = "none" /\ slot.phase = "empty"

\* Mutant: the source's archived controller is looked at first.
ReconciledSourceFirst(j, source, destination) ==
    IF source.role = "source" THEN "prepared"
    ELSE IF destination.role = "destination" /\ destination.phase = "active"
        THEN "committed"
    ELSE IF destination.role = "none" /\ destination.phase = "active" THEN "active"
    ELSE IF j.phase \in {"preparing", "active"} THEN j.phase
    ELSE None

\* Mutant: any destination journal counts as activated.
ReconciledAnyRole(j, source, destination) ==
    IF destination.role = "destination"
        THEN IF Gone(source) THEN "committed" ELSE "activated"
    ELSE IF destination.phase = "active" /\ Gone(source) THEN "active"
    ELSE IF source.role = "source" THEN "prepared"
    ELSE IF j.phase \in {"preparing", "active"} THEN j.phase
    ELSE None

\* Mutant: an archived source without a destination journal is rejected.
ReconciledNoPrepared(j, source, destination) ==
    IF destination.role = "destination" /\ destination.phase = "active"
        THEN IF Gone(source) THEN "committed" ELSE "activated"
    ELSE IF destination.phase = "active" /\ Gone(source) THEN "active"
    ELSE IF destination.role = "destination" THEN "imported"
    ELSE IF source.role = "none" /\ j.phase \in {"preparing", "active"} THEN j.phase
    ELSE None

\* The phase both readings prove, or the journal's own when they prove none;
\* None is transfer_journal_missing.
ReconciledPhase(j, source, destination) ==
    IF destination.role = "destination" /\ destination.phase = "active"
        THEN IF Gone(source) THEN "committed" ELSE "activated"
    ELSE IF /\ destination.role = "none" /\ destination.phase = "active"
            /\ Gone(source)
        THEN "active"
    ELSE IF destination.role = "destination" /\ destination.phase = "archived"
        THEN "imported"
    ELSE IF source.role = "source" /\ source.phase = "archived"
        THEN "prepared"
    ELSE IF j.phase \in {"preparing", "active"} THEN j.phase
    ELSE None

KnownTokens(j, source, destination) ==
    {j.token, source.token, destination.token} \ {None}

\* Neither transfer_token_mismatch nor transfer_journal_missing.
Acceptable(j, source, destination) ==
    /\ \A k, l \in KnownTokens(j, source, destination) : k = l
    /\ ReconciledPhase(j, source, destination) # None

Reconciled(j, source, destination) ==
    LET tokens == KnownTokens(j, source, destination)
    IN  Amend(j, ReconciledPhase(j, source, destination),
              IF tokens = {} THEN j.token ELSE CHOOSE k \in tokens : TRUE,
              j.backup)

-----------------------------------------------------------------------------
(* What the three operations do with the reconciled transfer *)

RowsOf(id, bridge) == {r \in meta : r.id = id /\ BridgeOf(r.at) = bridge}

\* transfer_metadata_committed
MetadataCommitted(j) ==
    /\ RowsOf(j.id, BridgeOf(j.src)) = {}
    /\ RowsOf(j.id, BridgeOf(j.dst)) = {[id |-> j.id, at |-> j.dst]}

\* Mutant: the journal is dropped before the options are updated.
PublishActive(t, j) ==
    /\ IF j.phase = "active"
       THEN journal' = [journal EXCEPT ![BridgeOf(j.src)] = None]
       ELSE SetPendingTransfer(j)
    /\ Finished(t)
    /\ UNCHANGED meta

\* The end of async_reconcile_runtime_transfer.
Publish(t, j) ==
    /\ IF j.phase = "active" /\ MetadataCommitted(j)
       THEN journal' = [journal EXCEPT ![BridgeOf(j.src)] = None]
       ELSE SetPendingTransfer(j)
    /\ Finished(t)
    /\ UNCHANGED meta

\* _async_finish_bridge_transfer: both entries' options, in one loop turn.
Finish(t, j) ==
    /\ \A r \in meta : r.at = j.dst => r.id = j.id
    /\ meta' = (meta \ (RowsOf(j.id, BridgeOf(j.src))
                          \cup RowsOf(j.id, BridgeOf(j.dst))))
                 \cup {[id |-> j.id, at |-> j.dst]}
    /\ Finished(t)
    /\ UNCHANGED journal

\* async_set_pending_transfer(None) ends a rollback.
Clear(t, j) ==
    /\ journal' = [journal EXCEPT ![BridgeOf(j.src)] = None]
    /\ Finished(t)
    /\ UNCHANGED meta

\* The task goes on with j and waits for another reply.
Await(t, j, stage) ==
    /\ Learn(t, j)
    /\ GoTo(t, stage)
    /\ seen' = [seen EXCEPT ![t] = None]
    /\ UNCHANGED <<meta, startLock, transferLock, op>>

\* An activated transfer goes nowhere: transfer_already_committed.
RollBack(t, j) ==
    \/ j.phase = "preparing" /\ Clear(t, j)
    \/ j.phase = "prepared" /\ Await(t, j, "rollback") /\ UNCHANGED journal
    \/ j.phase = "imported" /\ Await(t, j, "abort") /\ UNCHANGED journal

Resume(t, j) ==
    \/ j.phase = "active" /\ Finish(t, j)
    \/ j.phase # "active" /\ Await(t, j, "exchange") /\ SetPendingTransfer(j)

AfterReconcile(t, j) ==
    \/ op[t] = "resume" /\ Resume(t, j)
    \/ op[t] = "reconcile" /\ Publish(t, j)
    \/ op[t] = "rollback" /\ RollBack(t, j)

\* What is not acceptable leaves only Fail.  A prepared or imported transfer
\* without a backup asks for it again.
QueryDestination(t) ==
    /\ At(t, "query_destination")
    /\ LET destination == fw[job[t].dst]
           j == Reconciled(job[t], seen[t], destination)
       IN  /\ Acceptable(job[t], seen[t], destination)
           /\ IF j.phase \in {"prepared", "imported"} /\ j.backup = None
              THEN Await(t, j, "reprepare") /\ UNCHANGED journal
              ELSE AfterReconcile(t, j)
    /\ UNCHANGED fw

\* The repeated prepare tolerates a missing backup.
Reprepare(t) ==
    /\ At(t, "reprepare")
    /\ FwPrepare(job[t].src)
    /\ \E backup \in {None, fw'[job[t].src].id} :
          AfterReconcile(t, Amend(job[t], job[t].phase,
                                  fw'[job[t].src].token, backup))

ReprepareLost(t) ==
    /\ At(t, "reprepare")
    /\ FwPrepare(job[t].src)
    /\ Finished(t)
    /\ UNCHANGED <<meta, journal>>

Abort(t) ==
    /\ At(t, "abort")
    /\ FwAbort(job[t].dst, job[t].token)
    /\ GoTo(t, "rollback")
    /\ UNCHANGED <<meta, journal, startLock, transferLock, op, job, seen>>

AbortLost(t) ==
    /\ At(t, "abort")
    /\ FwAbort(job[t].dst, job[t].token)
    /\ Finished(t)
    /\ UNCHANGED <<meta, journal>>

Rollback(t) ==
    /\ At(t, "rollback")
    /\ FwRollback(job[t].src, job[t].token)
    /\ Clear(t, job[t])

RollbackLost(t) ==
    /\ At(t, "rollback")
    /\ FwRollback(job[t].src, job[t].token)
    /\ Finished(t)
    /\ UNCHANGED <<meta, journal>>

\* The last checkpoint, phase "active", is saved.
Complete(t) ==
    /\ At(t, "finish")
    /\ Finish(t, job[t])
    /\ UNCHANGED fw

-----------------------------------------------------------------------------
(* The system *)

\* Home Assistant dies: tasks and locks are gone, firmware, options and the
\* journals stay.
Crash ==
    /\ pc' = [t \in Tasks |-> "idle"]
    /\ job' = [t \in Tasks |-> None]
    /\ seen' = [t \in Tasks |-> None]
    /\ op' = [t \in Tasks |-> "none"]
    /\ startLock' = None
    /\ transferLock' = None
    /\ UNCHANGED <<fw, meta, journal>>

\* Every shutter is commissioned in one slot and the options agree.
Init ==
    /\ \E home \in [Shutters -> Places] :
          /\ \A s1, s2 \in Shutters : home[s1] = home[s2] => s1 = s2
          /\ meta = {[id |-> s, at |-> home[s]] : s \in Shutters}
          /\ fw = [p \in Places |->
                     IF \E s \in Shutters : home[s] = p
                     THEN Active(CHOOSE s \in Shutters : home[s] = p)
                     ELSE Empty]
    /\ journal = [b \in Bridges |-> None]
    /\ startLock = None
    /\ transferLock = None
    /\ pc = [t \in Tasks |-> "idle"]
    /\ op = [t \in Tasks |-> "none"]
    /\ job = [t \in Tasks |-> None]
    /\ seen = [t \in Tasks |-> None]

\* What a submitted task does on its own when its calls are answered.
Progress(t) ==
    \/ AcquireStart(t) \/ RejectStart(t)
    \/ EnsureDestinationEmpty(t) \/ StopMotor(t)
    \/ Checkpoint(t) \/ Exchange(t) \/ ResumeStart(t) \/ AcquireTransfer(t)
    \/ QuerySource(t) \/ QueryDestination(t) \/ Reprepare(t)
    \/ Abort(t) \/ Rollback(t) \/ Complete(t)

Interrupted(t) ==
    \/ Fail(t) \/ ExchangeLost(t) \/ ReprepareLost(t)
    \/ AbortLost(t) \/ RollbackLost(t)

Recover(t) ==
    \E b \in Bridges, o \in {"resume", "rollback", "reconcile"} : Submit(t, b, o)

Start(t) == \E row \in meta, dst \in Places : SubmitStart(t, row, dst)

\* The moves that some journal or some open flow is about.
UnderWay == ({journal[b] : b \in Bridges} \cup {job[t] : t \in Tasks}) \ {None}

SameRoute(j, src, dst) == j.src = src /\ j.dst = dst

Apart(j, src, dst) ==
    /\ BridgeOf(j.src) # BridgeOf(src)
    /\ {j.src, j.dst} \cap {src, dst} = {}

\* A user who starts a move only if every other one under way is the same move,
\* submitted twice, or has another source bridge and other slots.
OrderlyStart(t) ==
    \E row \in meta, dst \in Places :
        /\ \A j \in UnderWay : SameRoute(j, row.at, dst) \/ Apart(j, row.at, dst)
        /\ SubmitStart(t, row, dst)

OrderlyStep ==
    \E t \in Tasks : Progress(t) \/ Interrupted(t) \/ Recover(t) \/ OrderlyStart(t)

OrderlyNext == OrderlyStep \/ Crash

Next ==
    \/ \E t \in Tasks : Progress(t) \/ Interrupted(t) \/ Recover(t) \/ Start(t)
    \/ Crash

Spec == Init /\ [][Next]_vars
OrderlySpec == Init /\ [][OrderlyNext]_vars

-----------------------------------------------------------------------------
(* Properties *)

\* Every variable has its type.
TypeOK ==
    /\ fw \in [Places -> SlotStates]
    /\ meta \subseteq Rows
    /\ journal \in [Bridges -> Transfer \cup {None}]
    /\ startLock \in Tasks \cup {None}
    /\ transferLock \in Tasks \cup {None}
    /\ pc \in [Tasks -> Stages]
    /\ op \in [Tasks -> Operations]
    /\ job \in [Tasks -> Transfer \cup {None}]
    /\ seen \in [Tasks -> SlotStates \cup {None}]

\* One controller identity has at most one slot that may transmit, whatever
\* replies are lost and whenever Home Assistant dies (docs, invariant 1).
SingleOwner ==
    \A p, q \in Places :
        /\ fw[p].phase = "active" /\ fw[q].phase = "active"
        /\ fw[p].id = fw[q].id
        => p = q

\* No commit, abort or rollback erases the last usable copy of an identity:
\* some slot holds it that is not a mere import waiting for activation.
IdentityHeld ==
    \A s \in Shutters : \E p \in Places :
        fw[p].id = s /\ fw[p] # Imported(s, fw[p].token)

\* A controller is archived only while the journal of its bridge names it, so
\* that after a restart the user is offered to resume (coordinator.py:693).
ArchivedIsJournaled ==
    \A p \in Places : fw[p].role = "source" =>
        /\ journal[BridgeOf(p)] # None
        /\ journal[BridgeOf(p)].src = p

\* Nobody waits in a circle, and a flow that has ended or raised keeps no lock:
\* who holds _transfer_lock waits for a bridge or the store, who holds
\* _transfer_start_lock for that or for _transfer_lock.
LocksServe ==
    /\ startLock # None => pc[startLock] \notin {"idle", "acquire_start"}
    /\ transferLock # None =>
           pc[transferLock] \notin {"idle", "acquire_start", "prepared", "acquire_transfer"}

Settled == /\ \A t \in Tasks : At(t, "idle")
           /\ \A b \in Bridges : journal[b] = None

\* Once no flow is open and no journal is left, the options name for every
\* shutter one slot, and that slot is its active owner.
MetadataAgrees ==
    Settled => /\ \A s \in Shutters : \E r \in meta : r.id = s
               /\ \A r \in meta : fw[r.at] = Active(r.id)
               /\ \A q, r \in meta : q.id = r.id => q = r

\* "Commit HA metadata only after the destination is the active owner"
\* (config_flow.py:729): a row appears only for the slot that owns the shutter.
RowsFollowOwner ==
    [][\A r \in meta' \ meta : fw[r.at] = Active(r.id)]_vars

\* A reconciliation that is rejected ("transfer_journal_missing") strands nothing:
\* with nothing running, a journal that can neither be continued nor rolled back
\* is of a transfer that was undone, and the shutter is where it was.
RejectedIsUndone ==
    (\A t \in Tasks : At(t, "idle")) =>
        \A b \in Bridges :
            LET j == journal[b]
            IN  j # None /\ ReconciledPhase(j, fw[j.src], fw[j.dst]) = None
                => /\ fw[j.src] = Active(j.id)
                   /\ \A p \in Places \ {j.src} : fw[p].id # j.id

-----------------------------------------------------------------------------
(* The promise: Ownership, with the radio owner and the copies of a shutter *)

Owner(s) ==
    IF \E p \in Places : fw[p].id = s /\ fw[p].phase = "active"
    THEN CHOOSE p \in Places : fw[p].id = s /\ fw[p].phase = "active"
    ELSE None

Copies(s) == {p \in Places : fw[p].id = s}

Promise == INSTANCE Ownership WITH
    Nowhere <- None,
    live <- [s \in Shutters |-> Owner(s)],
    held <- [s \in Shutters |-> Copies(s)]

\* Every step of an orderly system is a step that Ownership allows: silence
\* before a grant, no erasure of the last copy.
KeepsPromise == Promise!Spec

-----------------------------------------------------------------------------
(* Liveness *)

\* A task's own steps are taken: replies, errors and timeouts arrive, and
\* asyncio.Lock serves its waiters in order.
TasksRun ==
    \A t \in Tasks :
        /\ WF_vars(Progress(t) \/ Interrupted(t))
        /\ SF_vars(AcquireStart(t) \/ RejectStart(t))
        /\ SF_vars(AcquireTransfer(t))

\* The user keeps choosing Continue, and each kind of call of a continued
\* transfer that is tried again and again is answered in the end, with the backup.
Continued(t, stage) == op[t] = "resume" /\ At(t, stage) /\ Progress(t)

UserRetries ==
    \A t \in Tasks :
        /\ \A b \in Bridges : SF_vars(Submit(t, b, "resume"))
        /\ \A stage \in {"query_source", "query_destination"} : SF_vars(Continued(t, stage))
        /\ SF_vars(Continued(t, "reprepare") /\ job'[t].backup # None)
        /\ \A p \in Phases \ {"active"} :
              SF_vars(Continued(t, "exchange") /\ job[t].phase = p)

\* Home Assistant stops dying at some point; calls may go on failing.
StaysUp == <>[][OrderlyStep]_vars

RetrySpec == OrderlySpec /\ TasksRun /\ UserRetries /\ StaysUp

\* A controller archived for a move does not stay silent forever: it is erased
\* by the commit or active again after a rollback.
ArchiveEnds ==
    \A p \in Places : fw[p].role = "source" ~> fw[p].role # "source"

=============================================================================
