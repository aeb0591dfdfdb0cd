# A TLA+ model of the Somfy IO manager integration

This directory models the Home Assistant integration under
`custom_components/somfy_io_manager`: the part that owns *state*: who owns a
controller identity, what is journaled, which command is under way, what was
heard on the air. Paths below are relative to that directory; `MODULE!Name` is
a definition of a module here. `PROJECT.json` names the lines behind every
definition.

## 1. The system

| Component | State it keeps | Operations | Talks to |
|---|---|---|---|
| Options flow (`config_flow.py`) | one flow instance per open dialog, its drafts | commission, import, calibrate, move and swap slots, group remotes, **move to bridge, resume, roll back** | runtime, coordinator, config-entry options |
| Coordinator (`coordinator.py`), one per installation | registered runtimes; `_transfer_start_lock`, `_transfer_lock`, `_rf_lock`; observation buckets and caches; the alias worker and its flag | transfer, reconcile, control and relay, observation routing, alias synchronization | every runtime, entities |
| Runtime (`runtime.py`), one per bridge | store: backups, pending attempts, **transfer journal**, synced aliases; service lock; capabilities | `async_call` (command and matching status), checkpoint, remember backup | firmware through ESPHome services and two text entities |
| Entry lifecycle (`__init__.py`) | registered entries, reload listeners | migrate, set up, unload, hydrate remotes, reconcile journals | coordinator, runtime, options |
| Entities (`cover.py`, `sensor.py`, `button.py`, `entity.py`) | displayed state, availability | control requests, subscription to observations | coordinator |
| Pure rules (`multibridge_logic.py`) | none | keys, deduplication rules, target resolution, transfer rules | coordinator |
| Manager firmware (not in this repository) | slots: empty, active, archived, with a role and a token | the `transfer`, `commission`, `control`, `relay`, `observe`, `remote_alias` services | the radio |

They interact through awaited calls (a command and its status event), callbacks
(status events, timers, reload listeners), shared memory (the coordinator, the
options of the entries) and two durable stores that are not written together
(the runtime's store and the options).

What is hard: everything runs in one event loop, so tasks interleave at every
`await`; several flows, the recovery task, the alias worker and the entities
share the coordinator; a firmware command may be refused, lost, or executed with
its reply lost; Home Assistant may die between any two awaits; entries are
reloaded, which cancels workers and creates a new runtime, while older tasks
still hold the previous one.

What makes each component correct:

* *Transfer*: an identity never has two transmitting owners, is never erased
  everywhere, the source is erased only after the destination is active, an
  interrupted move can always be resumed, the options follow the firmware.
* *Calls*: one command at a time per bridge; a result belongs to the command.
* *Aliases*: the projection stored on a bridge converges to the options.
* *Observations*: one event per press and target, the terminal frame of a
  gesture wins over its prefix, the owner's estimator moves once.
* *Relay*: the primary transmits once whatever happens to the secondary; a
  failed relay never repeats a command.
* *Commissioning*: an attempt that may have reached the motor stays resumable.
* *Slots*: options, backups and firmware agree after a move or a swap.
* *Store*: neither a late save nor a task that began before a reload loses the
  journal of a transfer under way, or brings back one that is done with.
* *Cover*: it shows its own transport, and is offline only when that is true.

## 2. Modules

| Module | Models | Used by |
|---|---|---|
| `BridgeTransfer` | the move of a shutter to another bridge: options flow, coordinator, journal, firmware slots | the four below |
| `Ownership` | the abstract promise: silence before a grant, the last copy stays | refinement `BridgeTransfer!KeepsPromise` |
| `BridgeTransferInv`, `BridgeTransferProofs` | the inductive invariants, for TLC and the proofs; their proofs: that no identity is lost, that nobody waits in a circle for the two locks, that an identity has one owner, and the refinement of `Ownership`, and what journals and options tell of the firmware | |
| `MCBridgeTransfer` | symmetry for TLC | the runs of the transfer |
| `AliasSync`, `MCAliasSync` | group remotes: options, projections on the bridges, the background worker | its runs |
| `AliasSyncProofs` | types, one worker at a time, and that no group is missed: invariants and proofs | |
| `Observation`, `MCObservation` | presses of physical remotes, their copies, late and republished ones included, and events; a restart | its runs |
| `ObservationProofs` | that a frame is shown once unless a stale copy arrives, and a press that arrived in time updates every target and moves its estimator once: the invariant and its proof | |
| `Control`, `MCControl` | a cover command: radio lock, relay, and the calls of two runtimes | its run |
| `ControlProofs` | that nobody waits in a circle for the locks of `Control`, that the owner transmits a command at most once, and that a secondary repeats only what was transmitted, and once: invariants and proofs | `ControlOrderProofs` |
| `ControlOrderProofs` | types, one transmitter at a time, answers and results that are true: the invariant of a bridge in order and its proof | |
| `Commissioning`, `MCCommissioning` | the dialogs over the slots of one bridge: add, resume, retry, discard, import, recalibrate, move, swap; the hydration of remotes | its runs |
| `CommissioningProofs` | that a transmitted attempt can be resumed, nothing learned is erased, every row operates its shutter, what was activated is managed and known remotes are recovered: two invariants and their proofs | |
| `JournalStore`, `MCJournalStore` | one transfer's journal and backup across reloads: successive runtime objects of the source, their shared store, the recoveries of either entry | its run |
| `JournalStoreProofs` | that the journal survives, keeps its backup and stays cleared: the invariant and its proof | |
| `ManagedCover`, `MCManagedCover` | the cover entity, the transport it mirrors, the poll for one that is missing | its run |
| `ManagedCoverProofs` | that a cover shows the transport it listens to: its invariant and proof | |

### BridgeTransfer

State: `fw` (a slot's identity, role, phase and token, as `transfer=query`
reports them), `meta` (the options' rows: shutter, bridge and slot), `journal`
(`_pending_transfer` of each runtime, in memory and on disk), `startLock` and
`transferLock` (`_transfer_start_lock`, `_transfer_lock`), and for each task where
it waits (`pc`), its operation (`op`), its local `transfer` dictionary (`job`)
and the `source_state` it holds across the second query (`seen`).

A step is what the event loop runs between two awaits. Start:
`SubmitStart, AcquireStart, EnsureDestinationEmpty, StopMotor, Checkpoint,
Exchange, ResumeStart`. Resume, rollback and recovery share
`Submit, AcquireTransfer, QuerySource, QueryDestination, Reprepare`; then a resume
runs `Checkpoint` and `Exchange` once per phase and `Complete`, a rollback runs
`Abort` and `Rollback`, and the recovery task publishes what it inferred.
`ReconciledPhase` is the if-chain of `_async_reconcile_transfer`, `Execute` the
five commands, `Fw*` the firmware's side of them.

Failures: `Fail` (refused, offline, timed out before execution), the `*Lost`
actions (executed, no usable reply), `Crash` (tasks and locks vanish; firmware,
options and journals stay). Every stage that waits for the firmware can fail.

Simplifications: a command and its reply are one step, because the runtime's
service lock keeps other commands away in between and the code that follows the
reply up to the next await runs in the same turn; a command whose caller timed
out is not executed later; a journal write changes memory and disk together; the
two options updates that end a transfer are one step; a backup is the identity
it holds; `_rf_lock` is left out, it only excludes cover commands; the
`next_action` field is written and never read. The registry changes made by
`_async_finish_bridge_transfer` are not modelled.

`OrderlySpec` restricts the *user*, not the code, and only when a move starts: every
other move under way, by a journal or an open flow, is the same one submitted twice
(a second form may be submitted before the first has written its journal), or has
another source bridge and other slots. Continuing, rolling back, recoveries and the
start-up reconciliation may race each other and the moves at any time. `Spec` has no
such restriction.

### AliasSync

State: `options` (the alias directory every entry lists), `runtimes` (registered
runtime objects, several generations per entry since a reload makes a new one),
`synced`, `unsaved`, `saved` (`_synced_aliases` in memory, a delayed save, and on
disk), `stored` (the firmware's own set), and of the coordinator `requested`,
`current` (`_alias_sync_requested`, `_alias_sync_task`) and the locals of each
worker task in `worker`. `flow` is a dialog that awaits a bridge: one that saves a
group (captured or edited) with the members it was submitted for, or one that
removes a group with the directory it read.

Actions: `Visit, Answered, Unanswered, Synchronized, Retry, Wake, GiveUp,
Cancelled` are the worker between its awaits; `Load, Unload, Unloaded` are
register and `async_unregister`; `Capture` (which extends a known group), `Edit`
(which replaces its members) and `Remove` submit the dialogs, `GroupTold` and
`Removed` save, with the directory read at that moment and the one read at the
beginning respectively, and cause the reloads; `GroupLost, RemoveAt,
RemoveRefused` are the answers of the bridges;
`Save`, `Disconnect`, `Reconnect` and `Crash` are the environment. A group is
reduced to the bridges that have members in it.

### Observation

State: `pending`, `completed`, `terminals` (`_pending_observations` and the two
caches with their expiry), `reports` (copies on their way), `statuses` (the status
entity of every bridge, its last report), `routing` (tasks of
`_async_flush_observation`), `events` and `moves` (what entities and estimators
got). `Press*` is the firmware; `Receive` is the whole of `receive_observation`
(overtaken by a terminal, superseding a prefix, repeated, joining or opening a
bucket), `Flush`, `Deliver`, `Forwarded` and `ForwardFails` are the flush, and
`Tick` lets countdown timers run when none is due. A report may take any time; one that
is lost is one that never arrives. `Reconnect` is a status that becomes unavailable and
then what it was: `_async_status_changed` looks at the new state only, and receives the
observation once more. `Restart` is a new coordinator, which remembers nothing.
`disturbed` and `stale` are bookkeeping: presses with a report that was late, repeated or
merged, a forward that failed or a restart; and those of which a copy arrived that is
older than keys are remembered, or than the restart.

### Control

State: `rfLock`, `serviceLock` (`_rf_lock`, `_service_lock`), per task its
`request`, `stage`, `call` (with `before`, the status when it was sent, and
`got`, the result of its future) and `result`; `status` (the status entity);
the firmware's `inbox`, `radio`, `armed`, `counter` and the `wire` of statuses.
`Send`, `Sent`, `Return`, `Timeout`, `Unavailable` are `async_call`; `Answered`
and `Failed` are what `_async_control_locked` does next, on success and on a
`ManagerError`; `Notice` is the listener; `GuardEnds` the pause after MY.
Capabilities are the constants of a behaviour (`relayed`, `completeAck`), and a
status is named after the command it answers. `stray` is bookkeeping: bridges on
which a command or its answer may have outlived its call.

### Commissioning

State: `fw` (per slot what the firmware has: staged, pair_sent, active, and whether
the remote was heard), `armed`, `paired` (which motors know which identity), `of`
(the shutter an identity was made for); `rows` (the shutters in the options);
`pending`, `unsaved`, `disk` (`_pending` in memory, its delayed save, the store)
and `leftover`, what the runtime replaced by a reload has still to save;
`reloading`; and `flow`, a dialog with `_slot`, `_replacing_slot` and the draft.
`hydrations` are the options that running `_async_hydrate_remote_metadata` tasks
have read. `astray` and `unanswered` are bookkeeping: shutters that were moved in
the firmware alone, and whether a query of the last hydration failed.

A dialog is at a form or at a call. `Submit*` leave a form; `Stage, Discover,
QueryRemote, Arm, Pair, Confirm, Calibrate, SaveActive, QueryResume, Discard,
QueryImport, Move, Swap` are a call's reply and the code up to the next await;
`Fail` is a call that was refused or never executed, the `*Lost` actions one that
was executed without a reply, `Dismiss` a closed form. `Remember` is
`async_remember_pending` and `async_clear_pending`; `Loaded` is what `async_setup`
makes of the store and the uncertain rows; `Save`, `SaveLeftover`, `Reload` and
`Crash` interleave with the dialogs. Every load starts a hydration when a row has
no remote (`Hydrates`); `Hydrate` is its queries, answered or not, and the options
it writes.

`SensibleSpec` restricts the user: a row or an attempt that was left behind in a
slot which has since got the controller of another shutter is not used, and Add is not chosen
for a shutter that has a row, an attempt or a controller. `Spec` does neither: there Add
takes any shutter, and Import any slot, with a row or without.

### JournalStore

`BridgeTransfer` knows one journal per bridge and no runtime objects; here the
protocol is a line of phases and the objects are in detail. State: `fw` (the phase
both firmware journals prove) and `archives` (how often the source was archived: a
token and a backup are the number of their archive); `mem` and `unsaved`
(`_pending_transfer` and the cached backup of every runtime object of the source,
and its scheduled save), `disk`; `registered` and `dest` (the runtimes the
coordinator knows), `reloading`, `moved` (both entries' options name the
destination); `flow`, the dialog with the object it began with; `recoveries`, the
running `async_reconcile_runtime_transfer` with object and journal; `missed`,
bookkeeping.

`SetPending` is `async_set_pending_transfer` (which also cancels the object's
delayed save), `Remember` and `Heard` are `async_remember_backup`, which only the
registered object does. `SubmitStart, Checkpoint, Prepare, Reconcile, Exchange,
Finish` are a move, `SubmitResume, Reconcile, Undo` its continuation or rollback,
`PrepareLost, ReplyLost, Fail` the failures; `LoadSource, LoadDestination` set up an
entry and start a recovery (`Recovers`), which `Recover` and `RecoverFails` end;
`Save`, the unloads and `Crash` come at any time.

### ManagedCover

State: `registry` (the transport of every slot), `states` (of every entity id),
`usable` (`runtime.available`), `slot` (in the options), `cover` (its slot and the
transport it listens to), `shown` (`_attr_*`), `polls` (those that are scheduled) and
`asks` (what the poll in its thread has found out).
`Mirrored` is `_apply_transport_state`, `Bound` `_bind_transport`, `StatusChanged`
`_bridge_changed`, `Changes` `_transport_changed`. `Poll` and `Ask` are
`_wait_for_transport_covers` when its timer calls it: a plain lambda, so Home Assistant
runs it in a thread, and the reload or the next poll it asks for may come when the entry
is unloaded or its transport gone again, or be refused. `Register` gives, renames or takes away a transport,
`Vacate` is the state Home Assistant clears afterwards, `Report` the transport.

## 3. What the runs check

| Run | Specification, instance | Checks |
|---|---|---|
| `promise` | `OrderlySpec`, 2 tasks, 3 bridges of 1 slot, 2 shutters, 2 tokens | `SingleOwner`, `IdentityHeld`, `CommitProved`, `LocksServe`, `KeepsPromise` |
| `settles` | `RetrySpec`, 1 task, 2 bridges of 2 slots, 1 shutter | `ArchivedIsJournaled`, `MetadataAgrees`, `RejectedIsUndone`, `RowsFollowOwner`, `ArchiveEnds` |
| `alias_calm` | `AliasSync!LiveSpec`, 1 entry of 2 generations, 2 workers, 2 retries | `TypeOK`, `Converged`, `WorkerEnds` |
| `alias_edits` | `SteadySpec`, 2 entries, 2 workers, 1 retry | `OneWorker`, `Converged` |
| `observed` | `Observation!Spec`, 2 bridges, 1 shutter, 2 presses or republished statuses | `TypeOK`, `OneEvent`, `UpdatesOnce`, `EstimatorOnce` |
| `control` | `Control!Spec`, 2 tasks, 2 bridges, 1 lost connection | `TypeOK`, `PrimaryOnce`, `RelayExact`, `OneTransmitter`, `OwnAnswer`, `ToldTruth`, `LocksServe` |
| `commissioned` | `Commissioning!SensibleSpec`, 1 dialog, 2 slots, 2 shutters, 2 identities | `TypeOK`, `PairedIsKept`, `NeverErased`, `ConfirmedIsManaged`, `RowsOperate`, `RemotesKnown` |
| `reloads` | `JournalStore!LiveSpec`, 2 objects, 1 archive, 2 recoveries at once | `TypeOK`, `UnderWayIsKnown`, `BackupFits`, `StaysCleared`, `EndsCleared` |
| `mirrors` | `ManagedCover!LiveSpec`, 2 slots, 2 entity ids, 2 polls | `ShowsTransport`, `OfflineIsShown`, `LateTransportIsFollowed` |

Three runs end in a counterexample; each is a disagreement between the code and
what the repository says of it (`PROJECT.json`, "findings"):

* `two_moves`: a second Move form waits for the start lock on a stale check
  and archives the source over the first journal. A rollback then looks at one of
  the two destinations only, and two slots own the identity.
* `unheard_remote`: `_targets_for_remote` passes a generator that
  `resolve_remote_target_ids` reads twice, so that a press of an individual
  remote is not routed unless the owner's own bridge reports it.
* `finished_attempt`: `_save_active` removes the attempt from memory, schedules
  the save in one second and changes the options, which reloads the entry at once:
  the new runtime reads a store that still has the attempt, and the finished
  shutter is offered for Resume.

Limits that the models state and no run refutes or checks:

* `OrderlySpec` keeps the *user* from starting a move to another destination, or from
  the same bridge, while one is under way; without it `SingleOwner` fails
  (`two_moves`). Whatever the user does, a rollback during the `preparing` checkpoint can
  clear the journal of a source archived a moment later, and a left-over `active`
  journal can be believed after the shutter has moved back: `ArchivedIsJournaled` and
  `MetadataAgrees` are checked with one flow at a time, and proved as long as the user
  has no two flows of one move open, whatever recoveries race them (`SoloSpec`). What
  holds of `Spec` as well is proved (section 4).
* When the firmware executes a rollback and its reply is lost, both firmware
  journals are gone and the stored phase is `prepared` or `imported`: every later
  reconciliation raises `transfer_journal_missing`, so the journal can neither be
  continued nor rolled back and blocks the next move of the bridge, although
  `README.md:360` offers to resume. `RejectedIsUndone` shows that nothing else is
  lost: the shutter is back where it was.
* `JournalStore`: `CalmSpec` never reloads the source entry while a prepare may
  still be asked for. Otherwise `UnderWayIsKnown` and `BackupFits` fail. A reload in
  the STOP and settle time before the first checkpoint leaves the checkpoint with
  the old object: the new one has no journal, and its next delayed save writes
  "no transfer" over it. A reload during the prepare leaves the old object deaf: it
  takes the backup of an earlier archive from its cache, and every import of it is
  refused from then on. `EndsCleared` excuses a bridge that does not answer the
  recovery (`missed`): nothing tries again before the next load. So does a Continue
  on an `active` journal whose rows are written already: it changes no options,
  reloads nothing and clears nothing.
* `AliasSync`: `CalmSpec` unloads one entry at a time and lets nobody ask for a
  synchronization between a worker's cancellation and its end. Otherwise
  `OneWorker` fails: an `async_unregister` that has awaited the cancelled worker
  forgets `_alias_sync_task` even when somebody has started a new worker
  meanwhile, and the next request starts a second one. `Converged` says that no group is *missing* on a
  bridge: one stored by a synchronization whose record was never saved may stay.
  A removal writes the directory it read before it awaited the bridges, and so
  undoes what other flows saved meanwhile (the model has one dialog open); a refused removal (`RemoveRefused`) is outside
  `CalmSpec` because it leaves a listed group missing by design.
* `Observation`: `OneEvent` excludes presses of which a copy arrived that is older than
  the two seconds the coordinator remembers keys, or than its last restart (`stale`).
  Without that it fails: nothing bounds the age of a copy, and a bridge that connects
  again gives its last observation once more (`runtime.py:159-164` compares neither the
  old state nor a time), which is then a second event and a second forward, although
  `docs/future-multi-bridge.md` says that a late copy cannot produce one. `UpdatesOnce` and
  `EstimatorOnce` speak of presses whose copies arrive in time and once. An owner's copy
  that arrives after the window closed moves the estimator again; presses whose forwards
  wait may be shown out of order.
* `Control`: a call that times out leaves its command on the bridge. From then on
  the next call of that bridge may take its answer, and the next command may
  overlap it on the air. `OneTransmitter`, `OwnAnswer` and `ToldTruth` exclude
  exactly those bridges (`stray`); `PrimaryOnce`, `RelayExact` and `LocksServe`
  hold without exception.
* `Commissioning`: one dialog at a time. With two, a discard whose state was read
  before the other dialog paired the attempt is sent for a paired controller
  (`NeverErased` then depends on the firmware alone), and the rows of a swap undo
  those written since it read them. A move or swap that the firmware executed
  without a reply, or whose set-up was abandoned, leaves rows that name the wrong
  slot; `RowsOperate` excludes those shutters (`astray`), and `ConfirmedIsManaged`
  too. Attempts are keyed by slot and no identity is compared, hence
  `SensibleSpec`, whose user does not add a shutter that is being set up or managed
  already; the code stops nobody. A lost reply of stage leaves a staged slot without attempt, and
  one of discard an attempt without staged slot, which can be neither resumed nor
  discarded. No dialog is submitted while a hydration runs (`Patient`): the options
  it writes are computed from those it read, and would undo the dialog's; and the
  reload it causes can put a runtime without the attempt under an open dialog.
* `ManagedCover`: nothing listens to the registry. A transport that is renamed or
  registered late is followed from the next status of the bridge on (hence its
  fairness), or from the reload that the poll asks for. The poll has no fairness, since
  what a thread asks of Home Assistant may be refused.

Bounds.

* Transfer: two bridges are what a transfer involves. Two slots allow a second
  destination and a reused slot. Two tasks give every pair of operations a race;
  the proofs cover any number. Two tokens are enough for one live transfer and one
  being forgotten; a firmware that has none left simply does not prepare. Nothing
  counts, so the models are finite. `promise` has three bridges of one slot: a move that
  ends can be followed by one to the third bridge, and the second shutter can move into
  a slot just left. Where the second slot matters (`settles`, `two_moves`) it is
  there; `promise` with two slots per bridge and one shutter was tried as well. Two
  moves that do not touch take four slots, two shutters and two tasks, which is beyond
  a short run: of those TLC has seen the case of one task, and the proofs cover the
  rest. `promise` runs under `OrderlySpec`; for the unrestricted `Spec`
  `IdentityHeld`, `CommitProved` and `LocksServe` are proved.
* AliasSync: one entry suffices for reloads against saves, crashes and offline
  bridges; two for edits that one entry saves for both. `MaxRetries` is 1 or 2
  where the code has five delays: a first, a further and no retry are the cases.
  Two workers are the least that can compete; three entries are what the
  counterexample needs.
* Observation: two presses of up to two frames each, numbered from the last number
  so that every instance crosses the rollover; `SeqMod` is 4 for 2^16, twice the
  presses, so that a number is not reused while it is remembered (an assumption of
  the module). Window and cache keep the order of the code's 0.25 s window and its longer
  cache: one tick and two. A report ages for `MaxDelay` ticks, the length of the cache,
  and is stale from then on, however long it takes. `MaxPresses` bounds presses and
  republished statuses together: two presses, or one and a status that is published
  again. `MaxReports` is 2 reports at a time on their way.
* Control: two tasks are one call and one that competes with it; a relay alone
  occupies both bridges. One lost connection (`MaxDrops`) may come at any point,
  with or without a restart of the bridge.
* Commissioning: two slots, shutters and identities give a move a target and a swap
  its second controller, initial controllers that ESPHome configured included. One
  dialog is open; everything else is unbounded. A person is slower than a delayed
  save (`Patient`), so that an attempt is on disk before the next form is
  submitted; the reload races the save all the same.
* JournalStore: two objects are the registered one and one that tasks still hold; a
  third was tried for the safety properties and changes nothing. One archive is one
  transfer; two (a rollback and a new start) were tried as well. Two recoveries at
  once (`MaxTasks`) are one per entry; a further load waits for one of them.
* ManagedCover: two slots and two ids allow a transport to be renamed, exchanged and
  given to the other slot; one position is enough to be stale. The code polls
  eleven times; `MaxAttempts` is 2: a first and a last one.

Deadlock is checked in the runs of the transfer, of the aliases, of the
commissioning, of the store and of the cover: a user or the environment can always
do something. `observed`, `unheard_remote` and `control` switch it off
because the system does stop there: the presses are used up, or every task
has made its request. That a task cannot be stuck before is `Control!LocksServe`.

Fairness. `TasksRun`: a submitted task's next step is eventually taken or its
call fails (every call has a timeout), and an `asyncio.Lock` serves its waiters
in order (strong fairness of the two acquisitions). `RetrySpec` adds what only
the outside world can give: the user keeps choosing Continue, a call that is
tried again and again is answered in the end, and from some point on only tasks
take steps (`StaysUp`: Home Assistant stops dying). `AliasSync!LiveSpec` asks for
weak fairness of the worker alone: a timer or an answer, or its timeout, comes.
`WorkerEnds` assumes that entries and bridges stop changing; otherwise each
change rightly restarts the worker. `JournalStore!LiveSpec`: tasks go on or fail,
saves are written a second later, an entry that is not loaded is loaded, one whose
options changed is reloaded; `EndsCleared` assumes that restarts and unasked reloads
end. `ManagedCover!LiveSpec`: Home Assistant runs its tasks and timers and clears the
state of removed entities, and the bridge goes on publishing statuses, one per
command at least.

## 4. What is proved

`BridgeTransferProofs`, for any sets of bridges, slots, shutters, tasks and tokens,
from the single assumption `NoneIsNoValue` (the value for "absent" is none of
the others) and for `Spec`, the unrestricted system:

* `Invariance`: `Spec => []IInv`
* `TypeCorrect`, `IdentityNeverLost`, `CommitAfterProof`: its consequences
  `TypeOK`, `IdentityHeld`, `CommitProved`.

Why an invariant is needed: that a commit erases a spare copy is visible only at
the commit, but rests on what the task saw two queries earlier. The argument of
`IInv`: only `FwCommit` erases a usable copy; it is issued only under
`_transfer_lock` (`LockHeld`, `StartPrepares`, `OperationFits`) by a task that has
seen under that same lock the destination activated with its token
(`CommitProved`), which nothing outside the lock can undo; and a token never stands
for two identities (`TokenBinds`, with `BackupsBacked` for the backups in journals
and tasks), so the copy erased at the source is the copy the destination holds.
`SlotShape` says which slots exist at all.

Also in `BridgeTransferProofs`, on top of `Invariance`:

* `NoCircle`: `Spec => []LocksServe`: the holder of `_transfer_lock` waits for no
  lock, the holder of `_transfer_start_lock` at most for `_transfer_lock`, and a
  flow that has ended or raised holds neither. Its invariant `HoldersWork` adds that
  the holder of `_transfer_lock` is not a start any more (`ResumeStart` makes it a
  resume before it asks for the lock), since a start goes on to wait for it.

There too, on top of `Invariance` and for `OrderlySpec`:

* `OwnerInvariance`: `OrderlySpec => [](IInv /\ OwnerInv)`
* `OneOwner`: `OrderlySpec => []SingleOwner`
* `Implements`: `OrderlySpec => KeepsPromise`, the refinement of `Ownership`.

That two slots never transmit with one identity rests on where copies may be at
all (`CopiesFit`): two slots hold an identity only as the archived source and the
destination of one move, with its token. So whoever makes a slot active must know that
the other one is silent or gone, and that is known from an earlier reading: a rollback
has seen or made the destination free (`RollbackProved`), a finalization has seen or
made the source empty (`FinalizeProved`), an import has seen the source archived with
its token (`ImportProved`). These stay true because everything but a start's prepare
happens under `_transfer_lock` (`Informed`), and a prepare only archives an active
slot, which is why the first reading may be one archive behind at the second
(`SourceSeen`). That source and destination are those of *one* move is the part that
needs the orderly user: the journal that names both exists as long as the destination
is not final (`DestinationJournaled`), and two moves that share a slot or a source
bridge are the same (`RoutesFit`). An earlier form of `OrderlySpec`, which asked only
that a waiting move is not continued or rolled back meanwhile, failed here: two forms
of one shutter to different destinations both pass, and with two slots per bridge TLC
finds two owners.

For the refinement `live` is the slot that may transmit and `held` the slots that store
the identity. A prepare is `Quiesce`, an import `Copy`, an activation and a rollback
`Grant`, a commit and an abort `Erase`, a finalization and everything else a
stutter. `SingleOwner` before and after the step makes the owner well defined;
`Copy` and `Grant` need that nobody transmits meanwhile, and `Erase` that another copy
stays, which is `IdentityHeld` after the step.

There too, on top of `OwnerInvariance` and for `SoloSpec`: an orderly user has any
number of flows open, but no two of one move (`Alone`). The recoveries that the runtime
starts by itself (`op = "reconcile"`) are not restricted: any number of them may run for
any bridge, next to each other and next to the flow of the same move.

* `MetaInvariance`: `SoloSpec => [](IInv /\ OwnerInv /\ MetaInv)`
* `ArchivedAreJournaled`, `SettledMetadata`, `RejectionsStrandNothing`: `SoloSpec`
  implies `[]ArchivedIsJournaled`, `[]MetadataAgrees`, `[]RejectedIsUndone`;
* `RowsWaitForOwner`: `SoloSpec => RowsFollowOwner`, an action property;
* `OneFlowIsSolo`: with one task `OrderlySpec` is `SoloSpec`, so that the theorems speak of
  what the run `settles` checks.

Journals, options and firmware are written at different moments, by flows that can end
anywhere, so each of the properties needs to know how far apart the three may be.
`PhaseFits` says it of a journal: a move is at one of six stages, told by where its
shutter's copies are (`AtSource`, `Silenced`, `Copied`, `Granted`, `Erased`, `Arrived`),
and at each the journal has one of two or three phases, since one lost reply, an abort
or a rollback separates them. `Advances` says what each command does to the stage, and
the journal of another move is untouched because it has another shutter and other slots
(`OneMoveEach`, `OthersKept`). With both readings still true a reconciliation finds
exactly the phase of the stage (`ReconciledExact`); where it finds none the shutter is
`AtSource`, which is `RejectedIsUndone`. `RowFits` and `RowsFit` say it of the options:
the row of a moving shutter names the source until the move has `Arrived`, and the row of
a shutter without a journal names its only copy (`Home`). What a flow and a journal know
is kept apart (`JournalsFit`, `FlowsFit`), so a crash, which takes the flows, leaves
nothing that is not described.

Recoveries are what makes this hard, since what one has captured may be out of date.
A recovery only reads and writes the journal (it sends nothing that has an effect), so
of its transfer only that it names a move at some stage is needed (`Staged`), and that
`active` is for good (`MoveFits`). What it reads between its two queries can change in one
way: the flows that send commands do so under the lock the recovery holds, but for a
start, which may archive the source between the two readings (`Carried`). The recovery
then writes `preparing` over the journal of a move that is `Silenced`, which is one of the
phases that stage allows. And the journal it clears at the end is of a move that has
ended, so no open flow still counts on it.

`Alone` restricts the user and is not a fact about the code: with two dialogs of one move
a rollback may clear the journal of a start under way, which is among the limits of
section 3. Nor does the user start a move that touches one a recovery still holds
(`UnderWay` counts what tasks hold): that part of `OrderlySpec` is where a left-over
`active` journal is kept from being believed after the shutter has moved back.

`ManagedCoverProofs`, for any slots, entity ids and positions, from
`AttemptsAreBounded` and `NoneIsNoId` (`None` is no entity id):

* `TypeCorrect`, `TransportIsShown` and `OfflineIsUnavailable`: `Spec` implies
  `[]TypeOK`, `[]ShowsTransport`, `[]OfflineIsShown`.

`ShowsTransport` speaks of a cover that follows the transport of its slot and is
not inductive: a transport can be renamed or moved away under the cover. `MirrorInv`
says that the view agrees with whatever the cover *listens* to. It rests on
`MirroredAgrees`: whatever was shown before, one reading of the transport determines
availability and state, and either the position or that it is kept.

`ControlProofs`, for any number of tasks and lost connections, from
`ControlAssumption` (`None` is neither a task nor a bridge, the two bridges differ):

* `NoCircle`: `Spec => []LocksServe`.

`LocksServe` says where the holder of each lock may be; a task that takes a lock
must be shown to hold no other of its kind. `LockInv` adds the types of the locks
and stages, that a task which is calling has a bridge to call (`Calling`), that the
holder of `_rf_lock` waits for at most a service lock or an answer (`RadioHeld`),
and that a service lock belongs to the very call that is on its way
(`ServiceHeld`). Two service locks are never held at once by a task: `Release`
gives one back before `Continues` takes the next step, on success, on an error and
on a timeout alike.

There too, on top of `LockInv`:

* `OnlyOnce`: `Spec => []PrimaryOnce`.

That a command was transmitted is visible in the firmware long after the call was
sent, when that call may have timed out and the task gone on. `OnceInv` therefore
keeps a `Budget` per task: as long as the coordinator may still command the owner
(`Unissued`: no call yet, the `arm` of a relay, or a command that waits for the
service lock), nothing of that task is in any inbox and nothing was transmitted;
from `Send` on there is one command, in the inbox or transmitted. `ProceedsKeeps`
shows that only a failed or answered `arm` leads to a command for the owner, never
the failure of an offer. The secondary transmits too, and the theorem counts only
the owner: `CallsFit`, `EntityFits` and `NodeFits` say that what a secondary
repeats, wherever its envelope is (call, queue, status on the wire or kept by the
entity), is the frame of a task that has been issued and whose owner is the primary.

On top of `OnceInv`, again in `ControlProofs`:

* `ExactRelay`: `Spec => []RelayExact`.

The firmware repeats a frame when the envelope's relay token is the one it has armed,
and what the coordinator forwards may be the answer of a stale status. `RelayInv`
says that some function `tok` gives every frame *one* token (`Carried`: each call,
command and status with the envelope of a frame has that token), wherever the
envelope is. A token is armed at most once (`Arming`: as long as its `arm` may still
be sent or is queued, it is not armed and was not), and a frame that was repeated has a token
that is spent (`Repeats`), so it cannot be repeated again. A frame gets its token
when its offer is queued; a task offers at most once, by `Budget`. That
the primary has transmitted it before holds because an envelope is made by the
transmission it is about (`OnAir`, `Out`).

`ControlOrderProofs`, on top of `RelayInv`:

* `WellTyped`, `OneAtATime`, `AnswerOfItsOwn`, `TrulyTold`: `Spec` implies
  `[]TypeOK`, `[]OneTransmitter`, `[]OwnAnswer`, `[]ToldTruth`.

All three safety properties except bridges on which something outlived its call, and
rest on what a bridge without such a stray looks like (`InOrder`): at most one
command is on its way through queue, radio, wire and entity, it is the one of the
call that holds the service lock, and that call has seen no other status since it was
sent (`Waiting`). That is why a status without any request id can be taken for the
answer. The one exception is a MY gesture that is acknowledged when it starts: the
call returns while the frame is on the air, and then its task is in the guard time
(`Guarded`) and keeps `_rf_lock`, so the other bridge stays silent and a call for a
group remote (`remote_alias`, which takes no radio lock) finds the inbox and the
wire empty. `Truth` says that every status that acknowledges a command for the owner,
wherever it still is, is about a command that was transmitted; with `InOrder` it is
about the right one, and `Told` follows.

`CommissioningProofs`, for any slots, shutters and identities and one open dialog
(`OneDialog`), from `NoneIsNoValue`, for `Spec` (the run `commissioned` checks
`SensibleSpec`, whose steps are all steps of `Spec`):

* `AttemptsSurvive`, `IdentitiesSurvive` and `CommissioningTyped`: `Spec` implies
  `[]PairedIsKept`, `[]NeverErased`, `[]TypeOK`.

An attempt is on its way to three places at different times: memory, the file, and
whatever a replaced runtime writes over the file later. `AttemptsKept` therefore asks
that a transmitted attempt is in all three. It holds at the transmission because
of `StoreFits`: setting up begins when nothing is left to be saved, reloaded or
hydrated (`Patient`: people are slower than the store), a dialog that is setting up
(`SettingUp`) changes no options, and so at `arm` and at the first `pair` the
attempt is already on disk. That nothing learned is erased rests on `DeviceFits`: an
identity that is only staged was never transmitted (`StagedIsNew`), and only
staged ones are discarded, since nothing happens between the query of
`async_step_resume_attempt` and the discard that could change the slot's state; that
is where one dialog is needed, and `FlowFits` says so of every call of a dialog.

There too, on top of `KeptInv`, for `SensibleSpec`:

* `RowsAreRight`, `ActivatedIsManaged`, `RemotesRecovered`: `SensibleSpec` implies
  `[]RowsOperate`, `[]ConfirmedIsManaged`, `[]RemotesKnown`.

The three are one invariant (`RowInv`), because each step needs the others: a
remote that is heard cannot belong to a row since a current row is of an active slot,
and a lost swap leaves no controller without a row since both slots had theirs
(`HasRow`). `DialogFits` is the heart of it. Nothing is written or loaded while a
dialog is open, so what a swap has read are still the rows (`seen = rows`), and a
hydration writes the rows that are there (`HydrationFits`); the slot of a dialog stays
for the shutter it was opened for (`IsFor`), which is where the user of `SensibleSpec`
is needed; and a dialog that has moved its shutter knows the one row that is wrong
(`MovedFrom`). That a shutter has one controller (`ShuttersFit`) makes that row the
only one. A controller stays managed across a reload or a crash because its attempt was
`Kept` when it was confirmed, or, if it was moved before its row was written,
because its shutter counts as left behind (`astray`) from the moment the dialog ends.

`JournalStoreProofs`, for any number of runtime objects, archives and recoveries, from
`BoundsAreUseful` and `NoneIsNoValue`, for `CalmSpec` (the run `reloads` adds its
fairness):

* `StoreTyped`, `JournalSurvives`, `BackupIsPresent`: `CalmSpec` implies `[]TypeOK`,
  `[]UnderWayIsKnown`, `[]BackupFits`;
* `ClearedForGood`: `CalmSpec => StaysCleared`, an action property.

A journal is lost when an object that does not have it saves late, and a wrong backup
comes from an object that no longer listens. `StoreInv` therefore speaks of the objects
that can still write or be read (`Writers`: the registered one and those with a save
outstanding), which have the journal as long as the transfer is under way (`Known`), and
of the dialogs and recoveries that may still ask for a prepare or a backup, whose
object is the registered one (`AskersListen`: that is what `Calm` gives, and why it is
asked for). A dialog begins when only its own object can have a save outstanding, and
its first checkpoint cancels that one; so nobody else has anything to write before the
controller is archived (`FlowFits`). A stale journal can be neither reconciled nor
executed, since its token is not the firmware's (`JournalFits`, `Amends`). Once the
transfer is active no save is outstanding, which is why a cleared journal stays away.

`ObservationProofs`, for any bridges and shutters, any number of presses, of republished
statuses and of reports on their way, whatever time these take, from `ObservationAssumption` and `NoneIsNoValue`, for `Spec`:

* `ObservationTyped`, `OneEventForEach`, `UpdatedOnce`, `EstimatedOnce`: `Spec` implies
  `[]TypeOK`, `[]OneEvent`, `[]UpdatesOnce`, `[]EstimatorOnce`.

The properties compare what a press has caused with what it should, so they rest on
telling presses apart. `Fits` says that everything on its way, in a bucket, in a task or
in a cache is of frames that were sent, and `NumbersFit` that the numbers of the presses
follow one another without coming round; hence a key tells frame and press
(`KeyTells`), a report supersedes only the prefix of its own tilt (`OnlyItsPrefix`), and
only a press's own terminal frame overtakes its prefix (`OnlyItsTerminal`), at the
rollover too. `OnceInv` follows one numbered frame: it is in its bucket, in one
task or done with, and once its event is begun the key is remembered for as long as any
copy that is on its way, or that a status could publish again, is not yet stale. It speaks
of frames of which no stale copy has arrived; TLC refutes `OneEvent` without that
condition. `CleanInv` follows a press that is not `disturbed` through
four stages (`Waiting`, `Collecting`, `Serving`, `Served`) and says at each what its
targets have got so far. Its heart is that such a press has no report that was
on its way while time passed, none that was repeated, and no restart, so the bucket has every complete copy before it is
flushed, and what the bucket lists as complete is what the firmware heard. Two presses
of a remote without numbers share a key and may be merged into one bucket; `Receive`
counts them as disturbed, and the proof needs that only for `kind = "stop"`.

`AliasSyncProofs`, for any bridges, runtime objects, groups, workers and retries, from
`RetriesAreBounded` and `NoneIsNoValue`:

* `AliasTyped`: `Spec => []TypeOK`;
* `WorkersAlone` and `NoGroupIsMissed`: `CalmSpec` implies `[]OneWorker`,
  `[]Converged` (the runs' `SteadySpec` and `LiveSpec` take only steps of `CalmSpec`).

A group that is saved while a worker is busy is told by that worker or not at all, so
`Converged` rests on which task is the one that runs. `WorkInv` says that whoever runs is
the current task of the coordinator, that only an unload cancels it, and that the
cancelled one is awaited by that unload and does not begin anew. `CareInv` says of
every bridge that is up and not given up that, unless a synchronization is requested or
an entry is being reloaded (`Settling`), each group it should have is known to be there
(`Done`) or is in the care of the running worker (`Handles`): the bridge is still to be
visited or looked at again, or the worker is in the middle of its commands and this one
is among them. What the worker has read, the merged directory and the targets, is still
so (`LocalsFit`).

Only model-checked: liveness (`ArchiveEnds`, `WorkerEnds`, `EndsCleared`,
`LateTransportIsFollowed`), which is outside the prover, and the three disagreements of
section 3, each a counterexample.

## 5. What is not modelled yet, and the plan

The transfer, its store, the aliases and the group editor, the observations, the
calls and the relay, the dialogs over one bridge's slots, hydration and the cover
are done. In this order:

1. Dialogs that race: `Commissioning` with two dialogs, the firmware's refusals
   spelled out, and dialogs that overlap a hydration; two group dialogs in
   `AliasSync` (a removal that undoes an edit).
2. The backups that slot moves and swaps carry along (`async_move_backup`,
   `async_swap_backups`) and the capabilities a status updates.
3. Composition: commands (`Control`) while a transfer holds the radio lock for
   its STOP.

Theorems next: which of the metadata properties of a transfer survive a second dialog of
the same move. Not all do: a rollback next to a start under way loses the journal.

Not to be modelled: diagnostics (read-only), constants, translations, packaging,
migration of old options (one synchronous rewrite), registry names and disabling,
sensors and buttons (they display, or call what `Control` models), and the firmware
beyond what this code relies on.
