----------------------------- MODULE JournalStore -----------------------------
(***************************************************************************)
(* The journal of one transfer across reloads of the two entries: what the *)
(* runtime objects of the source entry have in memory, what is on disk     *)
(* (runtime.py), and the tasks that go on with the object they began with  *)
(* when the entry has got a new one (coordinator.py, __init__.py).         *)
(*                                                                         *)
(* BridgeTransfer has the protocol in detail and knows no objects; here    *)
(* the protocol is one line of phases and the objects are in detail.       *)
(*                                                                         *)
(* Simplifications                                                         *)
(*   - Both firmwares are one phase: the one their journals prove.         *)
(*   - The two queries of a reconciliation, a repeated prepare and the     *)
(*     decision are one step; a command and its reply are one step.        *)
(*   - A token and a backup are the number of archives made before it: the *)
(*     firmware imports only a backup of the present archive.              *)
(*   - The firmware publishes a backup before the status that reports it.  *)
(*   - An immediate save changes memory and disk in one step.              *)
(*   - A person takes longer to submit a form than a delayed save to be    *)
(*     written.                                                            *)
(***************************************************************************)
EXTENDS Naturals, FiniteSets

CONSTANTS
    Objects,      \* successive runtime objects of the source entry
    MaxArchives,  \* how often the shutter is archived
    MaxTasks,     \* how many recoveries run at once
    None          \* no journal, no backup, no object

ASSUME BoundsAreUseful == MaxArchives \in Nat \ {0} /\ MaxTasks \in Nat \ {0}

VARIABLES
    fw,          \* the phase the firmware journals prove
    archives,    \* archives made so far
    mem,         \* _pending_transfer and the cached backup of every object
    registered,  \* the object the coordinator and the listener know
    unsaved,     \* objects with a delayed save scheduled
    disk,        \* the store
    dest,        \* the destination's runtime is registered
    reloading,   \* entries whose options changed
    moved,       \* the options of both entries name the destination
    flow,        \* the dialog of the source entry
    recoveries,  \* running async_reconcile_runtime_transfer
    missed       \* the recovery of the last load after the move was not answered

firmware == <<fw, archives>>
store == <<mem, unsaved, disk>>
entries == <<registered, dest, reloading, moved>>
vars == <<firmware, store, entries, flow, recoveries, missed>>

-----------------------------------------------------------------------------
(* Values *)

Phases == {"preparing", "prepared", "imported", "activated", "committed", "active"}

Backups == 0 .. MaxArchives

Journals == [phase : Phases, token : Backups \cup {None}, backup : Backups \cup {None}]

ASSUME NoneIsNoValue == None \notin Objects \cup Backups \cup Journals

Stores == [journal : Journals \cup {None}, backup : Backups \cup {None}]
Blank == [journal |-> None, backup |-> None]

\* The phase the reply to the command of a phase leads to.
Following == [preparing |-> "prepared", prepared |-> "imported", imported |-> "activated",
          activated |-> "committed", committed |-> "active"]

\* `settle` is a start before its first checkpoint, `prepare` its prepare;
\* `wait` waits for _transfer_lock and the others hold it.
Stages == {"none", "settle", "prepare", "wait", "exchange", "abort", "rollback", "finish"}

Closed == [at |-> "none", obj |-> None, job |-> None, undo |-> FALSE]

Flows == [at : Stages, obj : Objects \cup {None}, job : Journals \cup {None},
          undo : BOOLEAN]

LockFree == flow.at \in {"none", "settle", "prepare", "wait"}

-----------------------------------------------------------------------------
(* The store *)

\* Mutant: the journal is left to the delayed save.
SetPendingLater(heard, o, j) ==
    /\ mem' = [heard EXCEPT ![o].journal = j]
    /\ unsaved' = unsaved \cup {o}
    /\ UNCHANGED disk

\* Mutant: a journal that is removed stays in memory.
SetPendingOnDisk(heard, o, j) ==
    /\ mem' = IF j = None THEN heard ELSE [heard EXCEPT ![o].journal = j]
    /\ disk' = [mem'[o] EXCEPT !.journal = j]
    /\ unsaved' = IF heard = mem \/ registered = None THEN unsaved
                  ELSE unsaved \cup {registered}

\* async_set_pending_transfer of object o, with what the objects have heard: all
\* of it is written, and its delayed save is not needed any more.
SetPending(heard, o, j) ==
    /\ mem' = [heard EXCEPT ![o].journal = j]
    /\ disk' = mem'[o]
    /\ unsaved' = (IF heard = mem \/ registered = None THEN unsaved
                   ELSE unsaved \cup {registered}) \ {o}

\* Mutant: the status of a prepare does not refresh the cached backup.
HeardNothing(b) == mem

\* Memory once the registered object has heard of backup b; no other listens.
Heard(b) == IF registered = None THEN mem ELSE [mem EXCEPT ![registered].backup = b]

\* async_remember_backup: a delayed save.
Remember(b) ==
    /\ mem' = Heard(b)
    /\ unsaved' = IF registered = None THEN unsaved ELSE unsaved \cup {registered}
    /\ UNCHANGED disk

Save(o) ==
    /\ o \in unsaved
    /\ disk' = mem[o]
    /\ unsaved' = unsaved \ {o}
    /\ UNCHANGED <<firmware, mem, entries, flow, recoveries, missed>>

\* The backup of a controller that is not archived is refreshed.
BackupUpdated ==
    /\ fw = "home"
    /\ Remember(archives)
    /\ UNCHANGED <<firmware, disk, entries, flow, recoveries, missed>>

-----------------------------------------------------------------------------
(* The firmware *)

\* prepare archives a controller that is active.
FwPrepare ==
    /\ fw = "home" /\ archives < MaxArchives
    /\ archives' = archives + 1
    /\ fw' = "prepared"

\* The other commands.  An import needs the backup of this archive.
FwExecute(j) ==
    /\ j.phase # "preparing"
    /\ fw = j.phase
    /\ j.token = archives
    /\ j.phase = "prepared" => j.backup = archives
    /\ fw' = Following[j.phase]
    /\ UNCHANGED archives

FwUndo ==
    /\ \/ flow.at = "abort" /\ fw = "imported" /\ fw' = "prepared"
       \/ flow.at = "rollback" /\ fw = "prepared" /\ fw' = "home"
    /\ UNCHANGED archives

-----------------------------------------------------------------------------
(* The dialog *)

Goes(at, j) == flow' = [flow EXCEPT !.at = at, !.job = j]

\* The form is submitted to the object that is registered then.
Submits(at, j, undo) ==
    /\ flow = Closed
    /\ registered # None /\ unsaved \subseteq {registered}
    /\ flow' = [at |-> at, obj |-> registered, job |-> j, undo |-> undo]
    /\ UNCHANGED <<firmware, store, entries, recoveries, missed>>

SubmitStart ==
    /\ ~moved /\ dest
    /\ registered # None => mem[registered].journal = None
    /\ Submits("settle", [phase |-> "preparing", token |-> None, backup |-> None], FALSE)

SubmitResume(undo) ==
    LET j == IF registered = None THEN None ELSE mem[registered].journal
    IN  /\ j # None
        /\ undo => j.phase \in {"preparing", "prepared", "imported"}
        /\ Submits("wait", j, undo)

\* The motor has stopped: the first checkpoint.
Checkpoint ==
    /\ flow.at = "settle"
    /\ SetPending(mem, flow.obj, flow.job)
    /\ Goes("prepare", flow.job)
    /\ UNCHANGED <<firmware, entries, recoveries, missed>>

\* The prepare of a start, or of a resumed transfer: the backup is the one that
\* the dialog's object has.
Prepare ==
    LET heard == Heard(archives')
        j == [phase |-> "prepared", token |-> archives', backup |-> heard[flow.obj].backup]
    IN  /\ flow.at = "prepare" \/ (flow.at = "exchange" /\ flow.job.phase = "preparing")
        /\ FwPrepare
        /\ IF j.backup = None
           THEN Remember(archives') /\ flow' = Closed
           ELSE /\ SetPending(heard, flow.obj, j)
                /\ Goes(IF flow.at = "prepare" THEN "wait" ELSE "exchange", j)
        /\ UNCHANGED <<entries, recoveries, missed>>

PrepareLost ==
    /\ flow.at = "prepare" \/ (flow.at = "exchange" /\ flow.job.phase = "preparing")
    /\ FwPrepare
    /\ \/ Remember(archives')
       \/ UNCHANGED store
    /\ flow' = Closed
    /\ UNCHANGED <<entries, recoveries, missed>>

Exchange ==
    LET j == [flow.job EXCEPT !.phase = Following[@]]
    IN  /\ flow.at = "exchange"
        /\ FwExecute(flow.job)
        /\ SetPending(mem, flow.obj, j)
        /\ Goes(IF j.phase = "active" THEN "finish" ELSE "exchange", j)
        /\ UNCHANGED <<entries, recoveries, missed>>

\* Mutant: empty firmware journals are a phase of the transfer too.
ReconciledRaw(j) == fw

\* The archive whose token a firmware journal has.
FwToken == IF fw \in {"home", "active"} THEN None ELSE archives

\* The phase the firmware proves, or the journal's own; None is an error.
Reconciled(j) ==
    IF j.token # None /\ FwToken # None /\ j.token # FwToken THEN None
    ELSE IF fw # "home" THEN fw
    ELSE IF j.phase \in {"preparing", "active"} THEN j.phase ELSE None

\* A prepared transfer without its backup asks for it again.
Asks(j) == Reconciled(j) \in {"prepared", "imported"} /\ j.backup = None

\* What object o makes of journal j, and what all objects have heard then.
HeardBy(j) == IF Asks(j) THEN Heard(archives) ELSE mem
Amended(o, j) == [phase |-> Reconciled(j),
                  token |-> IF FwToken = None THEN j.token ELSE FwToken,
                  backup |-> IF Asks(j) THEN HeardBy(j)[o].backup ELSE j.backup]

\* The dialog has got the lock and reconciled: a resumed transfer goes on, one
\* that is rolled back is undone as far as it has come.
Reconcile ==
    LET o == flow.obj
        j == Amended(o, flow.job)
    IN  /\ flow.at = "wait" /\ dest
        /\ Reconciled(flow.job) # None
        /\ IF ~flow.undo
           THEN IF j.phase = "active"
                THEN Goes("finish", j) /\ UNCHANGED store
                ELSE Goes("exchange", j) /\ SetPending(HeardBy(flow.job), o, j)
           ELSE /\ j.phase \in {"preparing", "prepared", "imported"}
                /\ IF j.phase = "preparing"
                   THEN flow' = Closed /\ SetPending(mem, o, None)
                   ELSE /\ Goes(IF j.phase = "imported" THEN "abort" ELSE "rollback", j)
                        /\ IF Asks(flow.job) THEN Remember(archives) ELSE UNCHANGED store
        /\ UNCHANGED <<firmware, entries, recoveries, missed>>

Undo ==
    /\ FwUndo
    /\ IF flow.at = "abort"
       THEN Goes("rollback", flow.job) /\ UNCHANGED store
       ELSE flow' = Closed /\ SetPending(mem, flow.obj, None)
    /\ UNCHANGED <<entries, recoveries, missed>>

\* An executed command whose reply is lost.
ReplyLost ==
    /\ FwUndo \/ (flow.at = "exchange" /\ FwExecute(flow.job))
    /\ flow' = Closed
    /\ UNCHANGED <<store, entries, recoveries, missed>>

\* Refused, offline, or a destination that is not registered.
Fail ==
    /\ flow.at # "none"
    /\ flow' = Closed
    /\ UNCHANGED <<firmware, store, entries, recoveries, missed>>

\* _async_finish_bridge_transfer.  Options that are the same reload nothing.
Finish ==
    /\ flow.at = "finish" /\ dest
    /\ moved' = TRUE
    /\ reloading' = IF moved THEN reloading ELSE
                       {"destination"} \cup (IF registered = None THEN {} ELSE {"source"})
    /\ flow' = Closed
    /\ UNCHANGED <<firmware, store, registered, dest, recoveries, missed>>

-----------------------------------------------------------------------------
(* Recovery and reloads *)

\* async_reconcile_runtime_transfer, under the lock: the journal is done with
\* when the options of both entries agree with it.
Recover(r) ==
    LET j == Amended(r.obj, r.job)
    IN  /\ r \in recoveries /\ LockFree
        /\ j.phase # None
        /\ SetPending(HeardBy(r.job), r.obj, IF j.phase = "active" /\ moved THEN None ELSE j)
        /\ recoveries' = recoveries \ {r}
        /\ UNCHANGED <<firmware, entries, flow, missed>>

\* The bridge is not connected, does not answer, or the journals disagree.
RecoverFails(r) ==
    /\ r \in recoveries
    /\ recoveries' = recoveries \ {r}
    /\ missed' = moved
    /\ UNCHANGED <<firmware, store, entries, flow>>

\* Mutant: an entry recovers the journals it is the source of, when it is loaded.
RecoversOwnOnly(o, m, destination) ==
    IF o # None /\ m[o].journal # None /\ destination /\ registered = None
    THEN /\ recoveries' = recoveries \cup {[obj |-> o, job |-> m[o].journal]}
         /\ Cardinality(recoveries') <= MaxTasks
         /\ missed' = FALSE
    ELSE UNCHANGED <<recoveries, missed>>

\* Every load of an entry recovers the journals of all registered runtimes whose
\* destination is registered.
Recovers(o, m, destination) ==
    IF o # None /\ m[o].journal # None /\ destination
    THEN /\ recoveries' = recoveries \cup {[obj |-> o, job |-> m[o].journal]}
         /\ Cardinality(recoveries') <= MaxTasks
         /\ missed' = FALSE
    ELSE UNCHANGED <<recoveries, missed>>

\* An object nothing holds any more.
Unused(o) ==
    /\ o # registered /\ o # flow.obj /\ o \notin unsaved
    /\ \A r \in recoveries : r.obj # o

\* async_setup reads the store into a new object.
LoadSource(o) ==
    /\ registered = None
    /\ Unused(o)
    /\ mem' = [g \in Objects |-> IF g = o THEN disk ELSE IF Unused(g) THEN Blank ELSE mem[g]]
    /\ registered' = o
    /\ Recovers(o, mem', dest)
    /\ UNCHANGED <<firmware, unsaved, disk, dest, reloading, moved, flow>>

LoadDestination ==
    /\ ~dest
    /\ dest' = TRUE
    /\ Recovers(registered, mem, TRUE)
    /\ UNCHANGED <<firmware, store, registered, reloading, moved, flow>>

UnloadSource ==
    /\ registered # None
    /\ registered' = None
    /\ reloading' = reloading \ {"source"}
    /\ UNCHANGED <<firmware, store, dest, moved, flow, recoveries, missed>>

UnloadDestination ==
    /\ dest
    /\ dest' = FALSE
    /\ reloading' = reloading \ {"destination"}
    /\ UNCHANGED <<firmware, store, registered, moved, flow, recoveries, missed>>

\* Home Assistant dies: the store and the options stay.
Crash ==
    /\ mem' = [o \in Objects |-> Blank]
    /\ unsaved' = {}
    /\ registered' = None
    /\ dest' = FALSE
    /\ reloading' = {}
    /\ flow' = Closed
    /\ recoveries' = {}
    /\ UNCHANGED <<firmware, disk, moved, missed>>

-----------------------------------------------------------------------------
(* The system *)

Init ==
    /\ fw = "home"
    /\ archives = 0
    /\ mem = [o \in Objects |-> Blank]
    /\ registered = None
    /\ unsaved = {}
    /\ disk \in {Blank, [Blank EXCEPT !.backup = 0]}
    /\ dest = FALSE
    /\ reloading = {}
    /\ moved = FALSE
    /\ flow = Closed
    /\ recoveries = {}
    /\ missed = FALSE

Progress == Checkpoint \/ Prepare \/ Exchange \/ Reconcile \/ Undo \/ Finish

Interrupted == PrepareLost \/ ReplyLost \/ Fail

Tasks == [obj : Objects, job : Journals]

Background ==
    \/ \E o \in Objects : Save(o) \/ LoadSource(o)
    \/ \E r \in recoveries : Recover(r) \/ RecoverFails(r)
    \/ LoadDestination \/ UnloadDestination \/ BackupUpdated \/ Crash

User == SubmitStart \/ \E undo \in BOOLEAN : SubmitResume(undo)

Next == Progress \/ Interrupted \/ Background \/ User \/ UnloadSource

Spec == Init /\ [][Next]_vars

\* A prepare may still be asked for, by the dialog or by a recovery.
Preparing ==
    \/ flow.at \in {"settle", "prepare"}
    \/ flow.at \in {"wait", "exchange"} /\ flow.job.backup = None
    \/ \E r \in recoveries : r.job.backup = None

\* The source entry is reloaded at any time but that.
CalmUnload == ~Preparing /\ UnloadSource

CalmSpec == Init /\ [][Progress \/ Interrupted \/ Background \/ User \/ CalmUnload]_vars

\* A restart, or a reload that no change of options asked for.
Disturbance ==
    \/ Crash
    \/ "source" \notin reloading /\ UnloadSource
    \/ "destination" \notin reloading /\ UnloadDestination

\* Home Assistant runs its tasks, saves and reloads.
LiveSpec ==
    /\ CalmSpec
    /\ WF_vars(Progress \/ Interrupted)
    /\ WF_vars(\E o \in Objects : LoadSource(o)) /\ WF_vars(LoadDestination)
    /\ WF_vars("source" \in reloading /\ CalmUnload)
    /\ WF_vars("destination" \in reloading /\ UnloadDestination)
    /\ \A o \in Objects : WF_vars(Save(o))
    /\ WF_vars(\E r \in recoveries : Recover(r) \/ RecoverFails(r))

-----------------------------------------------------------------------------
(* Properties *)

\* Every variable has its type.
TypeOK ==
    /\ fw \in {"home"} \cup (Phases \ {"preparing"})
    /\ archives \in Backups
    /\ mem \in [Objects -> Stores]
    /\ registered \in Objects \cup {None}
    /\ unsaved \subseteq Objects
    /\ disk \in Stores
    /\ dest \in BOOLEAN /\ moved \in BOOLEAN /\ missed \in BOOLEAN
    /\ reloading \subseteq {"source", "destination"}
    /\ flow \in Flows
    /\ recoveries \subseteq Tasks

\* "The HA journal is stored immediately before every requested phase"
\* (docs/future-multi-bridge.md:137): from the archive to the new options, the
\* journal is on disk and known to the runtime that offers Resume, whichever
\* object wrote it and whatever is reloaded or saved late.
UnderWayIsKnown ==
    fw # "home" /\ ~moved =>
        /\ disk.journal # None
        /\ registered # None => mem[registered].journal # None

\* An interrupted transfer can be continued: no journal keeps a backup that the
\* firmware would refuse to import.
BackupFits ==
    fw = "prepared" =>
        \A j \in {disk.journal} \cup {mem[o].journal : o \in {registered} \ {None}} :
            j # None => j.backup \in {None, archives}

\* A journal that is done with does not come back with a late save or a task of
\* a runtime that was replaced.
StaysCleared ==
    [][moved /\ disk.journal = None => disk'.journal = None]_vars

\* "Automatically clear terminal journals" (CHANGELOG.md, 0.8.0b2): whichever
\* entry is reloaded first, the journal goes away once the options are written,
\* unless a bridge does not answer the recovery of that load, or the entries are
\* reloaded and Home Assistant restarted for ever.
EndsCleared ==
    <>[][~Disturbance]_vars =>
        (moved ~> \/ /\ disk.journal = None
                     /\ registered # None => mem[registered].journal = None
                  \/ missed)

=============================================================================
