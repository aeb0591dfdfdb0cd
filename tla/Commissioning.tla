---------------------------- MODULE Commissioning ----------------------------
(***************************************************************************)
(* The dialogs of config_flow.py that change the slots of one bridge: add  *)
(* a shutter (stage, capture its remote, pair, confirm), resume, retry or  *)
(* discard an attempt, import a controller, recalibrate, move and swap     *)
(* slots; with the pending attempts of runtime.py, their delayed save, and *)
(* the reload that every change of the options causes.  The firmware's     *)
(* commission, move and swap services are external.                        *)
(*                                                                         *)
(* Simplifications                                                         *)
(*   - A command and its reply are one step (see BridgeTransfer).          *)
(*   - A form that is shown again with an error before anything was done   *)
(*     is the same as a closed dialog.                                     *)
(*   - A draft is the shutter it is for; calibration values and backups    *)
(*     are left out, calibrate and venetian are one call.                  *)
(*   - A person takes longer to submit a form than the store to be saved.  *)
(*   - The options are on disk as soon as they change.                     *)
(*   - All queries of a hydration are one step.                            *)
(***************************************************************************)
EXTENDS Naturals

CONSTANTS
    Flows,     \* open dialogs
    Slots,
    Shutters,  \* shutters, each with its motor
    Ids,       \* controller identities
    None

\* The value for "absent" is no slot, shutter or identity.
ASSUME NoneIsNoValue == None \notin Slots \cup Shutters \cup Ids

VARIABLES
    fw,         \* what the firmware has in every slot
    armed,      \* slots whose next pairing transmission is released
    paired,     \* the motors that have learned an identity
    of,         \* the shutter an identity was made for
    rows,       \* the shutters in the options
    pending,    \* _pending of the runtime
    unsaved,    \* its delayed save is scheduled
    leftover,   \* what a replaced runtime has still to save, or None
    disk,       \* the attempts in the store
    reloading,  \* the options changed: the listener reloads the entry
    flow,       \* the state of every dialog
    astray,     \* shutters moved or swapped in the firmware alone
    hydrations, \* the options each running _async_hydrate_remote_metadata read
    unanswered  \* a query of the last hydration failed

device == <<fw, armed, paired, of>>
store == <<pending, unsaved, leftover, disk>>
hydration == <<hydrations, unanswered>>
vars == <<device, rows, store, reloading, flow, astray, hydration>>

-----------------------------------------------------------------------------
(* Values *)

States == {"empty", "staged", "pair_sent", "active"}
SlotRecords == [state : States, id : Ids \cup {None}, remote : BOOLEAN]
Empty == [state |-> "empty", id |-> None, remote |-> FALSE]

\* `remote` is whether the row has the identity of the physical remote.
Rows == [slot : Slots, shutter : Shutters, state : {"active", "uncertain"},
         remote : BOOLEAN]
Attempts == [Slots -> Shutters \cup {None}]

\* An active row whose remote is looked for.
Lacks(r) == r.state = "active" /\ ~r.remote

\* Where a dialog waits for its user, and for the bridge.
Forms == {"none", "capture", "prepare", "confirm", "retry", "finish"}
Calls == {"stage", "discover", "query_remote", "arm", "pair", "confirming",
          "calibrate", "export", "recalibrate", "query_import", "move", "swap",
          "query_resume", "discard", "retry_arm"}

\* `form` is shown when the call fails; `source` is _replacing_slot, `target` the
\* other slot of a move or swap; `action` is what to do with a resumed attempt;
\* `seen` are the options read before the swap.
Closed == [at |-> "none", form |-> "none", slot |-> None, source |-> None,
           target |-> None, shutter |-> None, action |-> None, seen |-> {}]

Actions == {"continue", "retry", "discard"}

FlowRecords == [at : Forms \cup Calls, form : Forms, slot : Slots \cup {None},
                source : Slots \cup {None}, target : Slots \cup {None},
                shutter : Shutters \cup {None}, action : Actions \cup {None},
                seen : SUBSET Rows]

RowsAt(slots) == {r \in rows : r.slot \in slots}

\* The store has been written, and the entry reloaded, before a form is submitted.
Patient == ~unsaved /\ leftover = None /\ ~reloading /\ hydrations = {}

-----------------------------------------------------------------------------
(* What every dialog does *)

Goes(f, at, form) == flow' = [flow EXCEPT ![f].at = at, ![f].form = form]

Close(f) == flow' = [flow EXCEPT ![f] = Closed]

Submits(f, form) == flow[f].at = form /\ Patient

\* Mutant: no save is scheduled.
RememberUnsaved(s, h) == pending' = [pending EXCEPT ![s] = h]
                         /\ UNCHANGED <<unsaved, leftover, disk>>

\* async_remember_pending, and async_clear_pending for None.
Remember(s, h) == pending' = [pending EXCEPT ![s] = h] /\ unsaved' = TRUE
                  /\ UNCHANGED <<leftover, disk>>

\* The options are written; Home Assistant reloads the entry when they changed.
Writes(new) == rows' = new /\ reloading' = (reloading \/ new # rows)

\* Shutters whose rows a dialog leaves behind that has moved them.
Abandoned(f) ==
    IF flow[f].source # None /\ flow[f].at \in {"calibrate", "export", "finish"}
    THEN {flow[f].shutter} ELSE {}

\* The call is refused, or fails before it is executed.
Fail(f) ==
    /\ flow[f].at \in Calls
    /\ IF flow[f].form = "none" THEN Close(f) ELSE Goes(f, flow[f].form, flow[f].form)
    /\ UNCHANGED <<device, rows, store, reloading, astray>>

\* The command that makes `device` what it is now was executed, its reply lost.
ReplyLost(f) ==
    /\ IF flow[f].form = "none" THEN Close(f) ELSE Goes(f, flow[f].form, flow[f].form)
    /\ UNCHANGED <<rows, store, reloading>>

\* The user closes a form.
Dismiss(f) ==
    /\ flow[f].at \in Forms \ {"none"}
    /\ Close(f)
    /\ astray' = astray \cup Abandoned(f)
    /\ UNCHANGED <<device, rows, store, reloading>>

-----------------------------------------------------------------------------
(* Add a shutter *)

AddShutter(f, s, h) ==
    /\ Submits(f, "none")
    /\ flow' = [flow EXCEPT ![f] = [Closed EXCEPT !.at = "stage", !.slot = s, !.shutter = h]]
    /\ UNCHANGED <<device, rows, store, reloading, astray>>

FwStage(s, id, h) ==
    /\ fw[s].state = "empty"
    /\ id \notin {fw[q].id : q \in Slots}
    /\ fw' = [fw EXCEPT ![s] = [state |-> "staged", id |-> id, remote |-> FALSE]]
    /\ of' = [of EXCEPT ![id] = h]
    /\ UNCHANGED <<armed, paired>>

Stage(f, id) ==
    /\ flow[f].at = "stage"
    /\ FwStage(flow[f].slot, id, flow[f].shutter)
    /\ Remember(flow[f].slot, flow[f].shutter)
    /\ Goes(f, "discover", "none")
    /\ UNCHANGED <<rows, reloading, astray>>

StageLost(f, id) ==
    /\ flow[f].at = "stage"
    /\ FwStage(flow[f].slot, id, flow[f].shutter)
    /\ ReplyLost(f)
    /\ UNCHANGED astray

Discover(f) ==
    /\ flow[f].at = "discover"
    /\ fw[flow[f].slot].state = "staged"
    /\ Goes(f, "capture", "capture")
    /\ UNCHANGED <<device, rows, store, reloading, astray>>

\* The remote is pressed and the firmware keeps its identity.
Hear(s) ==
    /\ fw[s].state = "staged"
    /\ fw' = [fw EXCEPT ![s].remote = TRUE]
    /\ UNCHANGED <<armed, paired, of, rows, store, reloading, flow, astray>>

SubmitCapture(f) ==
    /\ Submits(f, "capture")
    /\ Goes(f, "query_remote", "capture")
    /\ UNCHANGED <<device, rows, store, reloading, astray>>

QueryRemote(f) ==
    /\ flow[f].at = "query_remote"
    /\ IF fw[flow[f].slot].remote
       THEN Remember(flow[f].slot, flow[f].shutter) /\ Goes(f, "prepare", "prepare")
       ELSE Goes(f, "discover", "capture") /\ UNCHANGED store
    /\ UNCHANGED <<device, rows, reloading, astray>>

SubmitPrepare(f) ==
    /\ Submits(f, "prepare")
    /\ Goes(f, "arm", "prepare")
    /\ UNCHANGED <<device, rows, store, reloading, astray>>

SubmitRetry(f) ==
    /\ Submits(f, "retry")
    /\ Goes(f, "retry_arm", "retry")
    /\ UNCHANGED <<device, rows, store, reloading, astray>>

FwArm(f) ==
    LET s == flow[f].slot
    IN  /\ \/ flow[f].at = "arm" /\ fw[s].state = "staged" /\ fw[s].remote
           \/ flow[f].at = "retry_arm" /\ fw[s].state = "pair_sent"
        /\ armed' = armed \cup {s}
        /\ UNCHANGED <<fw, paired, of, astray>>

Arm(f) == FwArm(f) /\ Goes(f, "pair", flow[f].form) /\ UNCHANGED <<rows, store, reloading>>

ArmLost(f) == FwArm(f) /\ ReplyLost(f)

\* The pairing frame is sent; the motor in programming mode may learn it.
FwPair(f) ==
    LET s == flow[f].slot
    IN  /\ flow[f].at = "pair" /\ s \in armed
        /\ armed' = armed \ {s}
        /\ fw' = [fw EXCEPT ![s].state = "pair_sent"]
        /\ \/ paired' = paired \cup {<<fw[s].id, flow[f].shutter>>}
           \/ UNCHANGED paired
        /\ UNCHANGED <<of, astray>>

Pair(f) ==
    /\ FwPair(f)
    /\ Remember(flow[f].slot, flow[f].shutter)
    /\ Goes(f, "confirm", "confirm")
    /\ UNCHANGED <<rows, reloading>>

PairLost(f) == FwPair(f) /\ ReplyLost(f)

\* The second jog was seen.
SubmitConfirm(f) ==
    /\ Submits(f, "confirm")
    /\ Goes(f, "confirming", "confirm")
    /\ UNCHANGED <<device, rows, store, reloading, astray>>

\* It was not: the attempt is kept in the options as well.
SaveUncertain(f) ==
    /\ Submits(f, "confirm")
    /\ LET s == flow[f].slot
       IN  Writes((rows \ RowsAt({s})) \cup
                  {[slot |-> s, shutter |-> flow[f].shutter, state |-> "uncertain",
                    remote |-> fw[s].remote]})
    /\ Close(f)
    /\ UNCHANGED <<device, store, astray>>

FwConfirm(f) ==
    /\ flow[f].at = "confirming"
    /\ fw[flow[f].slot].state = "pair_sent"
    /\ fw' = [fw EXCEPT ![flow[f].slot].state = "active"]
    /\ UNCHANGED <<armed, paired, of, astray>>

\* Mutant: a confirmed attempt is forgotten before it is in the options.
ConfirmForgetting(f) ==
    /\ FwConfirm(f)
    /\ Remember(flow[f].slot, None)
    /\ Goes(f, "calibrate", "finish")
    /\ UNCHANGED <<rows, reloading>>

Confirm(f) ==
    /\ FwConfirm(f)
    /\ Goes(f, "calibrate", "finish")
    /\ UNCHANGED <<rows, store, reloading>>

ConfirmLost(f) == FwConfirm(f) /\ ReplyLost(f)

-----------------------------------------------------------------------------
(* _async_finalize and _save_active *)

Calibrate(f) ==
    /\ flow[f].at = "calibrate"
    /\ fw[flow[f].slot].state = "active"
    /\ Goes(f, "export", "finish")
    /\ UNCHANGED <<device, rows, store, reloading, astray>>

SubmitFinish(f) ==
    /\ Submits(f, "finish")
    /\ Goes(f, "calibrate", "finish")
    /\ UNCHANGED <<device, rows, store, reloading, astray>>

\* Mutant: the row of the slot a shutter was moved from is kept.
ReplacedBesideSource(f) == {flow[f].slot}

\* The slots whose rows are replaced.
Replaced(f) == {flow[f].slot, flow[f].source} \ {None}

\* A draft that was imported, or saved before the capture, has no remote.
SaveActive(f) ==
    /\ flow[f].at \in {"export", "recalibrate"}
    /\ fw[flow[f].slot].state = "active"
    /\ \E known \in {FALSE, fw[flow[f].slot].remote} :
          Writes((rows \ RowsAt(Replaced(f))) \cup
                 {[slot |-> flow[f].slot, shutter |-> flow[f].shutter,
                   state |-> "active", remote |-> known]})
    /\ Remember(flow[f].slot, None)
    /\ Close(f)
    /\ UNCHANGED <<device, astray>>

\* edit_calibration and calibration_values.
EditCalibration(f, r) ==
    /\ Submits(f, "none")
    /\ flow' = [flow EXCEPT ![f] = [Closed EXCEPT
          !.at = "recalibrate", !.slot = r.slot, !.shutter = r.shutter]]
    /\ UNCHANGED <<device, rows, store, reloading, astray>>

-----------------------------------------------------------------------------
(* Resume, retry, discard *)

ResumeAttempt(f, s, action) ==
    /\ Submits(f, "none")
    /\ pending[s] # None
    /\ flow' = [flow EXCEPT ![f] = [Closed EXCEPT !.at = "query_resume", !.slot = s,
                                      !.shutter = pending[s], !.action = action]]
    /\ UNCHANGED <<device, rows, store, reloading, astray>>

\* Mutant: whatever can be discarded is.
DiscardableAny(state) == state \in {"staged", "pair_sent"}

\* Only an attempt that was never transmitted may be discarded.
Discardable(state) == state = "staged"

\* What is done with an attempt depends on what the firmware has.
QueryResume(f) ==
    LET action == flow[f].action
        state == fw[flow[f].slot].state
    IN  /\ flow[f].at = "query_resume"
        /\ \/ action = "discard" /\ Discardable(state) /\ Goes(f, "discard", "none")
           \/ action = "retry" /\ state = "pair_sent" /\ Goes(f, "retry", "retry")
           \/ action = "continue" /\ state = "staged" /\ Goes(f, "discover", "none")
           \/ action = "continue" /\ state = "pair_sent" /\ Goes(f, "confirm", "confirm")
           \/ action = "continue" /\ state = "active" /\ Goes(f, "calibrate", "finish")
        /\ UNCHANGED <<device, rows, store, reloading, astray>>

FwDiscard(f) ==
    /\ flow[f].at = "discard"
    /\ fw[flow[f].slot].state \in {"staged", "pair_sent"}
    /\ fw' = [fw EXCEPT ![flow[f].slot] = Empty]
    /\ armed' = armed \ {flow[f].slot}
    /\ UNCHANGED <<paired, of, astray>>

Discard(f) ==
    /\ FwDiscard(f)
    /\ Remember(flow[f].slot, None)
    /\ Close(f)
    /\ UNCHANGED <<rows, reloading>>

DiscardLost(f) == FwDiscard(f) /\ ReplyLost(f)

-----------------------------------------------------------------------------
(* Import, move and swap *)

\* A controller that the firmware has, in the options or not; the user names it and
\* its slot.
ImportExisting(f, s, t) ==
    /\ Submits(f, "none")
    /\ fw[s].state = "active"
    /\ flow' = [flow EXCEPT ![f] = [Closed EXCEPT !.at = "query_import", !.slot = s,
                                      !.target = t, !.shutter = of[fw[s].id]]]
    /\ UNCHANGED <<device, rows, store, reloading, astray>>

QueryImport(f) ==
    /\ flow[f].at = "query_import"
    /\ fw[flow[f].slot].state = "active"
    /\ IF flow[f].target = flow[f].slot
       THEN Goes(f, "calibrate", "finish") ELSE Goes(f, "move", "none")
    /\ UNCHANGED <<device, rows, store, reloading, astray>>

MoveShutter(f, r, t) ==
    /\ Submits(f, "none")
    /\ t # r.slot
    /\ flow' = [flow EXCEPT ![f] = [Closed EXCEPT !.at = "move", !.slot = r.slot,
                                      !.target = t, !.shutter = r.shutter]]
    /\ UNCHANGED <<device, rows, store, reloading, astray>>

FwMove(f) ==
    LET s == flow[f].slot
        t == flow[f].target
    IN  /\ flow[f].at = "move"
        /\ fw[s].state = "active" /\ fw[t].state = "empty"
        /\ fw' = [fw EXCEPT ![s] = Empty, ![t] = fw[s]]
        /\ UNCHANGED <<armed, paired, of>>

Move(f) ==
    /\ FwMove(f)
    /\ flow' = [flow EXCEPT ![f].at = "calibrate", ![f].form = "finish",
                            ![f].slot = flow[f].target, ![f].source = flow[f].slot]
    /\ UNCHANGED <<rows, store, reloading, astray>>

MoveLost(f) ==
    /\ FwMove(f)
    /\ ReplyLost(f)
    /\ astray' = astray \cup {flow[f].shutter}

SwapShutters(f, a, b) ==
    /\ Submits(f, "none")
    /\ a.slot # b.slot
    /\ flow' = [flow EXCEPT ![f] = [Closed EXCEPT !.at = "swap", !.slot = a.slot,
                                      !.target = b.slot, !.seen = rows]]
    /\ UNCHANGED <<device, rows, store, reloading, astray>>

FwSwap(f) ==
    LET s == flow[f].slot
        t == flow[f].target
    IN  /\ flow[f].at = "swap"
        /\ fw[s].state = "active" /\ fw[t].state = "active"
        /\ fw' = [fw EXCEPT ![s] = fw[t], ![t] = fw[s]]
        /\ UNCHANGED <<armed, paired, of>>

\* Mutant: only the first shutter gets its new slot.
SwappedFirst(seen, s, t) ==
    {IF r.slot = s THEN [r EXCEPT !.slot = t] ELSE r : r \in seen}

Swapped(seen, s, t) ==
    {IF r.slot = s THEN [r EXCEPT !.slot = t]
     ELSE IF r.slot = t THEN [r EXCEPT !.slot = s] ELSE r : r \in seen}

Swap(f) ==
    /\ FwSwap(f)
    /\ Writes(Swapped(flow[f].seen, flow[f].slot, flow[f].target))
    /\ Close(f)
    /\ UNCHANGED <<store, astray>>

SwapLost(f) ==
    /\ FwSwap(f)
    /\ ReplyLost(f)
    /\ astray' = astray \cup {r.shutter : r \in RowsAt({flow[f].slot, flow[f].target})}

-----------------------------------------------------------------------------
(* The store and the entry *)

Save ==
    /\ unsaved
    /\ disk' = pending
    /\ unsaved' = FALSE
    /\ UNCHANGED <<device, rows, pending, leftover, reloading, flow, astray>>

SaveLeftover ==
    /\ leftover # None
    /\ disk' = leftover
    /\ leftover' = None
    /\ UNCHANGED <<device, rows, pending, unsaved, reloading, flow, astray>>

\* What async_setup makes of the store and the options.
Loaded ==
    [s \in Slots |->
        IF disk[s] = None /\ \E r \in RowsAt({s}) : r.state = "uncertain"
        THEN (CHOOSE r \in RowsAt({s}) : r.state = "uncertain").shutter
        ELSE disk[s]]

\* Mutant: a reloaded entry does not look for missing remotes.
HydratesNothing(running) == hydrations' = running /\ unanswered' = FALSE

\* Every load starts a task that looks for missing remotes; `running` go on.
Hydrates(running) ==
    /\ hydrations' = IF \E r \in rows : Lacks(r) THEN running \cup {rows} ELSE running
    /\ unanswered' = FALSE

\* What a hydration makes of row r when its slot is queried.
Hydrated(r) == [r EXCEPT !.remote = fw[r.slot].remote]

\* _async_hydrate_remote_metadata, once the slots in `answers` were queried: the
\* rows it has read are written again.
Hydrate(snapshot, answers) ==
    LET lacking == {r \in snapshot : Lacks(r)}
        new == {IF r \in lacking /\ r.slot \in answers THEN Hydrated(r) ELSE r : r \in snapshot}
    IN  /\ snapshot \in hydrations
        /\ hydrations' = hydrations \ {snapshot}
        /\ unanswered' = (unanswered \/ \E r \in lacking : r.slot \notin answers)
        /\ IF new = snapshot THEN UNCHANGED <<rows, reloading>> ELSE Writes(new)
        /\ UNCHANGED <<device, store, flow, astray>>

\* A new runtime reads the store, written or not.
Reload ==
    /\ reloading
    /\ reloading' = FALSE
    /\ pending' = Loaded
    /\ leftover' = IF unsaved THEN pending ELSE leftover
    /\ unsaved' = FALSE
    /\ Hydrates(hydrations)
    /\ UNCHANGED <<device, rows, disk, flow, astray>>

\* Home Assistant dies and starts again.
Crash ==
    /\ pending' = Loaded
    /\ unsaved' = FALSE
    /\ leftover' = None
    /\ reloading' = FALSE
    /\ flow' = [f \in Flows |-> Closed]
    /\ astray' = astray \cup UNION {Abandoned(f) : f \in Flows}
    /\ Hydrates({})
    /\ UNCHANGED <<device, rows, disk>>

-----------------------------------------------------------------------------
(* The system *)

\* Some slots hold controllers that were paired in ESPHome's configuration.
Init ==
    /\ fw \in [Slots -> {Empty} \cup
                 {[state |-> "active", id |-> id, remote |-> FALSE] : id \in Ids}]
    /\ \A s, t \in Slots : fw[s].id = fw[t].id /\ s # t => fw[s].id = None
    /\ of \in [Ids -> Shutters \cup {None}]
    /\ \A id \in Ids : of[id] # None <=> \E s \in Slots : fw[s].id = id
    /\ \A i, j \in Ids : of[i] = of[j] /\ i # j => of[i] = None
    /\ paired = {<<id, of[id]>> : id \in {i \in Ids : of[i] # None}}
    /\ armed = {}
    /\ rows = {}
    /\ pending = [s \in Slots |-> None]
    /\ unsaved = FALSE
    /\ leftover = None
    /\ disk = pending
    /\ reloading = FALSE
    /\ flow = [f \in Flows |-> Closed]
    /\ astray = {}
    /\ hydrations = {}
    /\ unanswered = FALSE

Working(f) ==
    \/ \E id \in Ids : Stage(f, id) \/ StageLost(f, id)
    \/ Discover(f) \/ QueryRemote(f) \/ Arm(f) \/ ArmLost(f) \/ Pair(f) \/ PairLost(f)
    \/ Confirm(f) \/ ConfirmLost(f) \/ Calibrate(f) \/ SaveActive(f)
    \/ QueryResume(f) \/ Discard(f) \/ DiscardLost(f)
    \/ QueryImport(f) \/ Move(f) \/ MoveLost(f) \/ Swap(f) \/ SwapLost(f) \/ Fail(f)

\* What a user does in dialog f who adds one of the given shutters.
User(f, choice) ==
    \/ \E s \in Slots, h \in choice : AddShutter(f, s, h)
    \/ SubmitCapture(f) \/ SubmitPrepare(f) \/ SubmitRetry(f)
    \/ SubmitConfirm(f) \/ SaveUncertain(f) \/ SubmitFinish(f) \/ Dismiss(f)
    \/ \E s, t \in Slots : ImportExisting(f, s, t)

\* Dialogs for the given rows and attempts.
Maintains(f, choice, slots) ==
    \/ \E r \in choice : EditCalibration(f, r) \/ \E t \in Slots : MoveShutter(f, r, t)
    \/ \E a, b \in choice : SwapShutters(f, a, b)
    \/ \E s \in slots, action \in Actions : ResumeAttempt(f, s, action)

Background ==
    \/ ((\E s \in Slots : Hear(s)) \/ Save \/ SaveLeftover) /\ UNCHANGED hydration
    \/ \E snapshot \in hydrations, answers \in SUBSET Slots : Hydrate(snapshot, answers)
    \/ Reload \/ Crash

Next ==
    \/ /\ \E f \in Flows : Working(f) \/ User(f, Shutters) \/ Maintains(f, rows, Slots)
       /\ UNCHANGED hydration
    \/ Background

Spec == Init /\ [][Next]_vars

\* The slot does not hold the controller of another shutter.
IsFor(s, h) == fw[s].id # None => of[fw[s].id] = h

\* A shutter nobody has begun to set up.
IsNew(h) == /\ \A r \in rows : r.shutter # h
            /\ \A s \in Slots : pending[s] # h
            /\ \A s \in Slots : fw[s].id # None => of[fw[s].id] # h

\* A row or an attempt left behind in a slot that has got another controller is
\* not used, and no shutter is added that is already being set up.  Nothing in the
\* code keeps the user from either.
SensibleNext ==
    \/ /\ \E f \in Flows :
             \/ Working(f) \/ User(f, {h \in Shutters : IsNew(h)})
             \/ Maintains(f, {r \in rows : IsFor(r.slot, r.shutter)},
                             {s \in Slots : IsFor(s, pending[s])})
       /\ UNCHANGED hydration
    \/ Background

SensibleSpec == Init /\ [][SensibleNext]_vars

-----------------------------------------------------------------------------
(* Properties *)

\* Every variable has its type, and a slot has one row.
TypeOK ==
    /\ fw \in [Slots -> SlotRecords]
    /\ armed \subseteq Slots
    /\ paired \subseteq Ids \X Shutters
    /\ of \in [Ids -> Shutters \cup {None}]
    /\ rows \subseteq Rows
    /\ \A a, b \in rows : a.slot = b.slot => a = b
    /\ pending \in Attempts /\ disk \in Attempts /\ leftover \in Attempts \cup {None}
    /\ {unsaved, reloading} \subseteq BOOLEAN
    /\ flow \in [Flows -> FlowRecords]
    /\ astray \subseteq Shutters
    /\ hydrations \subseteq SUBSET Rows
    /\ unanswered \in BOOLEAN

\* "If commissioning is interrupted after a radio transmission, the options flow
\* preserves that controller identity" (README.md:378): an identity that was
\* transmitted and not confirmed can be resumed, whatever failed and even after
\* a restart.
PairedIsKept == \A s \in Slots : fw[s].state = "pair_sent" => pending[s] # None

\* A controller that a motor may have learned is never erased: "it is retained to
\* avoid ... losing a possibly paired controller" (strings.json, resume_attempt).
NeverErased == \A p \in paired : \E s \in Slots : fw[s].id = p[1]

\* The dialog that has slot s will write its row.
Finishing(s) ==
    \E f \in Flows : flow[f].slot = s /\ flow[f].at \in {"calibrate", "export", "finish"}

\* "Resumable commissioning after Home Assistant or ESP restarts": a controller
\* the wizard has activated has its row, or can still be resumed.
ConfirmedIsManaged ==
    \A s \in Slots :
        fw[s].state = "active" /\ fw[s].remote /\ of[fw[s].id] \notin astray =>
            \/ \E r \in RowsAt({s}) : r.shutter = of[fw[s].id]
            \/ pending[s] # None
            \/ Finishing(s)

\* A row operates its own shutter: the slot it names is active and holds the
\* identity made for that shutter, unless a dialog that has moved it is not done.
RowsOperate ==
    \A r \in rows :
        /\ r.state = "active"
        /\ r.shutter \notin astray
        /\ \A f \in Flows : r.shutter \notin Abandoned(f)
        => fw[r.slot].state = "active" /\ of[fw[r.slot].id] = r.shutter

\* "Privately recover remote IDs missing from legacy HA shutter metadata"
\* (__init__.py:125): once the entry has been loaded, no row of a shutter whose
\* remote the firmware knows is without it, unless its query failed.
RemotesKnown ==
    ~reloading /\ hydrations = {} /\ ~unanswered =>
        \A r \in rows : Lacks(r) /\ r.shutter \notin astray => ~fw[r.slot].remote

\* "Forget a finished or safely discarded commissioning attempt"
\* (runtime.py:228): a shutter in the options is not an unfinished attempt.
FinishedIsForgotten ==
    \A r \in rows : r.state = "active" => pending[r.slot] # r.shutter

=============================================================================
