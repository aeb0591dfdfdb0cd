------------------------- MODULE CommissioningProofs -------------------------
(***************************************************************************)
(* What is proved of Commissioning with one dialog open, for any slots,    *)
(* shutters and identities.  First KeptInv: an attempt that was            *)
(* transmitted can always be resumed, and no controller that a motor may   *)
(* have learned is erased.  Then RowInv, for a user who does not use what  *)
(* was left behind in a slot that has got another controller: every row    *)
(* operates its own shutter, every activated controller is managed, and    *)
(* known remotes are recovered.                                            *)
(***************************************************************************)
EXTENDS Commissioning, TLAPS

\* One dialog is open at a time.
OneDialog == \A f, g \in Flows : f = g

-----------------------------------------------------------------------------
(* The invariant *)

SlotShape ==
    \A s \in Slots : IF fw[s].state = "empty" THEN fw[s] = Empty ELSE fw[s].id \in Ids

\* Every identity is in one slot, and was made for a shutter.
IdsFit ==
    /\ \A s, t \in Slots : fw[s].id = fw[t].id /\ fw[s].id # None => s = t
    /\ \A s \in Slots : fw[s].id # None => of[fw[s].id] \in Shutters

\* What is only staged was never transmitted.
StagedIsNew ==
    \A s \in Slots, p \in paired : fw[s].state = "staged" => fw[s].id # p[1]

DeviceFits == SlotShape /\ IdsFit /\ NeverErased /\ StagedIsNew

\* An attempt that was transmitted is in memory, on disk, and in whatever a
\* replaced runtime still writes over that.
Kept(s) ==
    /\ pending[s] # None /\ disk[s] # None
    /\ leftover # None => leftover[s] # None

AttemptsKept == \A s \in Slots : fw[s].state = "pair_sent" => Kept(s)

\* The form to which a dialog returns when its call fails.
FormFits(at, form) ==
    /\ at \in {"prepare", "arm"} => form = "prepare"
    /\ at \in {"retry", "retry_arm"} => form = "retry"
    /\ at = "pair" => form \in {"prepare", "retry"}
    /\ at \in {"stage", "discover", "capture", "query_remote"} => form \in {"none", "capture"}
    /\ at \in {"confirm", "confirming"} => form = "confirm"
    /\ at \in {"calibrate", "export", "finish"} => form = "finish"
    /\ at \in {"query_resume", "discard", "query_import", "move", "swap", "recalibrate"}
          => form = "none"

\* Setting up begins when nothing is left to be saved or reloaded, and changes no
\* options.
SettingUp(f) ==
    \/ flow[f].at \in {"stage", "query_resume", "discover", "capture", "query_remote",
                       "prepare", "arm"}
    \/ flow[f].at = "pair" /\ flow[f].form = "prepare"

\* The first transmission is about to be made.
Arming(f) == flow[f].at = "arm" \/ (flow[f].at = "pair" /\ flow[f].form = "prepare")

FlowFits(f) ==
    /\ flow[f].at # "none" => flow[f].slot \in Slots
    /\ flow[f].at \notin {"none", "swap"} => flow[f].shutter \in Shutters
    /\ flow[f].at \in {"move", "swap", "query_import"} => flow[f].target \in Slots
    /\ flow[f].at = "swap" => flow[f].target # flow[f].slot
    /\ FormFits(flow[f].at, flow[f].form)
    /\ flow[f].at = "discard" => fw[flow[f].slot].state = "staged"
    /\ flow[f].at = "pair" =>
          fw[flow[f].slot].state = IF flow[f].form = "prepare" THEN "staged" ELSE "pair_sent"

\* What is on its way to the disk while a shutter is set up.
StoreFits(f) ==
    /\ SettingUp(f) => leftover = None /\ ~reloading /\ hydrations = {}
    /\ flow[f].at = "prepare" \/ Arming(f) => pending[flow[f].slot] # None
    /\ flow[f].at = "prepare" => disk[flow[f].slot] # None \/ unsaved
    /\ Arming(f) => disk[flow[f].slot] # None

OneRow(set) == \A a, b \in set : a.slot = b.slot => a = b

DeviceTypes ==
    /\ fw \in [Slots -> SlotRecords]
    /\ armed \subseteq Slots
    /\ paired \subseteq Ids \X Shutters
    /\ of \in [Ids -> Shutters \cup {None}]

RowTypes == rows \subseteq Rows /\ OneRow(rows) /\ reloading \in BOOLEAN

StoreTypes ==
    /\ pending \in Attempts /\ disk \in Attempts /\ leftover \in Attempts \cup {None}
    /\ unsaved \in BOOLEAN

FlowTypes ==
    /\ flow \in [Flows -> FlowRecords]
    /\ \A f \in Flows : OneRow(flow[f].seen)
    /\ astray \subseteq Shutters

HydrationTypes ==
    /\ hydrations \subseteq SUBSET Rows
    /\ \A snapshot \in hydrations : OneRow(snapshot)
    /\ unanswered \in BOOLEAN

KeptInv ==
    /\ DeviceTypes /\ RowTypes /\ StoreTypes /\ FlowTypes /\ HydrationTypes
    /\ DeviceFits /\ AttemptsKept
    /\ \A f \in Flows : FlowFits(f) /\ StoreFits(f)

-----------------------------------------------------------------------------
(* What a dialog does *)

\* What goes on with no other dialog is the dialog's own business.
LEMMA Assemble ==
    ASSUME KeptInv, OneDialog, NEW f \in Flows, UNCHANGED hydration,
           DeviceTypes', RowTypes', StoreTypes', FlowTypes', DeviceFits', AttemptsKept',
           FlowFits(f)', StoreFits(f)'
    PROVE  KeptInv'
<1>1. HydrationTypes'
  BY DEF KeptInv, HydrationTypes, hydration
<1>2. \A g \in Flows : g = f
  BY DEF OneDialog
<1> QED BY <1>1, <1>2 DEF KeptInv

\* A dialog that goes on changes only its step and its form.
LEMMA GoesTo ==
    ASSUME FlowTypes, OneDialog, NEW f \in Flows, NEW at \in Forms \cup Calls,
           NEW form \in Forms, Goes(f, at, form)
    PROVE  /\ flow' \in [Flows -> FlowRecords] /\ OneRow(flow'[f].seen)
           /\ flow'[f].at = at /\ flow'[f].form = form
           /\ flow'[f].slot = flow[f].slot /\ flow'[f].target = flow[f].target
           /\ flow'[f].shutter = flow[f].shutter /\ flow'[f].source = flow[f].source
<1>1. flow[f] \in FlowRecords /\ OneRow(flow[f].seen)
  BY DEF FlowTypes
<1>2. flow' = [flow EXCEPT ![f] = [flow[f] EXCEPT !.at = at, !.form = form]]
  BY DEF Goes, FlowTypes
<1>3. [flow[f] EXCEPT !.at = at, !.form = form] \in FlowRecords
  BY <1>1 DEF FlowRecords
<1>4. flow'[f] = [flow[f] EXCEPT !.at = at, !.form = form]
  BY <1>2 DEF FlowTypes
<1>5. flow' \in [Flows -> FlowRecords]
  BY <1>2, <1>3 DEF FlowTypes
<1> QED BY <1>1, <1>4, <1>5 DEF FlowRecords

\* A closed dialog satisfies everything that is asked of a dialog.
LEMMA Closes ==
    ASSUME FlowTypes, NEW f \in Flows, Close(f)
    PROVE  /\ flow' \in [Flows -> FlowRecords] /\ OneRow(flow'[f].seen)
           /\ FlowFits(f)' /\ StoreFits(f)'
<1>1. Closed \in FlowRecords /\ Closed.at = "none" /\ Closed.seen = {}
  BY DEF Closed, FlowRecords, Forms
<1>2. flow'[f] = Closed /\ flow' \in [Flows -> FlowRecords]
  BY <1>1 DEF Close, FlowTypes
<1>3. FlowFits(f)'
  BY <1>1, <1>2 DEF FlowFits, FormFits
<1>4. StoreFits(f)'
  BY <1>1, <1>2 DEF StoreFits, SettingUp, Arming
<1> QED BY <1>1, <1>2, <1>3, <1>4 DEF OneRow

\* A dialog whose call fails returns to its form.
LEMMA Returns ==
    ASSUME KeptInv, OneDialog, NEW f \in Flows, flow[f].at \in Calls,
           IF flow[f].form = "none" THEN Close(f) ELSE Goes(f, flow[f].form, flow[f].form),
           UNCHANGED <<store, reloading, hydration>>
    PROVE  /\ flow' \in [Flows -> FlowRecords] /\ OneRow(flow'[f].seen)
           /\ FlowFits(f)' /\ StoreFits(f)'
<1>1. FlowTypes /\ FlowFits(f) /\ StoreFits(f) /\ flow[f].form \in Forms
  BY DEF KeptInv, FlowTypes, FlowRecords
<1>2. CASE flow[f].form = "none"
  BY <1>1, <1>2, Closes
<1>3. CASE flow[f].form # "none"
  <2> DEFINE form == flow[f].form
  <2>1. /\ flow' \in [Flows -> FlowRecords] /\ OneRow(flow'[f].seen)
        /\ flow'[f].at = form /\ flow'[f].form = form
        /\ flow'[f].slot = flow[f].slot /\ flow'[f].shutter = flow[f].shutter
    BY <1>1, <1>3, GoesTo
  <2>2. /\ form \in {"capture", "prepare", "confirm", "retry", "finish"}
        /\ flow[f].at \notin {"none", "swap"}
        /\ form = "capture" => flow[f].at \in {"stage", "discover", "query_remote"}
        /\ form = "prepare" => flow[f].at \in {"arm", "pair"}
    BY <1>1, <1>3 DEF FlowFits, FormFits, Forms, Calls
  <2>3. FlowFits(f)'
    BY <1>1, <2>1, <2>2 DEF FlowFits, FormFits
  <2>4. SettingUp(f)' => SettingUp(f)
    BY <2>1, <2>2 DEF SettingUp
  <2>5. ~Arming(f)' /\ (flow'[f].at = "prepare" => Arming(f))
    BY <2>1, <2>2 DEF Arming
  <2>6. StoreFits(f)'
    BY <1>1, <2>1, <2>4, <2>5 DEF StoreFits, store, hydration
  <2> QED BY <2>1, <2>3, <2>6
<1> QED BY <1>2, <1>3

\* An attempt is remembered or forgotten.
LEMMA RememberKeeps ==
    ASSUME KeptInv, NEW s \in Slots, NEW h \in Shutters \cup {None}, Remember(s, h),
           \A q \in Slots : fw'[q].state = "pair_sent" => Kept(q) /\ (q = s => h # None)
    PROVE  /\ StoreTypes' /\ AttemptsKept'
           /\ pending'[s] = h /\ unsaved' = TRUE /\ UNCHANGED <<leftover, disk>>
<1>1. StoreTypes
  BY DEF KeptInv
<1>2. pending' = [pending EXCEPT ![s] = h] /\ unsaved' = TRUE /\ UNCHANGED <<leftover, disk>>
  BY DEF Remember
<1>3. pending' \in Attempts /\ pending'[s] = h
      /\ \A q \in Slots \ {s} : pending'[q] = pending[q]
  BY <1>1, <1>2 DEF StoreTypes, Attempts
<1>4. StoreTypes'
  BY <1>1, <1>2, <1>3 DEF StoreTypes
<1>5. AttemptsKept'
  BY <1>2, <1>3 DEF AttemptsKept, Kept
<1> QED BY <1>2, <1>3, <1>4, <1>5

\* Slots that hold a transmitted identity after the step have kept attempts before.
KeptAfter == \A q \in Slots : fw'[q].state = "pair_sent" => Kept(q)

\* The store is left alone.
LEMMA StoreSame ==
    ASSUME KeptInv, UNCHANGED store, KeptAfter
    PROVE  StoreTypes' /\ AttemptsKept'
BY DEF KeptInv, store, StoreTypes, KeptAfter, AttemptsKept, Kept

\* The firmware is left alone.
LEMMA DeviceSame ==
    ASSUME KeptInv, UNCHANGED device
    PROVE  DeviceTypes' /\ DeviceFits' /\ KeptAfter
BY DEF KeptInv, device, DeviceTypes, DeviceFits, SlotShape, IdsFit, NeverErased,
   StagedIsNew, KeptAfter, AttemptsKept

\* The options are left alone.
LEMMA RowsSame ==
    ASSUME KeptInv, UNCHANGED <<rows, reloading>> PROVE RowTypes'
BY DEF KeptInv, RowTypes

\* The types of a dialog's step.
LEMMA FlowTyped ==
    ASSUME OneDialog, NEW f \in Flows, flow' \in [Flows -> FlowRecords],
           OneRow(flow'[f].seen), astray' \subseteq Shutters
    PROVE  FlowTypes'
BY DEF OneDialog, FlowTypes

-----------------------------------------------------------------------------
(* The firmware *)

\* What every operation of the firmware must leave.
DeviceKept == DeviceTypes' /\ DeviceFits' /\ KeptAfter

\* Slot s becomes r and nothing is learned.
LEMMA SlotChanges ==
    ASSUME KeptInv, NEW s \in Slots, NEW r \in SlotRecords,
           fw' = [fw EXCEPT ![s] = r], armed' \subseteq Slots, UNCHANGED <<paired, of>>,
           IF r.state = "empty" THEN r = Empty ELSE r.id \in Ids,
           r.id # fw[s].id => r.id = None /\ \A p \in paired : p[1] # fw[s].id,
           r.state = "staged" => fw[s].state = "staged",
           r.state = "pair_sent" => fw[s].state = "pair_sent"
    PROVE  DeviceKept
<1>1. DeviceTypes /\ DeviceFits /\ AttemptsKept
  BY DEF KeptInv
<1>2. fw'[s] = r /\ \A q \in Slots \ {s} : fw'[q] = fw[q]
  BY <1>1 DEF DeviceTypes
<1>3. DeviceTypes'
  BY <1>1 DEF DeviceTypes
<1>4. SlotShape'
  BY <1>1, <1>2 DEF DeviceFits, SlotShape
<1>5. IdsFit'
  BY <1>1, <1>2 DEF DeviceFits, IdsFit
<1>6. NeverErased'
  BY <1>1, <1>2 DEF DeviceFits, NeverErased
<1>7. StagedIsNew'
  <2>1. ASSUME NEW q \in Slots, NEW p \in paired, fw'[q].state = "staged"
        PROVE  fw'[q].id # p[1]
    <3>1. CASE q = s
      <4>1. fw[s].state = "staged" /\ r.id \in Ids
        BY <1>2, <2>1, <3>1
      <4>2. r.id = fw[s].id
        BY <4>1, NoneIsNoValue
      <4> QED BY <1>1, <1>2, <3>1, <4>1, <4>2 DEF DeviceFits, StagedIsNew
    <3>2. CASE q # s
      BY <1>1, <1>2, <2>1, <3>2 DEF DeviceFits, StagedIsNew
    <3> QED BY <3>1, <3>2
  <2> QED BY <2>1 DEF StagedIsNew
<1>8. KeptAfter
  BY <1>1, <1>2 DEF KeptAfter, AttemptsKept
<1> QED BY <1>3, <1>4, <1>5, <1>6, <1>7, <1>8 DEF DeviceKept, DeviceFits

\* A new identity is in no slot, hence was never learned.
LEMMA StageKeeps ==
    ASSUME KeptInv, NEW s \in Slots, NEW id \in Ids, NEW h \in Shutters, FwStage(s, id, h)
    PROVE  DeviceKept /\ fw'[s].state = "staged"
<1>1. DeviceTypes /\ DeviceFits /\ AttemptsKept
  BY DEF KeptInv
<1> DEFINE r == [state |-> "staged", id |-> id, remote |-> FALSE]
<1>2. r \in SlotRecords
  BY DEF SlotRecords, States
<1>3. /\ fw[s].state = "empty" /\ \A q \in Slots : fw[q].id # id
      /\ fw' = [fw EXCEPT ![s] = r] /\ of' = [of EXCEPT ![id] = h]
      /\ UNCHANGED <<armed, paired>>
  BY DEF FwStage
<1>4. fw'[s] = r /\ \A q \in Slots \ {s} : fw'[q] = fw[q]
  BY <1>1, <1>3 DEF DeviceTypes
<1>5. fw[s].id = None
  BY <1>1, <1>3 DEF DeviceFits, SlotShape, Empty
<1>6. /\ of' \in [Ids -> Shutters \cup {None}] /\ of'[id] = h
      /\ \A i \in Ids \ {id} : of'[i] = of[i]
  BY <1>1, <1>3 DEF DeviceTypes
<1>7. DeviceTypes'
  BY <1>1, <1>2, <1>3, <1>6 DEF DeviceTypes
<1>8. SlotShape'
  BY <1>1, <1>4 DEF DeviceFits, SlotShape
<1>9. IdsFit'
  <2>1. \A q \in Slots \ {s} : fw[q].id # None => fw[q].id \in Ids \ {id}
    BY <1>1, <1>3 DEF DeviceTypes, SlotRecords
  <2>2. \A p, q \in Slots : fw'[p].id = fw'[q].id /\ fw'[p].id # None => p = q
    BY <1>1, <1>3, <1>4 DEF DeviceFits, IdsFit
  <2>3. \A q \in Slots : fw'[q].id # None => of'[fw'[q].id] \in Shutters
    BY <1>1, <1>4, <1>6, <2>1 DEF DeviceFits, IdsFit
  <2> QED BY <2>2, <2>3 DEF IdsFit
<1>10. NeverErased'
  <2>1. ASSUME NEW p \in paired PROVE \E q \in Slots : fw'[q].id = p[1]
    <3>1. PICK q \in Slots : fw[q].id = p[1]
      BY <1>1 DEF DeviceFits, NeverErased
    <3>2. p[1] # None
      BY <1>1, NoneIsNoValue DEF DeviceTypes
    <3> QED BY <1>4, <1>5, <3>1, <3>2
  <2> QED BY <1>3, <2>1 DEF NeverErased
<1>11. StagedIsNew'
  BY <1>1, <1>3, <1>4 DEF DeviceFits, StagedIsNew, NeverErased
<1>12. KeptAfter
  BY <1>1, <1>4 DEF KeptAfter, AttemptsKept
<1> QED BY <1>4, <1>7, <1>8, <1>9, <1>10, <1>11, <1>12 DEF DeviceKept, DeviceFits

\* The first transmission follows an attempt that is on disk.
LEMMA PairKeeps ==
    ASSUME KeptInv, NEW f \in Flows, FwPair(f)
    PROVE  DeviceKept
<1> DEFINE s == flow[f].slot
<1>1. DeviceTypes /\ DeviceFits /\ AttemptsKept /\ FlowFits(f) /\ StoreFits(f)
  BY DEF KeptInv
<1>2. s \in Slots /\ flow[f].shutter \in Shutters /\ fw[s].state \in {"staged", "pair_sent"}
  BY <1>1 DEF FwPair, FlowFits
<1>3. fw[s] \in SlotRecords /\ fw[s].id \in Ids
  BY <1>1, <1>2 DEF DeviceTypes, DeviceFits, SlotShape
<1>4. /\ fw' = [fw EXCEPT ![s].state = "pair_sent"] /\ armed' = armed \ {s}
      /\ paired' \subseteq paired \cup {<<fw[s].id, flow[f].shutter>>}
      /\ paired \subseteq paired'
      /\ of' = of
  BY DEF FwPair
<1>5. /\ fw'[s].state = "pair_sent" /\ fw'[s].id = fw[s].id /\ fw'[s] \in SlotRecords
      /\ \A q \in Slots \ {s} : fw'[q] = fw[q]
  BY <1>1, <1>2, <1>3, <1>4 DEF DeviceTypes, SlotRecords, States
<1>6. fw' \in [Slots -> SlotRecords]
  <2>1. fw' = [q \in Slots |-> fw'[q]]
    BY <1>1, <1>4 DEF DeviceTypes
  <2> QED BY <1>1, <1>5, <2>1 DEF DeviceTypes
<1>7. DeviceTypes'
  BY <1>1, <1>2, <1>3, <1>4, <1>6 DEF DeviceTypes
<1>8. SlotShape' /\ IdsFit'
  BY <1>1, <1>3, <1>4, <1>5 DEF DeviceFits, SlotShape, IdsFit
<1>9. \A q \in Slots : fw'[q].id = fw[q].id
  BY <1>5
<1>10. NeverErased'
  BY <1>1, <1>2, <1>4, <1>9 DEF DeviceFits, NeverErased
<1>11. StagedIsNew'
  <2>1. ASSUME NEW q \in Slots, NEW p \in paired', fw'[q].state = "staged"
        PROVE  fw'[q].id # p[1]
    <3>1. q # s /\ fw'[q] = fw[q]
      BY <1>5, <2>1
    <3>2. CASE p \in paired
      BY <1>1, <2>1, <3>1, <3>2 DEF DeviceFits, StagedIsNew
    <3>3. CASE p = <<fw[s].id, flow[f].shutter>>
      <4>1. p[1] = fw[s].id /\ fw[s].id # None
        BY <1>3, <3>3, NoneIsNoValue
      <4> QED BY <1>1, <1>2, <3>1, <4>1 DEF DeviceFits, IdsFit
    <3> QED BY <1>4, <3>2, <3>3
  <2> QED BY <2>1 DEF StagedIsNew
<1>12. Kept(s)
  <2>1. CASE flow[f].form = "prepare"
    BY <1>1, <2>1 DEF FwPair, StoreFits, SettingUp, Arming, Kept
  <2>2. CASE flow[f].form # "prepare"
    BY <1>1, <1>2, <2>2 DEF FwPair, FlowFits, AttemptsKept
  <2> QED BY <2>1, <2>2
<1>13. KeptAfter
  BY <1>1, <1>5, <1>12 DEF KeptAfter, AttemptsKept
<1> QED BY <1>7, <1>8, <1>10, <1>11, <1>13 DEF DeviceKept, DeviceFits

\* The confirmation activates an identity that was transmitted.
LEMMA ConfirmKeeps ==
    ASSUME KeptInv, NEW f \in Flows, FwConfirm(f)
    PROVE  DeviceKept
<1> DEFINE s == flow[f].slot
           r == [fw[s] EXCEPT !.state = "active"]
<1>1. DeviceTypes /\ DeviceFits /\ FlowFits(f)
  BY DEF KeptInv
<1>2. s \in Slots /\ fw[s].state = "pair_sent"
  BY <1>1 DEF FwConfirm, FlowFits
<1>3. fw[s] \in SlotRecords /\ fw[s].id \in Ids
  BY <1>1, <1>2 DEF DeviceTypes, DeviceFits, SlotShape
<1>4. r \in SlotRecords /\ r.state = "active" /\ r.id = fw[s].id
  BY <1>3 DEF SlotRecords, States
<1>5. fw' = [fw EXCEPT ![s] = r] /\ UNCHANGED <<armed, paired, of>>
  BY <1>1 DEF FwConfirm, DeviceTypes
<1>6. armed' \subseteq Slots
  BY <1>1, <1>5 DEF DeviceTypes
<1> HIDE DEF s, r
<1> QED BY <1>2, <1>3, <1>4, <1>5, <1>6, SlotChanges

\* Only what was never learned is discarded.
LEMMA DiscardKeeps ==
    ASSUME KeptInv, NEW f \in Flows, FwDiscard(f)
    PROVE  DeviceKept /\ fw'[flow[f].slot].state # "pair_sent"
<1> DEFINE s == flow[f].slot
<1>1. DeviceTypes /\ DeviceFits /\ FlowFits(f)
  BY DEF KeptInv
<1>2. s \in Slots /\ fw[s].state = "staged"
  BY <1>1 DEF FwDiscard, FlowFits
<1>3. \A p \in paired : p[1] # fw[s].id
  BY <1>1, <1>2 DEF DeviceFits, StagedIsNew
<1>4. Empty \in SlotRecords /\ Empty.state = "empty" /\ Empty.id = None
  BY DEF Empty, SlotRecords, States
<1>5. fw' = [fw EXCEPT ![s] = Empty] /\ armed' \subseteq Slots /\ UNCHANGED <<paired, of>>
  BY <1>1 DEF FwDiscard, DeviceTypes
<1>6. fw'[s] = Empty
  BY <1>1, <1>2, <1>5 DEF DeviceTypes
<1> HIDE DEF s
<1>7. DeviceKept
  BY <1>2, <1>3, <1>4, <1>5, SlotChanges
<1> QED BY <1>4, <1>6, <1>7 DEF s

\* Two slots exchange what they have.
LEMMA Exchanged ==
    ASSUME KeptInv, NEW s \in Slots, NEW t \in Slots, s # t,
           fw' = [fw EXCEPT ![s] = fw[t], ![t] = fw[s]], UNCHANGED <<armed, paired, of>>,
           fw[s].state \in {"active", "empty"}, fw[t].state \in {"active", "empty"}
    PROVE  DeviceKept
<1>1. DeviceTypes /\ DeviceFits /\ AttemptsKept
  BY DEF KeptInv
<1>2. /\ fw'[s] = fw[t] /\ fw'[t] = fw[s]
      /\ \A q \in Slots \ {s, t} : fw'[q] = fw[q]
  BY <1>1 DEF DeviceTypes
<1>3. DeviceTypes'
  BY <1>1 DEF DeviceTypes
<1>4. SlotShape'
  BY <1>1, <1>2 DEF DeviceFits, SlotShape
<1> DEFINE from(q) == IF q = s THEN t ELSE IF q = t THEN s ELSE q
<1>a. ASSUME NEW q \in Slots
      PROVE  from(q) \in Slots /\ from(from(q)) = q /\ fw'[q] = fw[from(q)]
  BY <1>2
<1>b. \A p, q \in Slots : from(p) = from(q) => p = q
  OBVIOUS
<1> HIDE DEF from
<1>5. IdsFit'
  <2>1. \A p, q \in Slots : fw'[p].id = fw'[q].id /\ fw'[p].id # None => p = q
    BY <1>1, <1>a, <1>b DEF DeviceFits, IdsFit
  <2>2. ASSUME NEW q \in Slots, fw'[q].id # None PROVE of[fw'[q].id] \in Shutters
    <3>1. PICK p \in Slots : fw'[q] = fw[p]
      BY <1>a
    <3> QED BY <1>1, <2>2, <3>1 DEF DeviceFits, IdsFit
  <2> QED BY <2>1, <2>2 DEF IdsFit
<1>6. NeverErased'
  <2>1. ASSUME NEW p \in paired PROVE \E q \in Slots : fw'[q].id = p[1]
    <3>1. PICK q \in Slots : fw[q].id = p[1]
      BY <1>1 DEF DeviceFits, NeverErased
    <3>2. from(q) \in Slots /\ fw'[from(q)] = fw[q]
      BY <1>a
    <3> QED BY <3>1, <3>2
  <2> QED BY <2>1 DEF NeverErased
<1>7. StagedIsNew'
  BY <1>1, <1>2, ZenonT(30) DEF DeviceFits, StagedIsNew
<1>8. KeptAfter
  BY <1>1, <1>2 DEF KeptAfter, AttemptsKept
<1> QED BY <1>3, <1>4, <1>5, <1>6, <1>7, <1>8 DEF DeviceKept, DeviceFits

\* A move and a swap leave every identity in one slot.
LEMMA MoveKeeps ==
    ASSUME KeptInv, NEW f \in Flows, FwMove(f) \/ FwSwap(f)
    PROVE  DeviceKept
<1> DEFINE s == flow[f].slot
           t == flow[f].target
<1>1. DeviceTypes /\ DeviceFits /\ FlowFits(f)
  BY DEF KeptInv
<1>2. s \in Slots /\ t \in Slots
  BY <1>1 DEF FwMove, FwSwap, FlowFits
<1>3. s # t /\ fw[s].state = "active" /\ fw[t].state \in {"active", "empty"}
  BY <1>1 DEF FwMove, FwSwap, FlowFits
<1>4. fw' = [fw EXCEPT ![s] = fw[t], ![t] = fw[s]]
  BY <1>1, <1>2 DEF FwMove, FwSwap, DeviceFits, SlotShape
<1>5. UNCHANGED <<armed, paired, of>>
  BY DEF FwMove, FwSwap
<1> HIDE DEF s, t
<1> QED BY <1>2, <1>3, <1>4, <1>5, Exchanged

-----------------------------------------------------------------------------
(* The steps of a dialog *)

\* A step that changes neither the options nor the store.
LEMMA TalkKeeps ==
    ASSUME KeptInv, OneDialog, NEW f \in Flows, DeviceKept,
           UNCHANGED <<rows, store, reloading, hydration>>, astray' \subseteq Shutters,
           flow' \in [Flows -> FlowRecords], OneRow(flow'[f].seen),
           FlowFits(f)', StoreFits(f)'
    PROVE  KeptInv'
<1>1. DeviceTypes' /\ DeviceFits' /\ KeptAfter
  BY DEF DeviceKept
<1>2. RowTypes' /\ StoreTypes' /\ AttemptsKept'
  BY <1>1, RowsSame, StoreSame
<1>3. FlowTypes'
  BY FlowTyped
<1> QED BY <1>1, <1>2, <1>3, Assemble

\* The bridge did nothing.
LEMMA DeviceIdle == ASSUME KeptInv, UNCHANGED device PROVE DeviceKept
BY DeviceSame DEF DeviceKept

\* The dialog goes on to its next call or form.
LEMMA GoesKeeps ==
    ASSUME KeptInv, OneDialog, NEW f \in Flows, DeviceKept,
           UNCHANGED <<rows, store, reloading, astray, hydration>>,
           NEW at \in (Forms \cup Calls) \ {"none", "swap"}, NEW form \in Forms,
           Goes(f, at, form), FormFits(at, form), flow[f].at \notin {"none", "swap"},
           at \in {"move", "query_import"} => flow[f].target \in Slots,
           at = "discard" => fw'[flow[f].slot].state = "staged",
           at = "pair" => fw'[flow[f].slot].state =
                              IF form = "prepare" THEN "staged" ELSE "pair_sent",
           \/ at \in {"stage", "query_resume", "discover", "capture", "query_remote",
                      "prepare", "arm"}
           \/ at = "pair" /\ form = "prepare"
           => leftover = None /\ ~reloading /\ hydrations = {},
           at \in {"prepare", "arm"} \/ (at = "pair" /\ form = "prepare")
           => pending[flow[f].slot] # None /\ disk[flow[f].slot] # None
    PROVE  KeptInv'
<1>1. FlowTypes /\ FlowFits(f) /\ astray' \subseteq Shutters
  BY DEF KeptInv, FlowTypes
<1>2. /\ flow' \in [Flows -> FlowRecords] /\ OneRow(flow'[f].seen)
      /\ flow'[f].at = at /\ flow'[f].form = form
      /\ flow'[f].slot = flow[f].slot /\ flow'[f].target = flow[f].target
      /\ flow'[f].shutter = flow[f].shutter
  BY <1>1, GoesTo
<1>3. FlowFits(f)'
  BY <1>1, <1>2 DEF FlowFits
<1>4. UNCHANGED <<pending, unsaved, disk, leftover, hydrations, reloading>>
  BY DEF store, hydration
<1>5. StoreFits(f)'
  BY <1>2, <1>4 DEF StoreFits, SettingUp, Arming
<1> QED BY <1>1, <1>2, <1>3, <1>5, TalkKeeps

\* The reply is lost, whatever the bridge did.
LEMMA LostKeeps ==
    ASSUME KeptInv, OneDialog, NEW f \in Flows, DeviceKept, ReplyLost(f),
           flow[f].at \in Calls, astray' \subseteq Shutters, UNCHANGED hydration
    PROVE  KeptInv'
<1>1. /\ flow' \in [Flows -> FlowRecords] /\ OneRow(flow'[f].seen)
      /\ FlowFits(f)' /\ StoreFits(f)'
  BY Returns DEF ReplyLost
<1> QED BY <1>1, TalkKeeps DEF ReplyLost

\* What the invariant says of dialog f.
LEMMA Dialog ==
    ASSUME KeptInv, NEW f \in Flows
    PROVE  /\ flow[f] \in FlowRecords /\ flow[f].form \in Forms
           /\ FlowFits(f) /\ StoreFits(f) /\ astray \subseteq Shutters
           /\ "none" \notin Calls
BY DEF KeptInv, FlowTypes, FlowRecords, Calls

\* Calls that fail, or whose reply is lost.
LEMMA LostSteps ==
    ASSUME KeptInv, OneDialog, NEW f \in Flows, UNCHANGED hydration,
           \/ \E id \in Ids : StageLost(f, id)
           \/ ArmLost(f) \/ PairLost(f) \/ ConfirmLost(f) \/ DiscardLost(f)
           \/ MoveLost(f) \/ SwapLost(f) \/ Fail(f)
    PROVE  KeptInv'
<1>1. flow[f] \in FlowRecords /\ FlowFits(f) /\ astray \subseteq Shutters
  BY Dialog
<1>2. ASSUME NEW id \in Ids, StageLost(f, id) PROVE KeptInv'
  <2>1. flow[f].slot \in Slots /\ flow[f].shutter \in Shutters /\ flow[f].at \in Calls
    BY <1>1, <1>2 DEF StageLost, FlowFits, Calls
  <2>2. DeviceKept
    BY <1>2, <2>1, StageKeeps DEF StageLost
  <2> QED BY <1>1, <1>2, <2>1, <2>2, LostKeeps DEF StageLost
<1>3. CASE ArmLost(f)
  <2>1. DeviceKept
    <3>1. DeviceTypes /\ DeviceFits /\ AttemptsKept
      BY DEF KeptInv
    <3>2. flow[f].slot \in Slots
      BY <1>1, <1>3 DEF ArmLost, FwArm, FlowFits
    <3>3. armed' \subseteq Slots /\ UNCHANGED <<fw, paired, of>>
      BY <1>3, <3>1, <3>2 DEF ArmLost, FwArm, DeviceTypes
    <3> QED BY <3>1, <3>3 DEF DeviceKept, DeviceTypes, DeviceFits, SlotShape, IdsFit,
                NeverErased, StagedIsNew, KeptAfter, AttemptsKept
  <2>2. flow[f].at \in Calls /\ astray' = astray
    BY <1>3 DEF ArmLost, FwArm, Calls
  <2> QED BY <1>1, <1>3, <2>1, <2>2, LostKeeps DEF ArmLost
<1>4. CASE PairLost(f)
  <2>1. flow[f].at \in Calls /\ astray' = astray
    BY <1>4 DEF PairLost, FwPair, Calls
  <2> QED BY <1>1, <1>4, <2>1, PairKeeps, LostKeeps DEF PairLost
<1>5. CASE ConfirmLost(f)
  <2>1. flow[f].at \in Calls /\ astray' = astray
    BY <1>5 DEF ConfirmLost, FwConfirm, Calls
  <2> QED BY <1>1, <1>5, <2>1, ConfirmKeeps, LostKeeps DEF ConfirmLost
<1>6. CASE DiscardLost(f)
  <2>1. flow[f].at \in Calls /\ astray' = astray
    BY <1>6 DEF DiscardLost, FwDiscard, Calls
  <2> QED BY <1>1, <1>6, <2>1, DiscardKeeps, LostKeeps DEF DiscardLost
<1>7. CASE MoveLost(f)
  <2>1. flow[f].at \in Calls /\ astray' \subseteq Shutters
    BY <1>1, <1>7 DEF MoveLost, FwMove, FlowFits, Calls
  <2> QED BY <1>7, <2>1, MoveKeeps, LostKeeps DEF MoveLost
<1>8. CASE SwapLost(f)
  <2>1. rows \subseteq Rows
    BY DEF KeptInv, RowTypes
  <2>2. flow[f].at \in Calls /\ astray' \subseteq Shutters
    BY <1>1, <1>8, <2>1 DEF SwapLost, FwSwap, Calls, RowsAt, Rows
  <2> QED BY <1>8, <2>2, MoveKeeps, LostKeeps DEF SwapLost
<1>9. CASE Fail(f)
  <2>1. DeviceKept
    BY <1>9, DeviceIdle DEF Fail
  <2>2. ReplyLost(f) /\ flow[f].at \in Calls /\ astray' = astray
    BY <1>9 DEF Fail, ReplyLost
  <2> QED BY <1>1, <2>1, <2>2, LostKeeps
<1> QED BY <1>2, <1>3, <1>4, <1>5, <1>6, <1>7, <1>8, <1>9

\* Steps that only go on with the dialog.
LEMMA TalkSteps ==
    ASSUME KeptInv, OneDialog, NEW f \in Flows, UNCHANGED hydration,
           \/ Discover(f) \/ SubmitCapture(f) \/ SubmitPrepare(f) \/ SubmitRetry(f)
           \/ Arm(f) \/ SubmitConfirm(f) \/ Confirm(f) \/ Calibrate(f)
           \/ SubmitFinish(f) \/ QueryResume(f) \/ QueryImport(f) \/ Dismiss(f)
    PROVE  KeptInv'
<1>1. /\ flow[f] \in FlowRecords /\ FlowFits(f) /\ StoreFits(f)
      /\ astray \subseteq Shutters
  BY Dialog
<1>2. /\ {"capture", "prepare", "retry", "confirm", "finish"} \subseteq Forms
      /\ {"discover", "query_remote", "arm", "retry_arm", "pair", "confirming",
          "calibrate", "export", "discard", "move"} \subseteq Calls
      /\ "none" \notin Calls /\ "swap" \notin Forms /\ "none" \in Forms
  BY DEF Forms, Calls
<1>3. CASE Discover(f)
  <2>1. /\ DeviceKept /\ Goes(f, "capture", "capture") /\ SettingUp(f)
        /\ flow[f].at \notin {"none", "swap"}
    BY <1>3, DeviceIdle DEF Discover, SettingUp
  <2> QED BY <1>1, <1>2, <1>3, <2>1, GoesKeeps DEF Discover, FormFits, StoreFits
<1>4. CASE SubmitCapture(f)
  <2>1. /\ DeviceKept /\ Goes(f, "query_remote", "capture") /\ SettingUp(f)
        /\ flow[f].at \notin {"none", "swap"}
    BY <1>4, DeviceIdle DEF SubmitCapture, Submits, SettingUp
  <2> QED BY <1>1, <1>2, <1>4, <2>1, GoesKeeps DEF SubmitCapture, FormFits, StoreFits
<1>5. CASE SubmitPrepare(f)
  <2>1. /\ DeviceKept /\ Goes(f, "arm", "prepare") /\ SettingUp(f)
        /\ flow[f].at = "prepare" /\ Patient
    BY <1>5, DeviceIdle DEF SubmitPrepare, Submits, SettingUp
  <2>2. pending[flow[f].slot] # None /\ disk[flow[f].slot] # None
    BY <1>1, <2>1 DEF StoreFits, Patient
  <2> QED BY <1>1, <1>2, <1>5, <2>1, <2>2, GoesKeeps
          DEF SubmitPrepare, FormFits, StoreFits
<1>6. CASE SubmitRetry(f)
  <2>1. DeviceKept /\ Goes(f, "retry_arm", "retry") /\ flow[f].at = "retry"
    BY <1>6, DeviceIdle DEF SubmitRetry, Submits
  <2> QED BY <1>1, <1>2, <1>6, <2>1, GoesKeeps DEF SubmitRetry, FormFits
<1>7. CASE Arm(f)
  <2>1. flow[f].slot \in Slots /\ flow[f].at \in {"arm", "retry_arm"}
    BY <1>1, <1>7 DEF Arm, FwArm, FlowFits
  <2>2. DeviceKept
    <3>1. DeviceTypes /\ DeviceFits /\ AttemptsKept
      BY DEF KeptInv
    <3>2. armed' \subseteq Slots /\ UNCHANGED <<fw, paired, of>>
      BY <1>7, <2>1, <3>1 DEF Arm, FwArm, DeviceTypes
    <3> QED BY <3>1, <3>2 DEF DeviceKept, DeviceTypes, DeviceFits, SlotShape, IdsFit,
                NeverErased, StagedIsNew, KeptAfter, AttemptsKept
  <2>3. /\ Goes(f, "pair", flow[f].form) /\ UNCHANGED <<rows, store, reloading, astray, fw>>
        /\ fw[flow[f].slot].state = IF flow[f].at = "arm" THEN "staged" ELSE "pair_sent"
    BY <1>7 DEF Arm, FwArm
  <2>4. CASE flow[f].at = "arm"
    <3>1. /\ flow[f].form = "prepare" /\ SettingUp(f) /\ Arming(f)
          /\ fw'[flow[f].slot].state = "staged"
      BY <1>1, <2>3, <2>4 DEF FlowFits, FormFits, SettingUp, Arming
    <3> QED BY <1>1, <1>2, <2>2, <2>3, <2>4, <3>1, GoesKeeps DEF FormFits, StoreFits
  <2>5. CASE flow[f].at = "retry_arm"
    <3>1. flow[f].form = "retry" /\ fw'[flow[f].slot].state = "pair_sent"
      BY <1>1, <2>3, <2>5 DEF FlowFits, FormFits
    <3> QED BY <1>1, <1>2, <2>2, <2>3, <2>5, <3>1, GoesKeeps DEF FormFits
  <2> QED BY <2>1, <2>4, <2>5
<1>8. CASE SubmitConfirm(f)
  <2>1. DeviceKept /\ Goes(f, "confirming", "confirm") /\ flow[f].at = "confirm"
    BY <1>8, DeviceIdle DEF SubmitConfirm, Submits
  <2> QED BY <1>1, <1>2, <1>8, <2>1, GoesKeeps DEF SubmitConfirm, FormFits
<1>9. CASE Confirm(f)
  <2>1. DeviceKept /\ Goes(f, "calibrate", "finish") /\ flow[f].at = "confirming"
        /\ UNCHANGED astray
    BY <1>9, ConfirmKeeps DEF Confirm, FwConfirm
  <2> QED BY <1>1, <1>2, <1>9, <2>1, GoesKeeps DEF Confirm, FormFits
<1>10. CASE Calibrate(f)
  <2>1. DeviceKept /\ Goes(f, "export", "finish") /\ flow[f].at = "calibrate"
    BY <1>10, DeviceIdle DEF Calibrate
  <2> QED BY <1>1, <1>2, <1>10, <2>1, GoesKeeps DEF Calibrate, FormFits
<1>11. CASE SubmitFinish(f)
  <2>1. DeviceKept /\ Goes(f, "calibrate", "finish") /\ flow[f].at = "finish"
    BY <1>11, DeviceIdle DEF SubmitFinish, Submits
  <2> QED BY <1>1, <1>2, <1>11, <2>1, GoesKeeps DEF SubmitFinish, FormFits
<1>12. CASE QueryResume(f)
  <2>1. /\ DeviceKept /\ SettingUp(f) /\ flow[f].at = "query_resume"
        /\ UNCHANGED <<rows, store, reloading, astray, fw>>
    BY <1>12, DeviceIdle DEF QueryResume, SettingUp, device
  <2>2. \/ Goes(f, "discard", "none") /\ fw[flow[f].slot].state = "staged"
        \/ Goes(f, "retry", "retry") \/ Goes(f, "discover", "none")
        \/ Goes(f, "confirm", "confirm") \/ Goes(f, "calibrate", "finish")
    BY <1>12 DEF QueryResume, Discardable
  <2>3. CASE Goes(f, "discard", "none") /\ fw[flow[f].slot].state = "staged"
    BY <1>1, <1>2, <2>1, <2>3, GoesKeeps DEF FormFits
  <2>4. CASE Goes(f, "retry", "retry")
    BY <1>1, <1>2, <2>1, <2>4, GoesKeeps DEF FormFits
  <2>5. CASE Goes(f, "discover", "none")
    BY <1>1, <1>2, <2>1, <2>5, GoesKeeps DEF FormFits, StoreFits
  <2>6. CASE Goes(f, "confirm", "confirm")
    BY <1>1, <1>2, <2>1, <2>6, GoesKeeps DEF FormFits
  <2>7. CASE Goes(f, "calibrate", "finish")
    BY <1>1, <1>2, <2>1, <2>7, GoesKeeps DEF FormFits
  <2> QED BY <2>2, <2>3, <2>4, <2>5, <2>6, <2>7
<1>13. CASE QueryImport(f)
  <2>1. /\ DeviceKept /\ flow[f].at = "query_import" /\ flow[f].target \in Slots
        /\ UNCHANGED <<rows, store, reloading, astray>>
    BY <1>1, <1>13, DeviceIdle DEF QueryImport, FlowFits
  <2>2. CASE Goes(f, "calibrate", "finish")
    BY <1>1, <1>2, <2>1, <2>2, GoesKeeps DEF FormFits
  <2>3. CASE Goes(f, "move", "none")
    BY <1>1, <1>2, <2>1, <2>3, GoesKeeps DEF FormFits
  <2> QED BY <1>13, <2>2, <2>3 DEF QueryImport
<1>14. CASE Dismiss(f)
  <2>1. DeviceKept /\ Close(f) /\ UNCHANGED <<rows, store, reloading>>
    BY <1>14, DeviceIdle DEF Dismiss
  <2>2. astray' \subseteq Shutters
    BY <1>1, <1>14 DEF Dismiss, Abandoned, FlowFits
  <2>3. FlowTypes
    BY DEF KeptInv
  <2> QED BY <2>1, <2>2, <2>3, Closes, TalkKeeps
<1> QED BY <1>3, <1>4, <1>5, <1>6, <1>7, <1>8, <1>9, <1>10, <1>11, <1>12, <1>13, <1>14

\* A dialog is opened.
LEMMA OpenKeeps ==
    ASSUME KeptInv, OneDialog, NEW f \in Flows, NEW r \in FlowRecords,
           flow' = [flow EXCEPT ![f] = r],
           UNCHANGED <<device, rows, store, reloading, astray, hydration>>, Patient,
           r.at \in {"stage", "recalibrate", "query_resume", "query_import", "move", "swap"},
           r.form = "none", r.slot \in Slots, r.at # "swap" => r.shutter \in Shutters,
           r.at \in {"move", "swap", "query_import"} => r.target \in Slots,
           r.at = "swap" => r.target # r.slot, OneRow(r.seen)
    PROVE  KeptInv'
<1>1. FlowTypes /\ astray' \subseteq Shutters
  BY DEF KeptInv, FlowTypes
<1>2. flow'[f] = r /\ flow' \in [Flows -> FlowRecords]
  BY <1>1 DEF FlowTypes
<1>3. FlowFits(f)'
  BY <1>2 DEF FlowFits, FormFits
<1>4. leftover' = None /\ ~reloading' /\ hydrations' = {}
  BY DEF Patient, store, hydration
<1>5. StoreFits(f)'
  BY <1>2, <1>4 DEF StoreFits, SettingUp, Arming
<1> QED BY <1>1, <1>2, <1>3, <1>5, DeviceIdle, TalkKeeps

\* Dialogs that are opened.
LEMMA OpenSteps ==
    ASSUME KeptInv, OneDialog, NEW f \in Flows, UNCHANGED hydration,
           \/ \E s \in Slots, h \in Shutters : AddShutter(f, s, h)
           \/ \E r \in rows : EditCalibration(f, r)
           \/ \E r \in rows, t \in Slots : MoveShutter(f, r, t)
           \/ \E a, b \in rows : SwapShutters(f, a, b)
           \/ \E s \in Slots, action \in Actions : ResumeAttempt(f, s, action)
           \/ \E s, t \in Slots : ImportExisting(f, s, t)
    PROVE  KeptInv'
<1>1. rows \subseteq Rows /\ OneRow(rows) /\ pending \in Attempts
  BY DEF KeptInv, RowTypes, StoreTypes
<1>2. /\ Closed = [at |-> "none", form |-> "none", slot |-> None, source |-> None,
                   target |-> None, shutter |-> None, action |-> None, seen |-> {}]
      /\ {"stage", "recalibrate", "query_resume", "query_import", "move", "swap"}
            \subseteq Calls
      /\ "none" \in Forms /\ OneRow({})
  BY DEF Closed, Calls, Forms, OneRow
<1>3. ASSUME NEW s \in Slots, NEW h \in Shutters, AddShutter(f, s, h) PROVE KeptInv'
  <2> DEFINE r == [Closed EXCEPT !.at = "stage", !.slot = s, !.shutter = h]
  <2>1. /\ r \in FlowRecords
        /\ r.at = "stage" /\ r.form = "none" /\ r.slot = s /\ r.target = None
        /\ r.shutter = h /\ r.seen = {}
    BY <1>2 DEF FlowRecords, Closed
  <2>2. flow' = [flow EXCEPT ![f] = r]
    BY <1>3 DEF AddShutter
  <2>3. UNCHANGED <<device, rows, store, reloading, astray>> /\ Patient
    BY <1>3 DEF AddShutter, Submits
  <2> QED BY <1>2, <2>1, <2>2, <2>3, OpenKeeps
<1>4. ASSUME NEW w \in rows, EditCalibration(f, w) PROVE KeptInv'
  <2> DEFINE r == [Closed EXCEPT !.at = "recalibrate", !.slot = w.slot,
                                 !.shutter = w.shutter]
  <2>1. /\ r \in FlowRecords
        /\ r.at = "recalibrate" /\ r.form = "none" /\ r.slot = w.slot /\ r.target = None
        /\ r.shutter = w.shutter /\ r.seen = {}
        /\ w.slot \in Slots /\ w.shutter \in Shutters
    BY <1>1, <1>2 DEF FlowRecords, Closed, Rows
  <2>2. flow' = [flow EXCEPT ![f] = r]
    BY <1>4 DEF EditCalibration
  <2>3. UNCHANGED <<device, rows, store, reloading, astray>> /\ Patient
    BY <1>4 DEF EditCalibration, Submits
  <2> QED BY <1>2, <2>1, <2>2, <2>3, OpenKeeps
<1>5. ASSUME NEW w \in rows, NEW t \in Slots, MoveShutter(f, w, t) PROVE KeptInv'
  <2> DEFINE r == [Closed EXCEPT !.at = "move", !.slot = w.slot, !.target = t,
                                 !.shutter = w.shutter]
  <2>1. /\ r \in FlowRecords
        /\ r.at = "move" /\ r.form = "none" /\ r.slot = w.slot /\ r.target = t
        /\ r.shutter = w.shutter /\ r.seen = {}
        /\ w.slot \in Slots /\ w.shutter \in Shutters
    BY <1>1, <1>2 DEF FlowRecords, Closed, Rows
  <2>2. flow' = [flow EXCEPT ![f] = r]
    BY <1>5 DEF MoveShutter
  <2>3. UNCHANGED <<device, rows, store, reloading, astray>> /\ Patient
    BY <1>5 DEF MoveShutter, Submits
  <2> QED BY <1>2, <2>1, <2>2, <2>3, OpenKeeps
<1>6. ASSUME NEW a \in rows, NEW b \in rows, SwapShutters(f, a, b) PROVE KeptInv'
  <2> DEFINE r == [Closed EXCEPT !.at = "swap", !.slot = a.slot, !.target = b.slot,
                                 !.seen = rows]
  <2>1. /\ r \in FlowRecords
        /\ r.at = "swap" /\ r.form = "none" /\ r.slot = a.slot /\ r.target = b.slot
        /\ r.shutter = None /\ r.seen = rows
        /\ a.slot \in Slots /\ b.slot \in Slots
    BY <1>1, <1>2 DEF FlowRecords, Closed, Rows
  <2>2. flow' = [flow EXCEPT ![f] = r] /\ a.slot # b.slot
    BY <1>6 DEF SwapShutters
  <2>3. UNCHANGED <<device, rows, store, reloading, astray>> /\ Patient
    BY <1>6 DEF SwapShutters, Submits
  <2> QED BY <1>1, <1>2, <2>1, <2>2, <2>3, OpenKeeps
<1>7. ASSUME NEW s \in Slots, NEW action \in Actions, ResumeAttempt(f, s, action)
      PROVE  KeptInv'
  <2> DEFINE r == [Closed EXCEPT !.at = "query_resume", !.slot = s, !.shutter = pending[s],
                                 !.action = action]
  <2>1. pending[s] \in Shutters
    BY <1>1, <1>7 DEF ResumeAttempt, Attempts
  <2>2. /\ r \in FlowRecords
        /\ r.at = "query_resume" /\ r.form = "none" /\ r.slot = s /\ r.target = None
        /\ r.shutter = pending[s] /\ r.seen = {}
    BY <1>2, <2>1 DEF FlowRecords, Closed
  <2>3. flow' = [flow EXCEPT ![f] = r]
    BY <1>7 DEF ResumeAttempt
  <2>4. UNCHANGED <<device, rows, store, reloading, astray>> /\ Patient
    BY <1>7 DEF ResumeAttempt, Submits
  <2> QED BY <1>2, <2>1, <2>2, <2>3, <2>4, OpenKeeps
<1>8. ASSUME NEW s \in Slots, NEW t \in Slots, ImportExisting(f, s, t) PROVE KeptInv'
  <2> DEFINE h == of[fw[s].id]
             r == [Closed EXCEPT !.at = "query_import", !.slot = s, !.target = t,
                                 !.shutter = h]
  <2>1. fw[s].id # None
    BY <1>8, NoneIsNoValue DEF ImportExisting, KeptInv, DeviceFits, SlotShape
  <2>2. h \in Shutters
    BY <2>1 DEF KeptInv, DeviceFits, IdsFit
  <2>3. flow' = [flow EXCEPT ![f] = r]
    BY <1>8 DEF ImportExisting
  <2>4. UNCHANGED <<device, rows, store, reloading, astray>> /\ Patient
    BY <1>8 DEF ImportExisting, Submits
  <2> HIDE DEF h
  <2>5. /\ r \in FlowRecords
        /\ r.at = "query_import" /\ r.form = "none" /\ r.slot = s /\ r.target = t
        /\ r.shutter = h /\ r.seen = {}
    BY <1>2, <2>2 DEF FlowRecords, Closed
  <2> QED BY <1>2, <2>2, <2>3, <2>4, <2>5, OpenKeeps
<1> QED BY <1>3, <1>4, <1>5, <1>6, <1>7, <1>8

-----------------------------------------------------------------------------
(* Steps that change the options or the attempts *)

\* Rows are written that fit.
LEMMA WritesKeeps ==
    ASSUME KeptInv, NEW new, new \subseteq Rows, OneRow(new), Writes(new)
    PROVE  RowTypes'
<1>1. reloading' \in BOOLEAN
  BY DEF Writes, KeptInv, RowTypes
<1> QED BY <1>1 DEF Writes, RowTypes

\* One row takes the place of those in some slots, its own among them.
LEMMA RowReplaced ==
    ASSUME KeptInv, NEW slots, NEW r \in Rows, r.slot \in slots
    PROVE  /\ (rows \ RowsAt(slots)) \cup {r} \subseteq Rows
           /\ OneRow((rows \ RowsAt(slots)) \cup {r})
<1>1. rows \subseteq Rows /\ OneRow(rows)
  BY DEF KeptInv, RowTypes
<1>2. \A a \in rows \ RowsAt(slots) : a.slot # r.slot
  BY DEF RowsAt
<1> QED BY <1>1, <1>2 DEF OneRow

\* Slots trade their rows.
LEMMA RowsSwapped ==
    ASSUME NEW seen \in SUBSET Rows, OneRow(seen), NEW s \in Slots, NEW t \in Slots, s # t
    PROVE  Swapped(seen, s, t) \subseteq Rows /\ OneRow(Swapped(seen, s, t))
<1> DEFINE to(x) == IF x = s THEN t ELSE IF x = t THEN s ELSE x
           moved(r) == IF r.slot = s THEN [r EXCEPT !.slot = t]
                       ELSE IF r.slot = t THEN [r EXCEPT !.slot = s] ELSE r
<1>1. \A r \in seen : moved(r) \in Rows /\ moved(r).slot = to(r.slot)
  BY DEF Rows
<1>2. \A x, y : to(x) = to(y) => x = y
  OBVIOUS
<1>3. Swapped(seen, s, t) = {moved(r) : r \in seen}
  BY DEF Swapped
<1> HIDE DEF moved, to
<1>4. ASSUME NEW a \in Swapped(seen, s, t), NEW b \in Swapped(seen, s, t), a.slot = b.slot
      PROVE  a = b
  <2>1. PICK q \in seen : a = moved(q)
    BY <1>3
  <2>2. PICK r \in seen : b = moved(r)
    BY <1>3
  <2>3. q.slot = r.slot
    BY <1>1, <1>2, <1>4, <2>1, <2>2
  <2> QED BY <2>1, <2>2, <2>3 DEF OneRow
<1> QED BY <1>1, <1>3, <1>4 DEF OneRow

\* A dialog that ends.
LEMMA EndKeeps ==
    ASSUME KeptInv, OneDialog, NEW f \in Flows, Close(f), UNCHANGED <<hydration, astray>>,
           DeviceKept, RowTypes', StoreTypes', AttemptsKept'
    PROVE  KeptInv'
<1>1. FlowTypes /\ astray' \subseteq Shutters
  BY DEF KeptInv, FlowTypes
<1>2. /\ flow' \in [Flows -> FlowRecords] /\ OneRow(flow'[f].seen)
      /\ FlowFits(f)' /\ StoreFits(f)'
  BY <1>1, Closes
<1>3. FlowTypes'
  BY <1>1, <1>2, FlowTyped
<1> QED BY <1>2, <1>3, Assemble DEF DeviceKept

\* A dialog that remembers its attempt and goes on.
LEMMA RemembersKeeps ==
    ASSUME KeptInv, OneDialog, NEW f \in Flows, DeviceKept,
           UNCHANGED <<rows, reloading, astray, hydration>>,
           NEW at \in {"discover", "prepare", "confirm"}, NEW form \in Forms,
           Goes(f, at, form), FormFits(at, form), flow[f].at \notin {"none", "swap"},
           Remember(flow[f].slot, flow[f].shutter),
           at # "confirm" => SettingUp(f)
    PROVE  KeptInv'
<1>1. FlowTypes /\ FlowFits(f) /\ StoreFits(f) /\ astray' \subseteq Shutters
  BY DEF KeptInv, FlowTypes
<1>2. flow[f].slot \in Slots /\ flow[f].shutter \in Shutters /\ at \in Forms \cup Calls
  BY <1>1 DEF FlowFits, Forms, Calls
<1>3. flow[f].shutter # None
  BY <1>2, NoneIsNoValue
<1>4. /\ StoreTypes' /\ AttemptsKept' /\ pending'[flow[f].slot] = flow[f].shutter
      /\ unsaved' = TRUE /\ UNCHANGED <<leftover, disk>>
  BY <1>2, <1>3, RememberKeeps DEF DeviceKept, KeptAfter
<1>5. /\ flow' \in [Flows -> FlowRecords] /\ OneRow(flow'[f].seen)
      /\ flow'[f].at = at /\ flow'[f].form = form
      /\ flow'[f].slot = flow[f].slot /\ flow'[f].shutter = flow[f].shutter
  BY <1>1, <1>2, GoesTo
<1>6. FlowFits(f)'
  BY <1>1, <1>5 DEF FlowFits
<1>7. StoreFits(f)'
  <2>1. UNCHANGED <<leftover, reloading, hydrations>>
    BY <1>4 DEF hydration
  <2>2. SettingUp(f)' => SettingUp(f)
    BY <1>5 DEF SettingUp
  <2>3. ~Arming(f)'
    BY <1>5 DEF Arming
  <2> QED BY <1>1, <1>3, <1>4, <1>5, <2>1, <2>2, <2>3 DEF StoreFits
<1>8. FlowTypes' /\ RowTypes'
  BY <1>1, <1>5, FlowTyped, RowsSame
<1> QED BY <1>4, <1>6, <1>7, <1>8, Assemble DEF DeviceKept

\* Every such step keeps the invariant.
LEMMA ChangeSteps ==
    ASSUME KeptInv, OneDialog, NEW f \in Flows, UNCHANGED hydration,
           \/ \E id \in Ids : Stage(f, id)
           \/ QueryRemote(f) \/ Pair(f) \/ SaveUncertain(f) \/ SaveActive(f) \/ Discard(f)
           \/ Move(f) \/ Swap(f)
    PROVE  KeptInv'
<1>1. /\ flow[f] \in FlowRecords /\ FlowFits(f) /\ StoreFits(f) /\ FlowTypes
      /\ astray \subseteq Shutters
  BY Dialog DEF KeptInv
<1>2. /\ {"none", "capture", "prepare", "confirm", "finish"} \subseteq Forms
      /\ {"discover", "calibrate"} \subseteq Calls
  BY DEF Forms, Calls
<1>3. ASSUME NEW id \in Ids, Stage(f, id) PROVE KeptInv'
  <2>1. flow[f].slot \in Slots /\ flow[f].shutter \in Shutters /\ SettingUp(f)
    BY <1>1, <1>3 DEF Stage, FlowFits, SettingUp
  <2>2. DeviceKept
    BY <1>3, <2>1, StageKeeps DEF Stage
  <2> QED BY <1>2, <1>3, <2>1, <2>2, RemembersKeeps DEF Stage, FormFits
<1>4. CASE QueryRemote(f)
  <2>1. /\ DeviceKept /\ SettingUp(f) /\ flow[f].at \notin {"none", "swap"}
        /\ UNCHANGED <<rows, reloading, astray>>
    BY <1>4, DeviceIdle DEF QueryRemote, SettingUp
  <2>2. CASE Remember(flow[f].slot, flow[f].shutter) /\ Goes(f, "prepare", "prepare")
    BY <1>2, <2>1, <2>2, RemembersKeeps DEF FormFits
  <2>3. CASE Goes(f, "discover", "capture") /\ UNCHANGED store
    BY <1>1, <1>2, <2>1, <2>3, GoesKeeps DEF FormFits, StoreFits
  <2> QED BY <1>4, <2>2, <2>3 DEF QueryRemote
<1>5. CASE Pair(f)
  <2>1. DeviceKept /\ flow[f].at = "pair" /\ UNCHANGED astray
    BY <1>5, PairKeeps DEF Pair, FwPair
  <2> QED BY <1>2, <1>5, <2>1, RemembersKeeps DEF Pair, FormFits
<1>6. CASE SaveUncertain(f)
  <2> DEFINE r == [slot |-> flow[f].slot, shutter |-> flow[f].shutter,
                   state |-> "uncertain", remote |-> fw[flow[f].slot].remote]
  <2>1. flow[f].slot \in Slots /\ flow[f].shutter \in Shutters
    BY <1>1, <1>6 DEF SaveUncertain, Submits, FlowFits
  <2>2. fw[flow[f].slot].remote \in BOOLEAN
    BY <2>1 DEF KeptInv, DeviceTypes, SlotRecords
  <2>3. r \in Rows /\ r.slot \in {flow[f].slot}
    BY <2>1, <2>2 DEF Rows
  <2>4. Writes((rows \ RowsAt({flow[f].slot})) \cup {r}) /\ Close(f)
        /\ UNCHANGED <<device, store, astray>>
    BY <1>6 DEF SaveUncertain
  <2> HIDE DEF r
  <2>5. RowTypes'
    BY <2>3, <2>4, RowReplaced, WritesKeeps
  <2>6. DeviceKept
    BY <2>4, DeviceIdle
  <2>7. StoreTypes' /\ AttemptsKept'
    BY <2>4, <2>6, StoreSame DEF DeviceKept
  <2> QED BY <2>4, <2>5, <2>6, <2>7, EndKeeps
<1>7. CASE SaveActive(f)
  <2>1. /\ flow[f].slot \in Slots /\ flow[f].shutter \in Shutters
        /\ fw[flow[f].slot].state = "active"
    BY <1>1, <1>7 DEF SaveActive, FlowFits
  <2>2. fw[flow[f].slot].remote \in BOOLEAN
    BY <2>1 DEF KeptInv, DeviceTypes, SlotRecords
  <2>3. PICK known \in BOOLEAN :
           Writes((rows \ RowsAt(Replaced(f))) \cup
                  {[slot |-> flow[f].slot, shutter |-> flow[f].shutter,
                    state |-> "active", remote |-> known]})
    BY <1>7, <2>2 DEF SaveActive
  <2> DEFINE r == [slot |-> flow[f].slot, shutter |-> flow[f].shutter,
                   state |-> "active", remote |-> known]
  <2>4. r \in Rows /\ r.slot \in Replaced(f)
    BY <2>1, NoneIsNoValue DEF Rows, Replaced
  <2> HIDE DEF r
  <2>5. RowTypes'
    BY <2>3, <2>4, RowReplaced, WritesKeeps DEF r
  <2>6. DeviceKept /\ UNCHANGED <<fw, astray>> /\ Remember(flow[f].slot, None) /\ Close(f)
    BY <1>7, DeviceIdle DEF SaveActive, device
  <2>7. StoreTypes' /\ AttemptsKept'
    BY <2>1, <2>6, RememberKeeps DEF DeviceKept, KeptAfter
  <2> QED BY <2>5, <2>6, <2>7, EndKeeps
<1>8. CASE Discard(f)
  <2>1. flow[f].slot \in Slots
    BY <1>1, <1>8 DEF Discard, FwDiscard, FlowFits
  <2>2. /\ DeviceKept /\ fw'[flow[f].slot].state # "pair_sent"
        /\ Remember(flow[f].slot, None) /\ Close(f)
        /\ UNCHANGED <<rows, reloading, astray>>
    BY <1>8, DiscardKeeps DEF Discard, FwDiscard
  <2>3. StoreTypes' /\ AttemptsKept'
    BY <2>1, <2>2, RememberKeeps DEF DeviceKept, KeptAfter
  <2> QED BY <2>2, <2>3, RowsSame, EndKeeps
<1>9. CASE Move(f)
  <2> DEFINE r == [flow[f] EXCEPT !.at = "calibrate", !.form = "finish",
                                  !.slot = flow[f].target, !.source = flow[f].slot]
  <2>1. /\ flow[f].at = "move" /\ flow[f].target \in Slots
        /\ flow[f].slot \in Slots /\ flow[f].shutter \in Shutters
    BY <1>1, <1>9 DEF Move, FwMove, FlowFits
  <2>2. /\ r \in FlowRecords /\ r.at = "calibrate" /\ r.form = "finish"
        /\ r.slot = flow[f].target /\ r.shutter = flow[f].shutter /\ r.seen = flow[f].seen
    BY <1>1, <1>2, <2>1 DEF FlowRecords
  <2>3. flow' = [flow EXCEPT ![f] = r]
    BY <1>1, <1>9 DEF Move, FlowTypes
  <2> HIDE DEF r
  <2>4. flow'[f] = r /\ flow' \in [Flows -> FlowRecords] /\ OneRow(flow'[f].seen)
    BY <1>1, <2>2, <2>3 DEF FlowTypes
  <2>5. FlowFits(f)'
    BY <2>1, <2>2, <2>4 DEF FlowFits, FormFits
  <2>6. StoreFits(f)'
    BY <2>2, <2>4 DEF StoreFits, SettingUp, Arming
  <2>7. DeviceKept /\ UNCHANGED <<rows, store, reloading, astray>>
    BY <1>9, MoveKeeps DEF Move
  <2> QED BY <1>1, <2>4, <2>5, <2>6, <2>7, TalkKeeps
<1>10. CASE Swap(f)
  <2> DEFINE new == Swapped(flow[f].seen, flow[f].slot, flow[f].target)
  <2>1. /\ flow[f].slot \in Slots /\ flow[f].target \in Slots
        /\ flow[f].slot # flow[f].target
    BY <1>1, <1>10 DEF Swap, FwSwap, FlowFits
  <2>2. flow[f].seen \in SUBSET Rows /\ OneRow(flow[f].seen)
    BY <1>1 DEF FlowRecords, FlowTypes
  <2>3. new \subseteq Rows /\ OneRow(new)
    BY <2>1, <2>2, RowsSwapped
  <2>4. DeviceKept /\ Writes(new) /\ Close(f) /\ UNCHANGED <<store, astray>>
    BY <1>10, MoveKeeps DEF Swap
  <2> HIDE DEF new
  <2>5. RowTypes'
    BY <2>3, <2>4, WritesKeeps
  <2>6. StoreTypes' /\ AttemptsKept'
    BY <2>4, StoreSame DEF DeviceKept
  <2> QED BY <2>4, <2>5, <2>6, EndKeeps
<1> QED BY <1>3, <1>4, <1>5, <1>6, <1>7, <1>8, <1>9, <1>10

-----------------------------------------------------------------------------
(* The store, the entry and the remotes, while dialogs wait *)

\* Nothing that runs behind the dialogs changes what the slots are.
LEMMA BehindKeeps ==
    ASSUME KeptInv, UNCHANGED <<flow, astray>>, DeviceKept,
           \A s \in Slots : fw'[s].state = fw[s].state,
           RowTypes', StoreTypes', HydrationTypes', AttemptsKept',
           \A f \in Flows : StoreFits(f)'
    PROVE  KeptInv'
<1>1. FlowTypes'
  BY DEF KeptInv, FlowTypes
<1>2. ASSUME NEW f \in Flows PROVE FlowFits(f)'
  <2>1. FlowFits(f) /\ flow' = flow
    BY DEF KeptInv
  <2> QED BY <2>1 DEF FlowFits
<1> QED BY <1>1, <1>2 DEF KeptInv, DeviceKept

\* The remote is heard: the slot keeps its state and identity.
LEMMA HearKeeps ==
    ASSUME KeptInv, NEW s \in Slots, Hear(s), UNCHANGED hydration
    PROVE  KeptInv'
<1> DEFINE r == [fw[s] EXCEPT !.remote = TRUE]
<1>1. /\ DeviceTypes /\ fw[s] \in SlotRecords /\ fw[s].state = "staged" /\ fw[s].id \in Ids
      /\ fw' = [fw EXCEPT ![s].remote = TRUE]
      /\ UNCHANGED <<armed, paired, of, rows, store, reloading, flow, astray>>
  BY DEF Hear, KeptInv, DeviceTypes, DeviceFits, SlotShape, Empty
<1>2. r \in SlotRecords /\ r.state = "staged" /\ r.id = fw[s].id
  BY <1>1 DEF SlotRecords
<1>3. fw' = [fw EXCEPT ![s] = r]
  BY <1>1 DEF DeviceTypes
<1> HIDE DEF r
<1>4. armed' \subseteq Slots
  BY <1>1 DEF DeviceTypes
<1>5. DeviceKept
  BY <1>1, <1>2, <1>3, <1>4, SlotChanges
<1>6. \A q \in Slots : fw'[q].state = fw[q].state
  BY <1>1, <1>2, <1>3 DEF DeviceTypes
<1>7. RowTypes' /\ StoreTypes' /\ AttemptsKept'
  BY <1>1, <1>5, RowsSame, StoreSame DEF DeviceKept
<1>8. HydrationTypes'
  BY DEF KeptInv, HydrationTypes, hydration
<1>9. \A f \in Flows : StoreFits(f)'
  BY <1>1 DEF KeptInv, StoreFits, SettingUp, Arming, store, hydration
<1> QED BY <1>1, <1>5, <1>6, <1>7, <1>8, <1>9, BehindKeeps

\* What is in memory is written.
LEMMA SaveKeeps ==
    ASSUME KeptInv, Save, UNCHANGED hydration PROVE KeptInv'
<1>1. /\ disk' = pending /\ unsaved' = FALSE
      /\ UNCHANGED <<device, rows, pending, leftover, reloading, flow, astray>>
  BY DEF Save
<1>2. DeviceKept /\ \A s \in Slots : fw'[s].state = fw[s].state
  BY <1>1, DeviceIdle DEF device
<1>3. StoreTypes'
  BY <1>1 DEF KeptInv, StoreTypes
<1>4. AttemptsKept'
  BY <1>1, <1>2 DEF KeptInv, AttemptsKept, Kept
<1>5. ASSUME NEW f \in Flows PROVE StoreFits(f)'
  <2>1. StoreFits(f)
    BY DEF KeptInv
  <2>2. (SettingUp(f) <=> SettingUp(f)') /\ (Arming(f) <=> Arming(f)')
    BY <1>1 DEF SettingUp, Arming
  <2> QED BY <1>1, <2>1, <2>2 DEF StoreFits, hydration
<1>6. HydrationTypes'
  BY DEF KeptInv, HydrationTypes, hydration
<1> QED BY <1>1, <1>2, <1>3, <1>4, <1>5, <1>6, RowsSame, BehindKeeps

\* A replaced runtime writes what it had: nobody is setting up a shutter.
LEMMA LeftoverKeeps ==
    ASSUME KeptInv, SaveLeftover, UNCHANGED hydration PROVE KeptInv'
<1>1. /\ leftover # None /\ disk' = leftover /\ leftover' = None
      /\ UNCHANGED <<device, rows, pending, unsaved, reloading, flow, astray>>
  BY DEF SaveLeftover
<1>2. DeviceKept /\ \A s \in Slots : fw'[s].state = fw[s].state
  BY <1>1, DeviceIdle DEF device
<1>3. StoreTypes'
  BY <1>1 DEF KeptInv, StoreTypes
<1>4. AttemptsKept'
  BY <1>1, <1>2 DEF KeptInv, AttemptsKept, Kept
<1>5. ASSUME NEW f \in Flows PROVE StoreFits(f)'
  <2>1. ~SettingUp(f)
    BY <1>1 DEF KeptInv, StoreFits
  <2>2. ~SettingUp(f)' /\ ~Arming(f)' /\ flow'[f].at # "prepare"
    BY <1>1, <2>1 DEF SettingUp, Arming
  <2> QED BY <2>2 DEF StoreFits
<1>6. HydrationTypes'
  BY DEF KeptInv, HydrationTypes, hydration
<1> QED BY <1>1, <1>2, <1>3, <1>4, <1>5, <1>6, RowsSame, BehindKeeps

\* The rows that were read are written, each in its slot.
LEMMA HydrateKeeps ==
    ASSUME KeptInv, NEW snapshot \in hydrations, NEW answers \in SUBSET Slots,
           Hydrate(snapshot, answers)
    PROVE  KeptInv'
<1> DEFINE lacking == {r \in snapshot : Lacks(r)}
           got(r) == IF r \in lacking /\ r.slot \in answers THEN Hydrated(r) ELSE r
           new == {got(r) : r \in snapshot}
<1>1. snapshot \subseteq Rows /\ OneRow(snapshot)
  BY DEF KeptInv, HydrationTypes
<1>2. /\ hydrations' = hydrations \ {snapshot}
      /\ unanswered' = (unanswered \/ \E r \in lacking : r.slot \notin answers)
      /\ IF new = snapshot THEN UNCHANGED <<rows, reloading>> ELSE Writes(new)
      /\ UNCHANGED <<device, store, flow, astray>>
  BY DEF Hydrate
<1>3. \A r \in snapshot : got(r) \in Rows /\ got(r).slot = r.slot
  <2>1. ASSUME NEW r \in snapshot PROVE Hydrated(r) \in Rows /\ Hydrated(r).slot = r.slot
    <3>1. r \in Rows /\ fw[r.slot].remote \in BOOLEAN
      BY <1>1 DEF Rows, KeptInv, DeviceTypes, SlotRecords
    <3> QED BY <3>1 DEF Hydrated, Rows
  <2> QED BY <1>1, <2>1
<1> HIDE DEF got
<1>4. new \subseteq Rows /\ OneRow(new)
  BY <1>1, <1>3 DEF OneRow
<1>5. HydrationTypes'
  BY <1>2 DEF KeptInv, HydrationTypes
<1> HIDE DEF new
<1>6. RowTypes'
  BY <1>2, <1>4, WritesKeeps, RowsSame
<1>7. DeviceKept /\ \A s \in Slots : fw'[s].state = fw[s].state
  BY <1>2, DeviceIdle DEF device
<1>8. StoreTypes' /\ AttemptsKept'
  BY <1>2, <1>7, StoreSame DEF DeviceKept
<1>9. ASSUME NEW f \in Flows PROVE StoreFits(f)'
  <2>1. ~SettingUp(f)
    BY DEF KeptInv, StoreFits
  <2>2. ~SettingUp(f)' /\ ~Arming(f)' /\ flow'[f].at # "prepare"
    BY <1>2, <2>1 DEF SettingUp, Arming
  <2> QED BY <2>2 DEF StoreFits
<1> QED BY <1>2, <1>5, <1>6, <1>7, <1>8, <1>9, BehindKeeps

\* What is loaded has every attempt of the store.
LEMMA LoadedKeeps ==
    ASSUME KeptInv
    PROVE  Loaded \in Attempts /\ \A s \in Slots : disk[s] # None => Loaded[s] = disk[s]
<1>1. disk \in Attempts /\ rows \subseteq Rows
  BY DEF KeptInv, StoreTypes, RowTypes
<1>2. ASSUME NEW s \in Slots, \E r \in RowsAt({s}) : r.state = "uncertain"
      PROVE  (CHOOSE r \in RowsAt({s}) : r.state = "uncertain").shutter \in Shutters
  <2>1. (CHOOSE r \in RowsAt({s}) : r.state = "uncertain") \in RowsAt({s})
    BY <1>2
  <2> QED BY <1>1, <2>1 DEF RowsAt, Rows
<1> QED BY <1>1, <1>2 DEF Loaded, Attempts

\* A task that looks for remotes reads the rows as they are.
LEMMA HydratesTyped ==
    ASSUME KeptInv, NEW running \in SUBSET hydrations, Hydrates(running)
    PROVE  HydrationTypes'
BY DEF KeptInv, RowTypes, HydrationTypes, Hydrates

\* The new runtime has every attempt that was on disk.
LEMMA ReloadKeeps ==
    ASSUME KeptInv, Reload PROVE KeptInv'
<1>1. /\ reloading /\ reloading' = FALSE /\ pending' = Loaded /\ unsaved' = FALSE
      /\ leftover' = IF unsaved THEN pending ELSE leftover
      /\ UNCHANGED <<device, rows, disk, flow, astray>> /\ Hydrates(hydrations)
  BY DEF Reload
<1>2. DeviceKept /\ \A s \in Slots : fw'[s].state = fw[s].state
  BY <1>1, DeviceIdle DEF device
<1>3. StoreTypes'
  BY <1>1, LoadedKeeps DEF KeptInv, StoreTypes
<1>4. AttemptsKept'
  BY <1>1, <1>2, LoadedKeeps DEF KeptInv, AttemptsKept, Kept
<1>5. ASSUME NEW f \in Flows PROVE StoreFits(f)'
  <2>1. ~SettingUp(f)
    BY <1>1 DEF KeptInv, StoreFits
  <2>2. ~SettingUp(f)' /\ ~Arming(f)' /\ flow'[f].at # "prepare"
    BY <1>1, <2>1 DEF SettingUp, Arming
  <2> QED BY <2>2 DEF StoreFits
<1>6. RowTypes'
  BY <1>1 DEF KeptInv, RowTypes
<1> QED BY <1>1, <1>2, <1>3, <1>4, <1>5, <1>6, HydratesTyped, BehindKeeps

\* No dialog survives a crash.
LEMMA CrashKeeps ==
    ASSUME KeptInv, Crash PROVE KeptInv'
<1>1. /\ reloading' = FALSE /\ pending' = Loaded /\ unsaved' = FALSE /\ leftover' = None
      /\ flow' = [f \in Flows |-> Closed]
      /\ astray' = astray \cup UNION {Abandoned(f) : f \in Flows}
      /\ UNCHANGED <<device, rows, disk>> /\ Hydrates({})
  BY DEF Crash
<1>2. DeviceKept
  BY <1>1, DeviceIdle
<1>3. StoreTypes'
  BY <1>1, LoadedKeeps DEF KeptInv, StoreTypes
<1>4. AttemptsKept'
  BY <1>1, <1>2, LoadedKeeps DEF KeptInv, AttemptsKept, Kept, DeviceKept, KeptAfter
<1>5. Closed \in FlowRecords /\ Closed.at = "none" /\ Closed.seen = {}
  BY DEF Closed, FlowRecords, Forms
<1>6. FlowTypes'
  <2>1. ASSUME NEW f \in Flows PROVE Abandoned(f) \subseteq Shutters
    BY DEF KeptInv, FlowFits, Abandoned
  <2> QED BY <1>1, <1>5, <2>1 DEF KeptInv, FlowTypes, OneRow
<1>7. ASSUME NEW f \in Flows PROVE FlowFits(f)' /\ StoreFits(f)'
  <2>1. flow'[f].at = "none"
    BY <1>1, <1>5
  <2> QED BY <2>1 DEF FlowFits, FormFits, StoreFits, SettingUp, Arming
<1>8. RowTypes'
  BY <1>1 DEF KeptInv, RowTypes
<1>9. HydrationTypes'
  BY <1>1, HydratesTyped
<1> QED BY <1>2, <1>3, <1>4, <1>6, <1>7, <1>8, <1>9 DEF KeptInv, DeviceKept

-----------------------------------------------------------------------------
(* The invariant holds *)

\* What ESPHome's configuration had paired is in its slot.
LEMMA InitKept == Init => KeptInv
<1> SUFFICES ASSUME Init PROVE KeptInv
  OBVIOUS
<1>1. Empty \in SlotRecords /\ Empty.state = "empty" /\ Empty.id = None
  BY DEF Empty, SlotRecords, States
<1>2. ASSUME NEW s \in Slots
      PROVE  \/ fw[s] = Empty
             \/ fw[s] \in SlotRecords /\ fw[s].state = "active" /\ fw[s].id \in Ids
  <2>1. fw[s] \in {Empty} \cup {[state |-> "active", id |-> id, remote |-> FALSE] : id \in Ids}
    BY DEF Init
  <2>2. \A id \in Ids : [state |-> "active", id |-> id, remote |-> FALSE] \in SlotRecords
    BY DEF SlotRecords, States
  <2> QED BY <2>1, <2>2
<1>3. DeviceTypes
  <2>1. fw = [s \in Slots |-> fw[s]]
    BY DEF Init
  <2>2. fw \in [Slots -> SlotRecords]
    BY <1>1, <1>2, <2>1
  <2>3. paired \subseteq Ids \X Shutters
    BY DEF Init
  <2> QED BY <2>2, <2>3 DEF Init, DeviceTypes
<1>4. SlotShape
  BY <1>1, <1>2 DEF SlotShape
<1>5. IdsFit
  <2>1. ASSUME NEW s \in Slots, fw[s].id # None PROVE of[fw[s].id] \in Shutters
    <3>1. fw[s].id \in Ids
      BY <1>1, <1>2, <2>1
    <3> QED BY <3>1 DEF Init
  <2> QED BY <2>1 DEF Init, IdsFit
<1>6. NeverErased
  BY DEF Init, NeverErased
<1>7. StagedIsNew /\ AttemptsKept
  BY <1>1, <1>2 DEF StagedIsNew, AttemptsKept
<1>8. RowTypes /\ StoreTypes /\ HydrationTypes
  BY DEF Init, RowTypes, OneRow, StoreTypes, HydrationTypes, Attempts
<1>9. Closed \in FlowRecords /\ Closed.at = "none" /\ Closed.seen = {}
  BY DEF Closed, FlowRecords, Forms
<1>10. FlowTypes
  BY <1>9 DEF Init, FlowTypes, OneRow
<1>11. ASSUME NEW f \in Flows PROVE FlowFits(f) /\ StoreFits(f)
  <2>1. flow[f].at = "none"
    BY <1>9 DEF Init
  <2> QED BY <2>1 DEF FlowFits, FormFits, StoreFits, SettingUp, Arming
<1> QED BY <1>3, <1>4, <1>5, <1>6, <1>7, <1>8, <1>10, <1>11 DEF KeptInv, DeviceFits

\* Every step of the one dialog, and every step behind it, keeps the invariant.
LEMMA StepKept == ASSUME OneDialog, KeptInv, [Next]_vars PROVE KeptInv'
<1>1. ASSUME NEW f \in Flows, Working(f) \/ User(f, Shutters) \/ Maintains(f, rows, Slots),
             UNCHANGED hydration
      PROVE  KeptInv'
  <2>1. CASE Working(f)
    BY <1>1, <2>1, TalkSteps, LostSteps, ChangeSteps DEF Working
  <2>2. CASE User(f, Shutters)
    BY <1>1, <2>2, TalkSteps, ChangeSteps, OpenSteps DEF User
  <2>3. CASE Maintains(f, rows, Slots)
    BY <1>1, <2>3, OpenSteps DEF Maintains
  <2> QED BY <1>1, <2>1, <2>2, <2>3
<1>2. CASE Background
  BY <1>2, HearKeeps, SaveKeeps, LeftoverKeeps, HydrateKeeps, ReloadKeeps, CrashKeeps
     DEF Background
<1>3. CASE UNCHANGED vars
  <2>1. UNCHANGED <<device, rows, store, reloading, flow, astray, hydration>>
    BY <1>3 DEF vars
  <2>2. DeviceKept /\ \A s \in Slots : fw'[s].state = fw[s].state
    BY <2>1, DeviceIdle DEF device
  <2>3. RowTypes' /\ StoreTypes' /\ AttemptsKept'
    BY <2>1, <2>2, RowsSame, StoreSame DEF DeviceKept
  <2>4. HydrationTypes'
    BY <2>1 DEF KeptInv, HydrationTypes, hydration
  <2>5. \A f \in Flows : StoreFits(f)'
    BY <2>1 DEF KeptInv, StoreFits, SettingUp, Arming, store, hydration
  <2> QED BY <2>1, <2>2, <2>3, <2>4, <2>5, BehindKeeps
<1> QED BY <1>1, <1>2, <1>3 DEF Next

\* The invariant holds in every state of the program.
LEMMA AlwaysKept == ASSUME OneDialog PROVE Spec => []KeptInv
<1>1. KeptInv /\ [Next]_vars => KeptInv'
  BY StepKept
<1> QED BY <1>1, InitKept, PTL DEF Spec

\* Every variable keeps its type and a slot never has two rows, whichever of the
\* steps of a dialog, a hydration, a swap or a reload writes the options.
THEOREM CommissioningTyped == ASSUME OneDialog PROVE Spec => []TypeOK
<1>1. KeptInv => TypeOK
  BY DEF KeptInv, DeviceTypes, RowTypes, StoreTypes, FlowTypes, HydrationTypes, OneRow,
         TypeOK
<1> QED BY <1>1, AlwaysKept, PTL

\* _async_pair, async_remember_pending, the delayed save, a reload and a crash:
\* the shutter of an identity that was transmitted can always be resumed.
THEOREM AttemptsSurvive == ASSUME OneDialog PROVE Spec => []PairedIsKept
<1>1. KeptInv => PairedIsKept
  BY DEF KeptInv, AttemptsKept, Kept, PairedIsKept
<1> QED BY <1>1, AlwaysKept, PTL

\* async_step_resume_attempt discards only what is staged, and a move or a swap
\* leaves every identity in a slot: what a motor may have learned is never erased.
THEOREM IdentitiesSurvive == ASSUME OneDialog PROVE Spec => []NeverErased
<1>1. KeptInv => NeverErased
  BY DEF KeptInv, DeviceFits
<1> QED BY <1>1, AlwaysKept, PTL

-----------------------------------------------------------------------------
(* The rows *)

\* Two controllers are not for one shutter.
ShuttersFit ==
    \A s, t \in Slots :
        fw[s].id # None /\ fw[t].id # None /\ of[fw[s].id] = of[fw[t].id] => s = t

Operates(r) == fw[r.slot].state = "active" /\ of[fw[r.slot].id] = r.shutter

\* An active row whose shutter was not left behind by a move or a swap.
Current(r) == r.state = "active" /\ r.shutter \notin astray

\* The slot that dialog f has moved its shutter from is empty, and has the only
\* row of it.
MovedFrom(f) ==
    flow[f].source # None =>
        /\ flow[f].at \in {"calibrate", "export", "finish"}
        /\ flow[f].source \in Slots
        /\ fw[flow[f].source].state = "empty"
        /\ \A r \in rows : Current(r) /\ r.shutter = flow[f].shutter => r.slot = flow[f].source

\* Slot s has a row, which is of its shutter.
HasRow(s) == \E r \in rows : r.slot = s /\ IsFor(s, r.shutter)

\* What dialog f knows of the shutter it is for, and nothing is written or
\* loaded while it is open.
DialogFits(f) ==
    /\ flow[f].at # "none" => leftover = None /\ ~reloading /\ hydrations = {}
    /\ flow[f].at = "stage" =>
          /\ flow[f].form = "none"
          /\ \A s \in Slots : fw[s].id # None => of[fw[s].id] # flow[f].shutter
    /\ flow[f].at \notin {"none", "stage", "swap"} => IsFor(flow[f].slot, flow[f].shutter)
    /\ flow[f].at = "swap" =>
          /\ flow[f].seen = rows
          /\ HasRow(flow[f].slot) /\ HasRow(flow[f].target)
    /\ MovedFrom(f)

\* A hydration has read the rows as they are, and none runs while a reload is due.
HydrationFits == hydrations \subseteq {rows} /\ (reloading => hydrations = {})

\* The row operates its shutter, or a dialog is about to replace it.
RowFits(r) == Operates(r) \/ \E f \in Flows : r.shutter \in Abandoned(f)

\* The wizard has activated the controller in slot s.
Activated(s) == fw[s].state = "active" /\ fw[s].remote /\ of[fw[s].id] \notin astray

\* Its shutter has the row, or its attempt survives, or it has just been moved here.
Managed(s) ==
    \/ \E r \in RowsAt({s}) : r.shutter = of[fw[s].id]
    \/ Kept(s)
    \/ \E f \in Flows : flow[f].source # None /\ flow[f].slot = s

RowsFit == \A r \in rows : Current(r) => RowFits(r)

SlotsManaged == \A s \in Slots : Activated(s) => Managed(s)

RowInv ==
    /\ ShuttersFit /\ HydrationFits
    /\ \A f \in Flows : DialogFits(f)
    /\ RowsFit /\ SlotsManaged /\ RemotesKnown

\* What the firmware has in a slot.
LEMMA SlotFacts ==
    ASSUME KeptInv, NEW s \in Slots
    PROVE  /\ fw[s] \in SlotRecords
           /\ fw[s].state = "empty" => fw[s] = Empty /\ fw[s].id = None /\ ~fw[s].remote
           /\ fw[s].state # "empty" => fw[s].id \in Ids /\ fw[s].id # None
<1>1. fw[s] \in SlotRecords
  BY DEF KeptInv, DeviceTypes
<1>2. IF fw[s].state = "empty" THEN fw[s] = Empty ELSE fw[s].id \in Ids
  BY DEF KeptInv, DeviceFits, SlotShape
<1> QED BY <1>1, <1>2, NoneIsNoValue DEF Empty

\* A row is of a slot and a shutter.
LEMMA RowFacts ==
    ASSUME KeptInv, NEW r \in rows
    PROVE  r \in Rows /\ r.slot \in Slots /\ r.shutter \in Shutters
BY DEF KeptInv, RowTypes, Rows

\* Two active slots of one shutter are one.
LEMMA SameSlot ==
    ASSUME KeptInv, ShuttersFit, NEW s \in Slots, NEW t \in Slots,
           fw[s].state # "empty", fw[t].state # "empty", of[fw[s].id] = of[fw[t].id]
    PROVE  s = t
BY SlotFacts DEF ShuttersFit

-----------------------------------------------------------------------------
(* Steps that leave the rows and the active controllers alone *)

\* What was active is left alone.
ActiveStays ==
    \A s \in Slots :
        fw[s].state = "active" => fw'[s] = fw[s] /\ of'[fw[s].id] = of[fw[s].id]

\* What becomes active was kept, and attempts of active controllers are not forgotten.
KeptStays ==
    \A s \in Slots : fw'[s].state = "active" =>
        /\ fw[s].state # "active" => Kept(s)
        /\ Kept(s) => Kept(s)'

LEMMA RowsStay ==
    ASSUME KeptInv, RowInv, rows' = rows, ActiveStays, astray \subseteq astray',
           \A f \in Flows : Abandoned(f) \subseteq Abandoned(f)' \cup astray'
    PROVE  RowsFit'
<1> SUFFICES ASSUME NEW r \in rows, Current(r)' PROVE RowFits(r)'
  BY DEF RowsFit
<1>1. RowFits(r) /\ r.shutter \notin astray'
  BY DEF RowInv, RowsFit, Current
<1>2. CASE Operates(r)
  BY <1>2, RowFacts DEF Operates, ActiveStays, RowFits
<1>3. CASE \E f \in Flows : r.shutter \in Abandoned(f)
  BY <1>1, <1>3 DEF RowFits
<1> QED BY <1>1, <1>2, <1>3 DEF RowFits

LEMMA ManagedStays ==
    ASSUME KeptInv, RowInv, rows' = rows, ActiveStays, KeptStays, astray \subseteq astray',
           \A f \in Flows : flow[f].source # None =>
               \/ flow[f].shutter \in astray'
               \/ flow'[f].source # None /\ flow'[f].slot = flow[f].slot
    PROVE  SlotsManaged'
<1> SUFFICES ASSUME NEW s \in Slots, Activated(s)' PROVE Managed(s)'
  BY DEF SlotsManaged
<1>1. fw'[s].state = "active"
  BY DEF Activated
<1>2. CASE Kept(s)
  BY <1>1, <1>2 DEF KeptStays, Managed
<1>3. CASE ~Kept(s)
  <2>1. fw[s].state = "active" /\ fw'[s] = fw[s] /\ of'[fw[s].id] = of[fw[s].id]
    BY <1>1, <1>3 DEF KeptStays, ActiveStays
  <2>2. Managed(s) /\ of[fw[s].id] \notin astray'
    BY <2>1 DEF RowInv, SlotsManaged, Activated
  <2>3. CASE \E r \in RowsAt({s}) : r.shutter = of[fw[s].id]
    BY <2>1, <2>3 DEF RowsAt, Managed
  <2>4. CASE \E f \in Flows : flow[f].source # None /\ flow[f].slot = s
    <3>1. PICK f \in Flows : flow[f].source # None /\ flow[f].slot = s
      BY <2>4
    <3>2. IsFor(s, flow[f].shutter)
      BY <3>1 DEF RowInv, DialogFits, MovedFrom
    <3>3. flow[f].shutter \notin astray'
      BY <2>1, <2>2, <3>2, SlotFacts DEF IsFor
    <3> QED BY <3>1, <3>3 DEF Managed
  <2> QED BY <1>3, <2>2, <2>3, <2>4 DEF Managed
<1> QED BY <1>2, <1>3

LEMMA RemotesStay ==
    ASSUME KeptInv, RowInv, UNCHANGED <<rows, reloading, hydration>>, ActiveStays,
           astray \subseteq astray',
           \A s \in Slots : fw[s].state = "empty" => ~fw'[s].remote
    PROVE  RemotesKnown'
<1> SUFFICES ASSUME ~reloading /\ hydrations = {} /\ ~unanswered,
                    NEW r \in rows, Lacks(r), r.shutter \notin astray
             PROVE  ~fw'[r.slot].remote
  BY DEF RemotesKnown, hydration, Lacks
<1>1. RowFits(r) /\ Current(r) /\ ~fw[r.slot].remote /\ r.slot \in Slots
  BY RowFacts DEF RowInv, RowsFit, Current, Lacks, RemotesKnown
<1>2. CASE Operates(r)
  BY <1>1, <1>2 DEF Operates, ActiveStays
<1>3. CASE \E f \in Flows : r.shutter \in Abandoned(f)
  <2>1. PICK f \in Flows : flow[f].source # None /\ r.shutter = flow[f].shutter
    BY <1>3 DEF Abandoned
  <2>2. MovedFrom(f)
    BY DEF RowInv, DialogFits
  <2> QED BY <1>1, <2>1, <2>2 DEF MovedFrom
<1> QED BY <1>1, <1>2, <1>3 DEF RowFits

-----------------------------------------------------------------------------
(* Dialogs and the rows *)

\* What dialog f becomes.
Follows(f) ==
    /\ DialogFits(f)'
    /\ Abandoned(f) \subseteq Abandoned(f)' \cup astray'
    /\ flow[f].source # None =>
          \/ flow[f].shutter \in astray'
          \/ flow'[f].source # None /\ flow'[f].slot = flow[f].slot

\* A step that leaves the rows and what was active alone.
LEMMA StepFits ==
    ASSUME KeptInv, RowInv, UNCHANGED <<rows, reloading, hydration>>, ActiveStays,
           KeptStays, astray \subseteq astray', ShuttersFit',
           \A s \in Slots : fw[s].state = "empty" => ~fw'[s].remote,
           \A f \in Flows : Follows(f)
    PROVE  RowInv'
<1>1. RowsFit'
  BY RowsStay DEF Follows
<1>2. SlotsManaged'
  BY ManagedStays DEF Follows
<1>3. RemotesKnown'
  BY RemotesStay
<1>4. HydrationFits'
  BY DEF RowInv, HydrationFits, hydration
<1> QED BY <1>1, <1>2, <1>3, <1>4 DEF RowInv, Follows

\* The firmware and the attempts are left alone.
LEMMA DeviceStays ==
    ASSUME KeptInv, RowInv, UNCHANGED device
    PROVE  /\ ActiveStays /\ ShuttersFit'
           /\ \A s \in Slots : fw[s].state = "empty" => ~fw'[s].remote
<1>1. UNCHANGED <<fw, of>>
  BY DEF device
<1>2. ActiveStays
  BY <1>1 DEF ActiveStays
<1>3. ShuttersFit'
  BY <1>1 DEF RowInv, ShuttersFit
<1> QED BY <1>1, <1>2, <1>3, SlotFacts

LEMMA StoreStays ==
    ASSUME UNCHANGED store, \A s \in Slots :
               fw'[s].state = "active" /\ fw[s].state # "active" => Kept(s)
    PROVE  KeptStays
BY DEF KeptStays, Kept, store

\* Nobody hears what goes on in the dialog that is closed.
LEMMA CloseFollows ==
    ASSUME KeptInv, NEW f \in Flows, Close(f),
           Abandoned(f) \subseteq astray',
           flow[f].source # None => flow[f].shutter \in astray'
    PROVE  Follows(f)
<1>1. /\ Closed.at = "none" /\ Closed.source = None
  BY DEF Closed
<1>2. flow'[f] = Closed
  BY DEF Close, KeptInv, FlowTypes
<1>3. DialogFits(f)'
  BY <1>1, <1>2 DEF DialogFits, MovedFrom
<1> QED BY <1>3 DEF Follows

\* The slot of dialog f is still for the shutter it was for.
StillFor(f) ==
    fw'[flow[f].slot].id # None => of'[fw'[flow[f].slot].id] = flow[f].shutter

\* The dialog goes on with its slot and its shutter.
LEMMA GoesFollows ==
    ASSUME KeptInv, RowInv, OneDialog, NEW f \in Flows,
           NEW at \in (Forms \cup Calls) \ {"none", "stage", "swap"}, NEW form \in Forms,
           Goes(f, at, form), flow[f].at \notin {"none", "swap"},
           flow[f].source # None => at \in {"calibrate", "export", "finish"},
           UNCHANGED <<rows, reloading, hydration, leftover>>, astray \subseteq astray',
           StillFor(f),
           flow[f].source # None => fw'[flow[f].source].state = "empty"
    PROVE  Follows(f)
<1>1. /\ flow'[f].at = at /\ flow'[f].form = form
      /\ flow'[f].slot = flow[f].slot /\ flow'[f].target = flow[f].target
      /\ flow'[f].shutter = flow[f].shutter /\ flow'[f].source = flow[f].source
  BY GoesTo DEF KeptInv
<1>2. DialogFits(f)
  BY DEF RowInv
<1>3. MovedFrom(f)'
  BY <1>1, <1>2 DEF DialogFits, MovedFrom, Current
<1>4. /\ flow'[f].at \notin {"none", "stage", "swap"}
      /\ IsFor(flow[f].slot, flow[f].shutter)'
  BY <1>1 DEF StillFor, IsFor
<1>5. DialogFits(f)'
  BY <1>1, <1>2, <1>3, <1>4 DEF DialogFits, hydration
<1>6. Abandoned(f)' = Abandoned(f)
  BY <1>1, <1>2 DEF Abandoned, DialogFits, MovedFrom
<1> QED BY <1>1, <1>5, <1>6 DEF Follows

\* A dialog whose call has failed.
LEMMA ReturnFollows ==
    ASSUME KeptInv, RowInv, OneDialog, NEW f \in Flows, flow[f].at \in Calls,
           IF flow[f].form = "none" THEN Close(f) ELSE Goes(f, flow[f].form, flow[f].form),
           UNCHANGED <<rows, reloading, hydration, leftover>>, astray \subseteq astray',
           flow[f].form # "none" => StillFor(f),
           flow[f].source # None => fw'[flow[f].source].state = "empty"
    PROVE  Follows(f)
<1>1. /\ FlowFits(f) /\ DialogFits(f) /\ flow[f].form \in Forms
      /\ "none" \notin Calls
  BY Dialog DEF RowInv
<1>2. CASE flow[f].form = "none"
  <2>1. flow[f].source = None /\ Abandoned(f) = {}
    BY <1>1, <1>2 DEF FlowFits, FormFits, DialogFits, MovedFrom, Abandoned
  <2> QED BY <1>2, <2>1, CloseFollows
<1>3. CASE flow[f].form # "none"
  <2>1. /\ flow[f].form \in {"capture", "prepare", "retry", "confirm", "finish"}
        /\ flow[f].at \notin {"none", "swap"}
        /\ flow[f].source # None => flow[f].form = "finish"
    BY <1>1, <1>3 DEF FlowFits, FormFits, DialogFits, MovedFrom, Forms
  <2>2. flow[f].form \in (Forms \cup Calls) \ {"none", "stage", "swap"}
    BY <2>1 DEF Forms
  <2> QED BY <1>1, <1>3, <2>1, <2>2, GoesFollows
<1> QED BY <1>2, <1>3

\* It is when the firmware was left alone.
LEMMA IdleFor ==
    ASSUME RowInv, NEW f \in Flows, flow[f].at \notin {"none", "stage", "swap"},
           UNCHANGED device
    PROVE  StillFor(f) /\ (flow[f].source # None => fw'[flow[f].source].state = "empty")
BY DEF RowInv, DialogFits, MovedFrom, IsFor, StillFor, device

\* An attempt is remembered, or what is forgotten is not active.
LEMMA RememberStays ==
    ASSUME KeptInv, NEW s \in Slots, NEW h, Remember(s, h),
           h # None \/ fw'[s].state # "active",
           \A q \in Slots : fw'[q].state = "active" /\ fw[q].state # "active" => Kept(q)
    PROVE  KeptStays
<1>1. pending' = [pending EXCEPT ![s] = h] /\ UNCHANGED <<leftover, disk>>
  BY DEF Remember
<1>2. pending'[s] = h /\ \A q \in Slots \ {s} : pending'[q] = pending[q]
  BY <1>1 DEF KeptInv, StoreTypes, Attempts
<1> QED BY <1>1, <1>2 DEF KeptStays, Kept

\* With one dialog open, what it does is all that the dialogs do.
LEMMA OneFollows ==
    ASSUME OneDialog, NEW f \in Flows, Follows(f)
    PROVE  \A g \in Flows : Follows(g)
BY DEF OneDialog

\* The dialog goes on, and the bridge does nothing.
LEMMA IdleGoes ==
    ASSUME KeptInv, RowInv, OneDialog, NEW f \in Flows,
           NEW at \in (Forms \cup Calls) \ {"none", "stage", "swap"}, NEW form \in Forms,
           Goes(f, at, form), flow[f].at \notin {"none", "stage", "swap"},
           flow[f].at \in {"calibrate", "export", "finish"} =>
               at \in {"calibrate", "export", "finish"},
           UNCHANGED <<device, rows, reloading, astray, hydration, leftover>>, KeptStays
    PROVE  RowInv'
<1>1. flow[f].source # None => at \in {"calibrate", "export", "finish"}
  BY DEF RowInv, DialogFits, MovedFrom
<1>2. Follows(f)
  BY <1>1, IdleFor, GoesFollows
<1> QED BY <1>2, OneFollows, DeviceStays, StepFits

\* Steps that only go on with the dialog.
LEMMA TalkRows ==
    ASSUME KeptInv, RowInv, OneDialog, NEW f \in Flows, UNCHANGED hydration,
           \/ Discover(f) \/ SubmitCapture(f) \/ QueryRemote(f) \/ SubmitPrepare(f)
           \/ SubmitRetry(f) \/ SubmitConfirm(f) \/ Calibrate(f) \/ SubmitFinish(f)
           \/ QueryResume(f) \/ QueryImport(f)
    PROVE  RowInv'
<1>1. FlowFits(f)
  BY Dialog
<1>2. /\ {"capture", "query_remote", "prepare", "arm", "retry_arm", "confirming", "export",
          "calibrate", "retry", "discover", "discard", "confirm", "move", "finish"}
            \subseteq (Forms \cup Calls) \ {"none", "stage", "swap"}
      /\ {"none", "capture", "prepare", "retry", "confirm", "finish"} \subseteq Forms
  BY DEF Forms, Calls
<1>3. ASSUME UNCHANGED <<device, store>> PROVE KeptStays
  BY <1>3, StoreStays DEF device
<1>4. CASE Discover(f)
  BY <1>2, <1>3, <1>4, IdleGoes DEF Discover, store
<1>5. CASE SubmitCapture(f)
  BY <1>2, <1>3, <1>5, IdleGoes DEF SubmitCapture, Submits, store
<1>6. CASE QueryRemote(f)
  <2>1. flow[f].at = "query_remote" /\ UNCHANGED <<device, rows, reloading, astray>>
    BY <1>6 DEF QueryRemote
  <2>2. CASE Remember(flow[f].slot, flow[f].shutter) /\ Goes(f, "prepare", "prepare")
    <3>1. flow[f].slot \in Slots /\ flow[f].shutter # None
      BY <1>1, <2>1, NoneIsNoValue DEF FlowFits
    <3>2. KeptStays
      BY <2>1, <2>2, <3>1, RememberStays DEF device
    <3> QED BY <1>2, <2>1, <2>2, <3>2, IdleGoes DEF Remember
  <2>3. CASE Goes(f, "discover", "capture") /\ UNCHANGED store
    BY <1>2, <1>3, <2>1, <2>3, IdleGoes DEF store
  <2> QED BY <1>6, <2>2, <2>3 DEF QueryRemote
<1>7. CASE SubmitPrepare(f)
  BY <1>2, <1>3, <1>7, IdleGoes DEF SubmitPrepare, Submits, store
<1>8. CASE SubmitRetry(f)
  BY <1>2, <1>3, <1>8, IdleGoes DEF SubmitRetry, Submits, store
<1>9. CASE SubmitConfirm(f)
  BY <1>2, <1>3, <1>9, IdleGoes DEF SubmitConfirm, Submits, store
<1>10. CASE Calibrate(f)
  BY <1>2, <1>3, <1>10, IdleGoes DEF Calibrate, store
<1>11. CASE SubmitFinish(f)
  BY <1>2, <1>3, <1>11, IdleGoes DEF SubmitFinish, Submits, store
<1>12. CASE QueryResume(f)
  <2>1. PICK at \in {"discard", "retry", "discover", "confirm", "calibrate"} :
           \E form \in {"none", "retry", "confirm", "finish"} : Goes(f, at, form)
    BY <1>12 DEF QueryResume
  <2>2. flow[f].at = "query_resume" /\ UNCHANGED <<device, rows, store, reloading, astray>>
    BY <1>12 DEF QueryResume
  <2> QED BY <1>2, <1>3, <2>1, <2>2, IdleGoes DEF store
<1>13. CASE QueryImport(f)
  <2>1. PICK at \in {"calibrate", "move"} :
           \E form \in {"none", "finish"} : Goes(f, at, form)
    BY <1>13 DEF QueryImport
  <2>2. flow[f].at = "query_import" /\ UNCHANGED <<device, rows, store, reloading, astray>>
    BY <1>13 DEF QueryImport
  <2> QED BY <1>2, <1>3, <2>1, <2>2, IdleGoes DEF store
<1> QED BY <1>4, <1>5, <1>6, <1>7, <1>8, <1>9, <1>10, <1>11, <1>12, <1>13

\* A call that was not executed, and a form that is closed.
LEMMA FailRows ==
    ASSUME KeptInv, RowInv, OneDialog, NEW f \in Flows, UNCHANGED hydration,
           Fail(f) \/ Dismiss(f)
    PROVE  RowInv'
<1>1. FlowFits(f) /\ DialogFits(f)
  BY Dialog DEF RowInv
<1>2. UNCHANGED <<device, rows, store, reloading>> /\ astray \subseteq astray'
  BY DEF Fail, Dismiss
<1>3. KeptStays
  BY <1>2, StoreStays DEF device
<1>4. Follows(f)
  <2>1. CASE Fail(f)
    <3>1. flow[f].at \in Calls /\ "none" \notin Calls
      BY <2>1 DEF Fail, Calls
    <3>2. flow[f].form # "none" => flow[f].at \notin {"none", "stage", "swap"}
      BY <1>1, <3>1 DEF FlowFits, FormFits, DialogFits
    <3>3. flow[f].source # None => flow[f].at \notin {"none", "stage", "swap"}
      BY <1>1 DEF DialogFits, MovedFrom
    <3> QED BY <1>2, <2>1, <3>1, <3>2, <3>3, IdleFor, ReturnFollows DEF Fail, store
  <2>2. CASE Dismiss(f)
    <3>1. Close(f) /\ astray' = astray \cup Abandoned(f) /\ flow[f].at \in Forms
      BY <2>2 DEF Dismiss
    <3>2. flow[f].source # None => flow[f].shutter \in Abandoned(f)
      BY <1>1 DEF DialogFits, MovedFrom, Abandoned
    <3> QED BY <3>1, <3>2, CloseFollows
  <2> QED BY <2>1, <2>2
<1> QED BY <1>2, <1>3, <1>4, OneFollows, DeviceStays, StepFits

-----------------------------------------------------------------------------
(* The firmware and the rows *)

\* A slot that is being set up changes, or is given up.
SetsUp(s, r) ==
    /\ fw[s].state \in {"staged", "pair_sent"}
    /\ fw' = [fw EXCEPT ![s] = r]
    /\ r.id \in {fw[s].id, None}
    /\ of' = of

LEMMA SetsUpStays ==
    ASSUME KeptInv, RowInv, NEW s \in Slots, NEW r, SetsUp(s, r)
    PROVE  /\ ActiveStays /\ ShuttersFit'
           /\ \A q \in Slots : fw[q].state = "empty" => ~fw'[q].remote
           /\ fw'[s] = r /\ \A q \in Slots \ {s} : fw'[q] = fw[q]
           /\ \A q \in Slots : fw'[q].id \in {fw[q].id, None}
<1>1. fw'[s] = r /\ \A q \in Slots \ {s} : fw'[q] = fw[q]
  BY DEF SetsUp, KeptInv, DeviceTypes
<1>2. ActiveStays
  BY <1>1 DEF ActiveStays, SetsUp
<1>3. \A q \in Slots : fw'[q].id \in {fw[q].id, None}
  BY <1>1 DEF SetsUp
<1>4. ShuttersFit'
  BY <1>3 DEF RowInv, ShuttersFit, SetsUp
<1>5. \A q \in Slots : fw[q].state = "empty" => ~fw'[q].remote
  BY <1>1, SlotFacts DEF SetsUp
<1> QED BY <1>1, <1>2, <1>3, <1>4, <1>5

\* The dialog that does so is for the same shutter, and has moved nothing into it.
LEMMA SetsUpFor ==
    ASSUME KeptInv, RowInv, NEW f \in Flows, NEW r, SetsUp(flow[f].slot, r),
           flow[f].at \notin {"none", "stage", "swap"}
    PROVE  /\ StillFor(f)
           /\ flow[f].source # None => fw'[flow[f].source].state = "empty"
<1>1. flow[f].slot \in Slots /\ DialogFits(f)
  BY Dialog DEF FlowFits, RowInv
<1>2. /\ fw'[flow[f].slot] = r
      /\ \A q \in Slots \ {flow[f].slot} : fw'[q] = fw[q]
  BY <1>1, SetsUpStays
<1>3. StillFor(f)
  BY <1>1, <1>2 DEF DialogFits, IsFor, StillFor, SetsUp
<1>4. flow[f].source # None => fw'[flow[f].source].state = "empty"
  BY <1>1, <1>2 DEF DialogFits, MovedFrom, SetsUp
<1> QED BY <1>3, <1>4

\* Arming, pairing, confirming and discarding change the slot of the dialog.
LEMMA FwSetsUp ==
    ASSUME KeptInv, NEW f \in Flows, FwArm(f) \/ FwPair(f) \/ FwConfirm(f) \/ FwDiscard(f)
    PROVE  /\ \E r : SetsUp(flow[f].slot, r) /\ (FwDiscard(f) => r.state = "empty")
           /\ flow[f].slot \in Slots /\ flow[f].at \in Calls
           /\ flow[f].at \notin {"none", "stage", "swap"}
           /\ astray' = astray
<1> DEFINE s == flow[f].slot
<1>1. FlowFits(f) /\ fw \in [Slots -> SlotRecords]
  BY Dialog DEF KeptInv, DeviceTypes
<1>2. /\ flow[f].at \in {"arm", "retry_arm", "pair", "confirming", "discard"}
      /\ astray' = astray
  BY DEF FwArm, FwPair, FwConfirm, FwDiscard
<1>3. s \in Slots
  BY <1>1, <1>2 DEF FlowFits
<1>4. CASE FwArm(f)
  <2>1. SetsUp(s, fw[s])
    BY <1>1, <1>3, <1>4 DEF FwArm, SetsUp
  <2>2. ~FwDiscard(f)
    BY <1>4 DEF FwArm, FwDiscard
  <2> QED BY <1>2, <1>3, <2>1, <2>2 DEF Calls
<1>5. CASE FwPair(f)
  <2> DEFINE r == [fw[s] EXCEPT !.state = "pair_sent"]
  <2>1. fw[s].state \in {"staged", "pair_sent"}
    BY <1>1, <1>5 DEF FwPair, FlowFits
  <2>2. fw' = [fw EXCEPT ![s] = r] /\ of' = of /\ ~FwDiscard(f)
    BY <1>1, <1>5 DEF FwPair, FwDiscard
  <2>3. r.id = fw[s].id
    BY <1>1, <1>3 DEF SlotRecords
  <2> HIDE DEF r
  <2>4. SetsUp(s, r)
    BY <2>1, <2>2, <2>3 DEF SetsUp
  <2> QED BY <1>2, <1>3, <2>2, <2>4 DEF Calls
<1>6. CASE FwConfirm(f)
  <2> DEFINE r == [fw[s] EXCEPT !.state = "active"]
  <2>1. fw' = [fw EXCEPT ![s] = r] /\ fw[s].state = "pair_sent" /\ of' = of /\ ~FwDiscard(f)
    BY <1>1, <1>6 DEF FwConfirm, FwDiscard
  <2>2. r.id = fw[s].id
    BY <1>1, <1>3 DEF SlotRecords
  <2> HIDE DEF r
  <2>3. SetsUp(s, r)
    BY <2>1, <2>2 DEF SetsUp
  <2> QED BY <1>2, <1>3, <2>1, <2>3 DEF Calls
<1>7. CASE FwDiscard(f)
  <2>1. SetsUp(s, Empty) /\ Empty.state = "empty"
    BY <1>7 DEF FwDiscard, SetsUp, Empty
  <2> QED BY <1>2, <1>3, <2>1 DEF Calls
<1> QED BY <1>4, <1>5, <1>6, <1>7

\* What becomes active was transmitted, and its attempt is kept.
LEMMA ActivatedKept ==
    ASSUME KeptInv, NEW f \in Flows,
           FwArm(f) \/ FwPair(f) \/ FwConfirm(f) \/ FwDiscard(f),
           NEW q \in Slots, fw'[q].state = "active", fw[q].state # "active"
    PROVE  Kept(q)
<1>1. PICK r : SetsUp(flow[f].slot, r) /\ flow[f].slot \in Slots
  BY FwSetsUp
<1>2. q = flow[f].slot
  BY <1>1 DEF SetsUp, KeptInv, DeviceTypes
<1>3. fw[q].state = "pair_sent"
  <2>1. CASE FwConfirm(f)
    BY <1>2, <2>1 DEF FwConfirm
  <2>2. CASE FwArm(f)
    BY <2>2 DEF FwArm
  <2>3. CASE FwPair(f)
    <3>1. fw[q] \in SlotRecords
      BY SlotFacts
    <3>2. fw'[q].state = "pair_sent"
      BY <1>2, <2>3, <3>1 DEF FwPair, KeptInv, DeviceTypes, SlotRecords
    <3> QED BY <3>2
  <2>4. CASE FwDiscard(f)
    BY <1>2, <2>4 DEF FwDiscard, Empty, KeptInv, DeviceTypes
  <2> QED BY <2>1, <2>2, <2>3, <2>4
<1> QED BY <1>3 DEF KeptInv, AttemptsKept

\* These calls, whether they are answered or not.
LEMMA SetUpRows ==
    ASSUME KeptInv, RowInv, OneDialog, NEW f \in Flows, UNCHANGED hydration,
           \/ Arm(f) \/ Pair(f) \/ Confirm(f) \/ Discard(f)
           \/ ArmLost(f) \/ PairLost(f) \/ ConfirmLost(f) \/ DiscardLost(f)
    PROVE  RowInv'
<1> DEFINE s == flow[f].slot
<1>1. FwArm(f) \/ FwPair(f) \/ FwConfirm(f) \/ FwDiscard(f)
  BY DEF Arm, Pair, Confirm, Discard, ArmLost, PairLost, ConfirmLost, DiscardLost
<1>2. PICK r : SetsUp(s, r) /\ (FwDiscard(f) => r.state = "empty")
  BY <1>1, FwSetsUp
<1>3. /\ s \in Slots /\ flow[f].at \in Calls /\ astray' = astray
      /\ flow[f].at \notin {"none", "stage", "swap"}
  BY <1>1, FwSetsUp
<1>4. /\ ActiveStays /\ ShuttersFit' /\ fw'[s] = r
      /\ \A q \in Slots : fw[q].state = "empty" => ~fw'[q].remote
  BY <1>2, <1>3, SetsUpStays
<1>5. StillFor(f) /\ (flow[f].source # None => fw'[flow[f].source].state = "empty")
  BY <1>2, <1>3, SetsUpFor
<1>6. \A q \in Slots : fw'[q].state = "active" /\ fw[q].state # "active" => Kept(q)
  BY <1>1, ActivatedKept
<1>7. FlowFits(f) /\ DialogFits(f) /\ flow[f].form \in Forms
  BY Dialog DEF RowInv
<1>8. /\ {"pair", "confirm", "calibrate"} \subseteq (Forms \cup Calls) \ {"none", "stage", "swap"}
      /\ {"confirm", "finish"} \subseteq Forms
  BY DEF Forms, Calls
<1>9. UNCHANGED <<rows, reloading, leftover>> /\ KeptStays /\ Follows(f)
  <2>1. CASE ArmLost(f) \/ PairLost(f) \/ ConfirmLost(f) \/ DiscardLost(f)
    <3>1. ReplyLost(f)
      BY <2>1 DEF ArmLost, PairLost, ConfirmLost, DiscardLost
    <3>2. UNCHANGED <<rows, reloading, leftover, store>>
      BY <3>1 DEF ReplyLost, store
    <3>3. KeptStays
      BY <1>6, <3>2, StoreStays
    <3> QED BY <1>3, <1>5, <3>1, <3>2, <3>3, ReturnFollows DEF ReplyLost
  <2>2. CASE Arm(f)
    <3>1. Goes(f, "pair", flow[f].form) /\ UNCHANGED <<rows, reloading, leftover, store>>
      BY <2>2 DEF Arm, store
    <3>2. flow[f].at \in {"arm", "retry_arm"}
      BY <2>2 DEF Arm, FwArm
    <3>3. flow[f].source = None
      BY <1>7, <3>2 DEF DialogFits, MovedFrom
    <3> QED BY <1>3, <1>5, <1>6, <1>7, <1>8, <3>1, <3>3, StoreStays, GoesFollows
  <2>3. CASE Pair(f)
    <3>1. /\ Goes(f, "confirm", "confirm") /\ UNCHANGED <<rows, reloading, leftover>>
          /\ Remember(s, flow[f].shutter) /\ flow[f].at = "pair"
      BY <2>3 DEF Pair, FwPair, Remember
    <3>2. flow[f].shutter # None /\ flow[f].source = None
      BY <1>7, <3>1, NoneIsNoValue DEF FlowFits, DialogFits, MovedFrom
    <3>3. KeptStays
      BY <1>3, <1>6, <3>1, <3>2, RememberStays
    <3> QED BY <1>3, <1>5, <1>8, <3>1, <3>2, <3>3, GoesFollows
  <2>4. CASE Confirm(f)
    <3>1. Goes(f, "calibrate", "finish") /\ UNCHANGED <<rows, reloading, leftover, store>>
      BY <2>4 DEF Confirm, store
    <3> QED BY <1>3, <1>5, <1>6, <1>8, <3>1, StoreStays, GoesFollows
  <2>5. CASE Discard(f)
    <3>1. /\ Close(f) /\ UNCHANGED <<rows, reloading, leftover>> /\ Remember(s, None)
          /\ flow[f].at = "discard" /\ FwDiscard(f)
      BY <2>5 DEF Discard, FwDiscard, Remember
    <3>2. flow[f].source = None /\ Abandoned(f) = {}
      BY <1>7, <3>1 DEF DialogFits, MovedFrom, Abandoned
    <3>3. fw'[s].state # "active"
      BY <1>2, <1>4, <3>1
    <3>4. KeptStays
      BY <1>3, <1>6, <3>1, <3>3, RememberStays
    <3> QED BY <3>1, <3>2, <3>4, CloseFollows
  <2> QED BY <2>1, <2>2, <2>3, <2>4, <2>5
<1> QED BY <1>3, <1>4, <1>9, OneFollows, StepFits

\* A new identity is for a shutter that has none.
LEMMA StageRows ==
    ASSUME KeptInv, RowInv, OneDialog, NEW f \in Flows, UNCHANGED hydration,
           NEW id \in Ids, Stage(f, id) \/ StageLost(f, id)
    PROVE  RowInv'
<1> DEFINE s == flow[f].slot
           h == flow[f].shutter
           r == [state |-> "staged", id |-> id, remote |-> FALSE]
<1>1. FlowFits(f) /\ DialogFits(f)
  BY Dialog DEF RowInv
<1>2. flow[f].at = "stage" /\ FwStage(s, id, h) /\ astray' = astray
  BY DEF Stage, StageLost
<1>3. s \in Slots /\ h \in Shutters /\ h # None /\ flow[f].source = None
  BY <1>1, <1>2, NoneIsNoValue DEF FlowFits, DialogFits, MovedFrom
<1>4. /\ fw[s].state = "empty" /\ \A q \in Slots : fw[q].id # id
      /\ fw' = [fw EXCEPT ![s] = r] /\ of' = [of EXCEPT ![id] = h]
  BY <1>2 DEF FwStage
<1>5. fw'[s] = r /\ \A q \in Slots \ {s} : fw'[q] = fw[q]
  BY <1>3, <1>4 DEF KeptInv, DeviceTypes
<1>6. of'[id] = h /\ \A q \in Slots : of'[fw[q].id] = of[fw[q].id]
  BY <1>4 DEF KeptInv, DeviceTypes
<1>7. ActiveStays
  BY <1>4, <1>5, <1>6 DEF ActiveStays
<1>8. ShuttersFit'
  <2>1. \A q \in Slots : fw[q].id # None => of[fw[q].id] # h
    BY <1>1, <1>2 DEF DialogFits
  <2> QED BY <1>5, <1>6, <2>1 DEF RowInv, ShuttersFit
<1>9. \A q \in Slots : fw[q].state = "empty" => ~fw'[q].remote
  BY <1>5, SlotFacts
<1>10. \A q \in Slots : fw'[q].state = "active" => fw[q].state = "active"
  BY <1>5
<1>11. StillFor(f)
  BY <1>5, <1>6 DEF StillFor
<1>12. UNCHANGED <<rows, reloading, leftover>> /\ KeptStays /\ Follows(f)
  <2>1. CASE Stage(f, id)
    <3>1. /\ Goes(f, "discover", "none") /\ Remember(s, h)
          /\ UNCHANGED <<rows, reloading, leftover>>
      BY <2>1 DEF Stage, Remember
    <3>2. "discover" \in (Forms \cup Calls) \ {"none", "stage", "swap"} /\ "none" \in Forms
      BY DEF Forms, Calls
    <3>3. KeptStays
      BY <1>3, <1>10, <3>1, RememberStays
    <3> QED BY <1>2, <1>3, <1>11, <3>1, <3>2, <3>3, GoesFollows
  <2>2. CASE StageLost(f, id)
    <3>1. ReplyLost(f) /\ flow[f].at \in Calls
      BY <1>2, <2>2 DEF StageLost, Calls
    <3>2. UNCHANGED <<rows, reloading, leftover, store>>
      BY <3>1 DEF ReplyLost, store
    <3> QED BY <1>2, <1>3, <1>10, <1>11, <3>1, <3>2, StoreStays, ReturnFollows
            DEF ReplyLost
  <2> QED BY <2>1, <2>2
<1> QED BY <1>2, <1>7, <1>8, <1>9, <1>12, OneFollows, StepFits

\* A remote is heard by a slot that is being set up.
LEMMA HearRows ==
    ASSUME KeptInv, RowInv, NEW s \in Slots, Hear(s), UNCHANGED hydration
    PROVE  RowInv'
<1> DEFINE r == [fw[s] EXCEPT !.remote = TRUE]
<1>1. /\ fw[s].state = "staged" /\ fw' = [fw EXCEPT ![s] = r]
      /\ UNCHANGED <<of, rows, store, reloading, flow, astray>> /\ fw[s] \in SlotRecords
  BY SlotFacts DEF Hear, KeptInv, DeviceTypes
<1>2. r.id = fw[s].id /\ r.state = fw[s].state
  BY <1>1 DEF SlotRecords
<1> HIDE DEF r
<1>3. SetsUp(s, r)
  BY <1>1, <1>2 DEF SetsUp
<1>4. /\ ActiveStays /\ ShuttersFit'
      /\ \A q \in Slots : fw[q].state = "empty" => ~fw'[q].remote
      /\ fw'[s] = r /\ \A q \in Slots \ {s} : fw'[q] = fw[q]
  BY <1>3, SetsUpStays
<1>5. \A q \in Slots : fw'[q].id = fw[q].id /\ fw'[q].state = fw[q].state
  BY <1>2, <1>4
<1>6. KeptStays
  BY <1>1, <1>5, StoreStays
<1>7. ASSUME NEW f \in Flows PROVE Follows(f)
  <2>1. DialogFits(f) /\ FlowFits(f)
    BY Dialog DEF RowInv
  <2>2. MovedFrom(f)'
    BY <1>1, <1>5, <2>1 DEF DialogFits, MovedFrom, Current
  <2>3. flow[f].at \notin {"none", "stage", "swap"} => IsFor(flow[f].slot, flow[f].shutter)'
    BY <1>1, <1>5, <2>1 DEF DialogFits, FlowFits, IsFor
  <2>4. ASSUME flow[f].at = "swap" PROVE HasRow(flow[f].slot)' /\ HasRow(flow[f].target)'
    BY <1>1, <1>5, <2>1, <2>4 DEF DialogFits, FlowFits, HasRow, IsFor
  <2>5. DialogFits(f)'
    BY <1>1, <1>5, <2>1, <2>2, <2>3, <2>4 DEF DialogFits, store, hydration
  <2> QED BY <1>1, <2>5 DEF Follows, Abandoned
<1> QED BY <1>1, <1>4, <1>6, <1>7, StepFits

\* A dialog is opened for a slot and a shutter that fit.
LEMMA OpenFollows ==
    ASSUME KeptInv, RowInv, OneDialog, NEW f \in Flows, NEW r,
           flow' = [flow EXCEPT ![f] = r], Submits(f, "none"),
           UNCHANGED <<device, rows, store, reloading, astray, hydration>>,
           r.source = None,
           r.at = "stage" =>
               r.form = "none" /\ \A s \in Slots : fw[s].id # None => of[fw[s].id] # r.shutter,
           r.at \notin {"none", "stage", "swap"} => IsFor(r.slot, r.shutter),
           r.at = "swap" => r.seen = rows /\ HasRow(r.slot) /\ HasRow(r.target)
    PROVE  RowInv'
<1>1. flow'[f] = r
  BY DEF KeptInv, FlowTypes
<1>2. UNCHANGED <<fw, of, leftover, hydrations>> /\ flow[f].at = "none" /\ Patient
  BY DEF device, store, hydration, Submits
<1>3. MovedFrom(f)'
  BY <1>1 DEF MovedFrom
<1>4. flow'[f].at \notin {"none", "stage", "swap"} => IsFor(flow[f].slot, flow[f].shutter)'
  BY <1>1, <1>2 DEF IsFor
<1>5. flow'[f].at = "swap" => HasRow(flow[f].slot)' /\ HasRow(flow[f].target)'
  BY <1>1, <1>2 DEF HasRow, IsFor
<1>6. DialogFits(f)'
  BY <1>1, <1>2, <1>3, <1>4, <1>5 DEF DialogFits, Patient
<1>7. flow[f].source = None /\ Abandoned(f) = {}
  BY <1>2 DEF RowInv, DialogFits, MovedFrom, Abandoned
<1>8. Follows(f)
  BY <1>6, <1>7 DEF Follows
<1>9. KeptStays
  BY <1>2, StoreStays
<1> QED BY <1>8, <1>9, OneFollows, DeviceStays, StepFits

\* Rows and attempts that were left behind are not used.
LEMMA OpenRows ==
    ASSUME KeptInv, RowInv, OneDialog, NEW f \in Flows, UNCHANGED hydration,
           \/ \E s \in Slots, h \in Shutters : AddShutter(f, s, h) /\ IsNew(h)
           \/ \E s, t \in Slots : ImportExisting(f, s, t)
           \/ Maintains(f, {r \in rows : IsFor(r.slot, r.shutter)},
                           {s \in Slots : IsFor(s, pending[s])})
    PROVE  RowInv'
<1>1. ASSUME NEW s \in Slots, NEW h \in Shutters, AddShutter(f, s, h), IsNew(h) PROVE RowInv'
  <2> DEFINE r == [Closed EXCEPT !.at = "stage", !.slot = s, !.shutter = h]
  <2>1. r.at = "stage" /\ r.form = "none" /\ r.shutter = h /\ r.source = None
    BY DEF Closed
  <2>2. /\ flow' = [flow EXCEPT ![f] = r] /\ Submits(f, "none")
        /\ UNCHANGED <<device, rows, store, reloading, astray>>
    BY <1>1 DEF AddShutter
  <2> HIDE DEF r
  <2> QED BY <1>1, <2>1, <2>2, OpenFollows DEF IsNew
<1>2. ASSUME NEW s \in Slots, NEW t \in Slots, ImportExisting(f, s, t) PROVE RowInv'
  <2> DEFINE r == [Closed EXCEPT !.at = "query_import", !.slot = s, !.target = t,
                                 !.shutter = of[fw[s].id]]
  <2>1. r.at = "query_import" /\ r.slot = s /\ r.shutter = of[fw[s].id] /\ r.source = None
    BY DEF Closed
  <2>2. /\ flow' = [flow EXCEPT ![f] = r] /\ Submits(f, "none")
        /\ UNCHANGED <<device, rows, store, reloading, astray>>
    BY <1>2 DEF ImportExisting
  <2> HIDE DEF r
  <2> QED BY <2>1, <2>2, OpenFollows DEF IsFor
<1>3. ASSUME NEW w \in rows, IsFor(w.slot, w.shutter), EditCalibration(f, w) PROVE RowInv'
  <2> DEFINE r == [Closed EXCEPT !.at = "recalibrate", !.slot = w.slot,
                                 !.shutter = w.shutter]
  <2>1. r.at = "recalibrate" /\ r.slot = w.slot /\ r.shutter = w.shutter /\ r.source = None
    BY DEF Closed
  <2>2. /\ flow' = [flow EXCEPT ![f] = r] /\ Submits(f, "none")
        /\ UNCHANGED <<device, rows, store, reloading, astray>>
    BY <1>3 DEF EditCalibration
  <2> HIDE DEF r
  <2> QED BY <1>3, <2>1, <2>2, OpenFollows
<1>4. ASSUME NEW w \in rows, IsFor(w.slot, w.shutter), NEW t \in Slots, MoveShutter(f, w, t)
      PROVE  RowInv'
  <2> DEFINE r == [Closed EXCEPT !.at = "move", !.slot = w.slot, !.target = t,
                                 !.shutter = w.shutter]
  <2>1. r.at = "move" /\ r.slot = w.slot /\ r.shutter = w.shutter /\ r.source = None
    BY DEF Closed
  <2>2. /\ flow' = [flow EXCEPT ![f] = r] /\ Submits(f, "none")
        /\ UNCHANGED <<device, rows, store, reloading, astray>>
    BY <1>4 DEF MoveShutter
  <2> HIDE DEF r
  <2> QED BY <1>4, <2>1, <2>2, OpenFollows
<1>5. ASSUME NEW a \in rows, NEW b \in rows, IsFor(a.slot, a.shutter),
             IsFor(b.slot, b.shutter), SwapShutters(f, a, b)
      PROVE  RowInv'
  <2> DEFINE r == [Closed EXCEPT !.at = "swap", !.slot = a.slot, !.target = b.slot,
                                 !.seen = rows]
  <2>1. /\ r.at = "swap" /\ r.slot = a.slot /\ r.target = b.slot /\ r.seen = rows
        /\ r.source = None
    BY DEF Closed
  <2>2. /\ flow' = [flow EXCEPT ![f] = r] /\ Submits(f, "none")
        /\ UNCHANGED <<device, rows, store, reloading, astray>>
    BY <1>5 DEF SwapShutters
  <2> HIDE DEF r
  <2>3. HasRow(r.slot) /\ HasRow(r.target)
    BY <1>5, <2>1 DEF HasRow
  <2> QED BY <2>1, <2>2, <2>3, OpenFollows
<1>6. ASSUME NEW s \in Slots, IsFor(s, pending[s]), NEW action \in Actions,
             ResumeAttempt(f, s, action)
      PROVE  RowInv'
  <2> DEFINE r == [Closed EXCEPT !.at = "query_resume", !.slot = s, !.shutter = pending[s],
                                 !.action = action]
  <2>1. r.at = "query_resume" /\ r.slot = s /\ r.shutter = pending[s] /\ r.source = None
    BY DEF Closed
  <2>2. /\ flow' = [flow EXCEPT ![f] = r] /\ Submits(f, "none")
        /\ UNCHANGED <<device, rows, store, reloading, astray>>
    BY <1>6 DEF ResumeAttempt
  <2> HIDE DEF r
  <2> QED BY <1>6, <2>1, <2>2, OpenFollows
<1> QED BY <1>1, <1>2, <1>3, <1>4, <1>5, <1>6 DEF Maintains

-----------------------------------------------------------------------------
(* Moves and swaps *)

\* Two slots exchange what they have, and every shutter still has one.
LEMMA ExchangeFits ==
    ASSUME KeptInv, ShuttersFit, NEW s \in Slots, NEW t \in Slots, s # t,
           fw' = [fw EXCEPT ![s] = fw[t], ![t] = fw[s]], of' = of
    PROVE  /\ ShuttersFit'
           /\ fw'[s] = fw[t] /\ fw'[t] = fw[s]
           /\ \A q \in Slots \ {s, t} : fw'[q] = fw[q]
<1>1. /\ fw'[s] = fw[t] /\ fw'[t] = fw[s]
      /\ \A q \in Slots \ {s, t} : fw'[q] = fw[q]
  BY DEF KeptInv, DeviceTypes
<1> DEFINE from(q) == IF q = s THEN t ELSE IF q = t THEN s ELSE q
<1>2. \A q \in Slots : from(q) \in Slots /\ fw'[q] = fw[from(q)]
  BY <1>1
<1>3. \A p, q \in Slots : from(p) = from(q) => p = q
  OBVIOUS
<1> HIDE DEF from
<1>4. ShuttersFit'
  BY <1>2, <1>3 DEF ShuttersFit
<1> QED BY <1>1, <1>4

\* Before its move a shutter has no row but in the slot it is moved from.
LEMMA BeforeMove ==
    ASSUME KeptInv, RowInv, OneDialog, NEW f \in Flows, FwMove(f)
    PROVE  /\ flow[f].slot \in Slots /\ flow[f].target \in Slots
           /\ flow[f].slot # flow[f].target
           /\ flow[f].source = None
           /\ of[fw[flow[f].slot].id] = flow[f].shutter
           /\ fw[flow[f].target] = Empty
           /\ fw' = [fw EXCEPT ![flow[f].slot] = fw[flow[f].target],
                               ![flow[f].target] = fw[flow[f].slot]]
           /\ \A r \in rows : Current(r) =>
                 Operates(r) /\ (r.slot = flow[f].slot <=> r.shutter = flow[f].shutter)
<1> DEFINE s == flow[f].slot
           t == flow[f].target
<1>1. FlowFits(f) /\ DialogFits(f) /\ flow[f].at = "move"
  BY Dialog DEF RowInv, FwMove
<1>2. s \in Slots /\ t \in Slots /\ flow[f].source = None
  BY <1>1 DEF FlowFits, DialogFits, MovedFrom
<1>3. fw[s].state = "active" /\ fw[t].state = "empty" /\ s # t
  BY DEF FwMove
<1>4. fw[t] = Empty /\ of[fw[s].id] = flow[f].shutter
  BY <1>1, <1>2, <1>3, SlotFacts DEF DialogFits, IsFor
<1>5. fw' = [fw EXCEPT ![s] = fw[t], ![t] = fw[s]]
  BY <1>2, <1>4 DEF FwMove, KeptInv, DeviceTypes
<1>6. ASSUME NEW r \in rows, Current(r)
      PROVE  Operates(r) /\ (r.slot = s <=> r.shutter = flow[f].shutter)
  <2>1. RowFits(r) /\ ShuttersFit
    BY <1>6 DEF RowInv, RowsFit
  <2>2. \A g \in Flows : Abandoned(g) = {}
    BY <1>2 DEF OneDialog, Abandoned
  <2>3. Operates(r)
    BY <2>1, <2>2 DEF RowFits
  <2>4. r.shutter = flow[f].shutter => r.slot = s
    BY <1>2, <1>3, <1>4, <2>1, <2>3, RowFacts, SameSlot DEF Operates
  <2> QED BY <1>4, <2>3, <2>4 DEF Operates
<1> QED BY <1>2, <1>3, <1>4, <1>5, <1>6

\* After a move its dialog is to write the row, or the shutter is left behind.
LEMMA MovedRows ==
    ASSUME KeptInv, RowInv, OneDialog, NEW f \in Flows, FwMove(f), astray \subseteq astray',
           UNCHANGED <<rows, store, reloading, hydration>>, DialogFits(f)',
           \/ flow[f].shutter \in astray'
           \/ /\ flow'[f].source # None /\ flow'[f].slot = flow[f].target
              /\ flow[f].shutter \in Abandoned(f)'
    PROVE  RowInv'
<1> DEFINE s == flow[f].slot
           t == flow[f].target
           h == flow[f].shutter
<1>1. /\ s \in Slots /\ t \in Slots /\ s # t /\ flow[f].source = None
      /\ of[fw[s].id] = h /\ fw[t] = Empty /\ fw' = [fw EXCEPT ![s] = fw[t], ![t] = fw[s]]
  BY BeforeMove
<1>2. \A r \in rows : Current(r) => Operates(r) /\ (r.slot = s <=> r.shutter = h)
  BY BeforeMove
<1>3. of' = of /\ ShuttersFit /\ fw[s].state = "active"
  BY DEF FwMove, RowInv
<1>4. ShuttersFit' /\ fw'[s] = Empty /\ fw'[t] = fw[s] /\ \A q \in Slots \ {s, t} : fw'[q] = fw[q]
  BY <1>1, <1>3, ExchangeFits
<1>5. Empty.state = "empty" /\ ~Empty.remote
  BY DEF Empty
<1>6. RowsFit'
  <2> SUFFICES ASSUME NEW r \in rows, Current(r)' PROVE RowFits(r)'
    BY DEF RowsFit
  <2>1. /\ r.shutter \notin astray' /\ r.slot \in Slots
        /\ Operates(r) /\ (r.slot = s <=> r.shutter = h)
    BY <1>2, RowFacts DEF Current
  <2>2. CASE r.slot = s
    BY <2>1, <2>2 DEF RowFits
  <2>3. CASE r.slot # s
    <3>1. r.slot # t
      BY <1>1, <1>5, <2>1 DEF Operates
    <3> QED BY <1>3, <1>4, <2>1, <2>3, <3>1 DEF Operates, RowFits
  <2> QED BY <2>2, <2>3
<1>7. SlotsManaged'
  <2> SUFFICES ASSUME NEW q \in Slots, Activated(q)' PROVE Managed(q)'
    BY DEF SlotsManaged
  <2>1. fw'[q].state = "active" /\ of[fw'[q].id] \notin astray'
    BY <1>3 DEF Activated
  <2>2. CASE q = t
    BY <1>1, <1>4, <2>1, <2>2 DEF Managed
  <2>3. CASE q # t
    <3>1. q # s /\ fw'[q] = fw[q]
      BY <1>4, <1>5, <2>1, <2>3
    <3>2. Managed(q)
      BY <2>1, <3>1 DEF RowInv, SlotsManaged, Activated
    <3>3. ~\E g \in Flows : flow[g].source # None
      BY <1>1 DEF OneDialog
    <3> QED BY <1>3, <3>1, <3>2, <3>3 DEF Managed, RowsAt, Kept, store
  <2> QED BY <2>2, <2>3
<1>8. RemotesKnown'
  <2> SUFFICES ASSUME ~reloading /\ hydrations = {} /\ ~unanswered,
                      NEW r \in rows, Lacks(r), r.shutter \notin astray
               PROVE  ~fw'[r.slot].remote
    BY DEF RemotesKnown, hydration, Lacks
  <2>1. Operates(r) /\ ~fw[r.slot].remote /\ r.slot \in Slots
    BY <1>2, RowFacts DEF Current, Lacks, RowInv, RemotesKnown
  <2>2. r.slot # t
    BY <1>1, <1>5, <2>1 DEF Operates
  <2> QED BY <1>4, <1>5, <2>1, <2>2
<1>9. HydrationFits'
  BY DEF RowInv, HydrationFits, hydration
<1>10. \A g \in Flows : DialogFits(g)'
  BY DEF OneDialog
<1> QED BY <1>4, <1>6, <1>7, <1>8, <1>9, <1>10 DEF RowInv

\* The dialog goes on for the slot the shutter was moved to.
LEMMA MoveRows ==
    ASSUME KeptInv, RowInv, OneDialog, NEW f \in Flows, UNCHANGED hydration,
           Move(f) \/ MoveLost(f)
    PROVE  RowInv'
<1> DEFINE s == flow[f].slot
           t == flow[f].target
           h == flow[f].shutter
<1>1. FwMove(f) /\ UNCHANGED <<rows, store, reloading>> /\ of' = of
  BY DEF Move, MoveLost, FwMove, ReplyLost
<1>2. FlowFits(f) /\ DialogFits(f) /\ flow[f].at = "move"
  BY <1>1, Dialog DEF RowInv, FwMove
<1>3. /\ s \in Slots /\ t \in Slots /\ s # t /\ flow[f].source = None
      /\ of[fw[s].id] = h /\ fw[t] = Empty /\ fw' = [fw EXCEPT ![s] = fw[t], ![t] = fw[s]]
      /\ \A r \in rows : Current(r) => (r.slot = s <=> r.shutter = h)
  BY <1>1, BeforeMove
<1>4. CASE MoveLost(f)
  <2>1. Close(f) /\ astray' = astray \cup {h}
    BY <1>2, <1>4 DEF MoveLost, ReplyLost, FlowFits, FormFits
  <2>2. Abandoned(f) = {}
    BY <1>3 DEF Abandoned
  <2>3. Follows(f)
    BY <1>3, <2>1, <2>2, CloseFollows
  <2> QED BY <1>1, <2>1, <2>3, MovedRows DEF Follows
<1>5. CASE Move(f)
  <2> DEFINE r == [flow[f] EXCEPT !.at = "calibrate", !.form = "finish",
                                  !.slot = t, !.source = s]
  <2>1. flow[f] \in FlowRecords
    BY Dialog
  <2>2. /\ r.at = "calibrate" /\ r.slot = t /\ r.source = s /\ r.shutter = h
    BY <2>1 DEF FlowRecords
  <2>3. flow' = [flow EXCEPT ![f] = r] /\ UNCHANGED <<rows, store, reloading, astray>>
    BY <1>5 DEF Move, KeptInv, FlowTypes
  <2> HIDE DEF r
  <2>4. flow'[f] = r
    BY <2>3 DEF KeptInv, FlowTypes
  <2>5. fw'[s] = Empty /\ fw'[t] = fw[s] /\ s # None
    BY <1>3, NoneIsNoValue DEF KeptInv, DeviceTypes
  <2>6. h \in Abandoned(f)'
    BY <2>2, <2>4, <2>5 DEF Abandoned
  <2>7. MovedFrom(f)'
    BY <1>3, <2>2, <2>3, <2>4, <2>5 DEF MovedFrom, Current, Empty
  <2>8. IsFor(flow[f].slot, flow[f].shutter)'
    BY <1>1, <1>3, <2>2, <2>4, <2>5 DEF IsFor
  <2>9. DialogFits(f)'
    BY <1>2, <2>2, <2>3, <2>4, <2>7, <2>8 DEF DialogFits, store, hydration
  <2> QED BY <1>1, <2>2, <2>3, <2>4, <2>5, <2>6, <2>9, MovedRows
<1> QED BY <1>4, <1>5

\* Both slots of a swap have their rows, and the dialog has read all rows.
LEMMA BeforeSwap ==
    ASSUME KeptInv, RowInv, OneDialog, NEW f \in Flows, FwSwap(f)
    PROVE  /\ flow[f].slot \in Slots /\ flow[f].target \in Slots
           /\ flow[f].slot # flow[f].target
           /\ flow[f].source = None /\ flow[f].seen = rows
           /\ \E r \in rows : r.slot = flow[f].slot /\ r.shutter = of[fw[flow[f].slot].id]
           /\ \E r \in rows : r.slot = flow[f].target /\ r.shutter = of[fw[flow[f].target].id]
           /\ \A r \in rows : Current(r) => Operates(r)
           /\ ~\E g \in Flows : flow[g].source # None
<1>1. FlowFits(f) /\ DialogFits(f) /\ flow[f].at = "swap"
  BY Dialog DEF RowInv, FwSwap
<1>2. /\ flow[f].slot \in Slots /\ flow[f].target \in Slots
      /\ flow[f].slot # flow[f].target
      /\ flow[f].source = None /\ flow[f].seen = rows
  BY <1>1 DEF FlowFits, DialogFits, MovedFrom
<1>3. fw[flow[f].slot].state = "active" /\ fw[flow[f].target].state = "active"
  BY DEF FwSwap
<1>4. HasRow(flow[f].slot) /\ HasRow(flow[f].target)
  BY <1>1 DEF DialogFits
<1>5. /\ \E r \in rows : r.slot = flow[f].slot /\ r.shutter = of[fw[flow[f].slot].id]
      /\ \E r \in rows : r.slot = flow[f].target /\ r.shutter = of[fw[flow[f].target].id]
  BY <1>2, <1>3, <1>4, SlotFacts DEF HasRow, IsFor
<1>6. \A g \in Flows : flow[g].source = None /\ Abandoned(g) = {}
  BY <1>2 DEF OneDialog, Abandoned
<1>7. \A r \in rows : Current(r) => Operates(r)
  BY <1>6 DEF RowInv, RowsFit, RowFits
<1> QED BY <1>2, <1>5, <1>6, <1>7

\* When the reply is lost, both shutters are left behind.
LEMMA SwapLostRows ==
    ASSUME KeptInv, RowInv, OneDialog, NEW f \in Flows, UNCHANGED hydration, SwapLost(f)
    PROVE  RowInv'
<1> DEFINE s == flow[f].slot
           t == flow[f].target
<1>1. FwSwap(f) /\ ReplyLost(f) /\ UNCHANGED <<rows, store, reloading>> /\ of' = of
      /\ astray' = astray \cup {r.shutter : r \in RowsAt({s, t})}
  BY DEF SwapLost, FwSwap, ReplyLost
<1>2. FlowFits(f) /\ flow[f].at = "swap"
  BY <1>1, Dialog DEF FwSwap
<1>3. /\ s \in Slots /\ t \in Slots /\ s # t /\ flow[f].source = None
      /\ \E r \in rows : r.slot = s /\ r.shutter = of[fw[s].id]
      /\ \E r \in rows : r.slot = t /\ r.shutter = of[fw[t].id]
      /\ \A r \in rows : Current(r) => Operates(r)
      /\ ~\E g \in Flows : flow[g].source # None
  BY <1>1, BeforeSwap
<1>4. fw' = [fw EXCEPT ![s] = fw[t], ![t] = fw[s]] /\ ShuttersFit
  BY <1>1 DEF FwSwap, RowInv
<1>5. ShuttersFit' /\ fw'[s] = fw[t] /\ fw'[t] = fw[s] /\ \A q \in Slots \ {s, t} : fw'[q] = fw[q]
  BY <1>1, <1>3, <1>4, ExchangeFits
<1>6. /\ \A r \in rows : r.slot \in {s, t} => r.shutter \in astray'
      /\ of[fw[s].id] \in astray' /\ of[fw[t].id] \in astray'
  BY <1>1, <1>3 DEF RowsAt
<1>7. \A g \in Flows : Follows(g)
  <2>1. Close(f) /\ Abandoned(f) = {}
    BY <1>1, <1>2, <1>3 DEF ReplyLost, FlowFits, FormFits, Abandoned
  <2> QED BY <1>3, <2>1, CloseFollows, OneFollows
<1>8. RowsFit'
  <2> SUFFICES ASSUME NEW r \in rows, Current(r)' PROVE RowFits(r)'
    BY <1>1 DEF RowsFit
  <2>1. Operates(r) /\ r.slot \in Slots \ {s, t}
    BY <1>1, <1>3, <1>6, RowFacts DEF Current
  <2> QED BY <1>1, <1>5, <2>1 DEF Operates, RowFits
<1>9. SlotsManaged'
  <2> SUFFICES ASSUME NEW q \in Slots, Activated(q)' PROVE Managed(q)'
    BY DEF SlotsManaged
  <2>1. q \notin {s, t} /\ fw'[q] = fw[q]
    BY <1>1, <1>5, <1>6 DEF Activated
  <2>2. Managed(q)
    BY <1>1, <2>1 DEF RowInv, SlotsManaged, Activated
  <2> QED BY <1>1, <1>3, <2>1, <2>2 DEF Managed, RowsAt, Kept, store
<1>10. RemotesKnown'
  <2> SUFFICES ASSUME ~reloading /\ hydrations = {} /\ ~unanswered,
                      NEW r \in rows, Lacks(r), r.shutter \notin astray'
               PROVE  ~fw'[r.slot].remote
    BY <1>1 DEF RemotesKnown, hydration, Lacks
  <2>1. r.slot \in Slots \ {s, t} /\ r.shutter \notin astray
    BY <1>1, <1>6, RowFacts
  <2> QED BY <1>5, <2>1 DEF RowInv, RemotesKnown
<1>11. HydrationFits'
  BY <1>1 DEF RowInv, HydrationFits, hydration
<1> QED BY <1>5, <1>7, <1>8, <1>9, <1>10, <1>11 DEF RowInv, Follows

\* The options follow the swap.
LEMMA SwapRows ==
    ASSUME KeptInv, RowInv, OneDialog, NEW f \in Flows, UNCHANGED hydration, Swap(f)
    PROVE  RowInv'
<1> DEFINE s == flow[f].slot
           t == flow[f].target
           moved(r) == IF r.slot = s THEN [r EXCEPT !.slot = t]
                       ELSE IF r.slot = t THEN [r EXCEPT !.slot = s] ELSE r
<1>1. FwSwap(f) /\ Close(f) /\ UNCHANGED <<store, astray>> /\ of' = of
      /\ Writes(Swapped(flow[f].seen, s, t))
  BY DEF Swap, FwSwap
<1>2. DialogFits(f) /\ flow[f].at = "swap"
  BY <1>1 DEF RowInv, FwSwap
<1>3. /\ s \in Slots /\ t \in Slots /\ s # t
      /\ flow[f].source = None /\ flow[f].seen = rows
      /\ \E r \in rows : r.slot = s /\ r.shutter = of[fw[s].id]
      /\ \E r \in rows : r.slot = t /\ r.shutter = of[fw[t].id]
      /\ \A r \in rows : Current(r) => Operates(r)
      /\ ~\E g \in Flows : flow[g].source # None
  BY <1>1, BeforeSwap
<1>4. fw' = [fw EXCEPT ![s] = fw[t], ![t] = fw[s]] /\ ShuttersFit
  BY <1>1 DEF FwSwap, RowInv
<1>5. ShuttersFit' /\ fw'[s] = fw[t] /\ fw'[t] = fw[s] /\ \A q \in Slots \ {s, t} : fw'[q] = fw[q]
  BY <1>1, <1>3, <1>4, ExchangeFits
<1>6. rows' = {moved(r) : r \in rows}
  BY <1>1, <1>3 DEF Writes, Swapped
<1>7. ASSUME NEW r \in rows
      PROVE  /\ moved(r).shutter = r.shutter /\ moved(r).state = r.state
             /\ moved(r).remote = r.remote /\ fw'[moved(r).slot] = fw[r.slot]
             /\ r.slot = s => moved(r).slot = t
             /\ r.slot = t => moved(r).slot = s
             /\ r.slot \notin {s, t} => moved(r).slot = r.slot
  <2>1. r \in Rows /\ r.slot \in Slots
    BY RowFacts
  <2> QED BY <1>3, <1>5, <2>1 DEF Rows
<1> HIDE DEF moved
<1>8. \A g \in Flows : Follows(g)
  <2>1. Abandoned(f) = {}
    BY <1>3 DEF Abandoned
  <2> QED BY <1>1, <1>3, <2>1, CloseFollows, OneFollows
<1>9. RowsFit'
  <2> SUFFICES ASSUME NEW w \in rows', Current(w)' PROVE RowFits(w)'
    BY DEF RowsFit
  <2>1. PICK r \in rows : w = moved(r)
    BY <1>6
  <2>2. Operates(r)
    BY <1>1, <1>3, <1>7, <2>1 DEF Current
  <2> QED BY <1>1, <1>7, <2>1, <2>2 DEF Operates, RowFits
<1>10. SlotsManaged'
  <2> SUFFICES ASSUME NEW q \in Slots, Activated(q)' PROVE Managed(q)'
    BY DEF SlotsManaged
  <2>1. CASE q \in {s, t}
    <3>1. PICK r \in rows : r.slot \in {s, t} \ {q} /\ fw'[q] = fw[r.slot]
                            /\ r.shutter = of[fw[r.slot].id]
      BY <1>3, <1>5, <2>1
    <3>2. moved(r).slot = q /\ moved(r).shutter = of'[fw'[q].id] /\ moved(r) \in rows'
      BY <1>1, <1>3, <1>6, <1>7, <2>1, <3>1
    <3> QED BY <3>2 DEF Managed, RowsAt
  <2>2. CASE q \notin {s, t}
    <3>1. fw'[q] = fw[q]
      BY <1>5, <2>2
    <3>2. Managed(q)
      BY <1>1, <3>1 DEF RowInv, SlotsManaged, Activated
    <3>3. CASE Kept(q)
      BY <1>1, <3>3 DEF Managed, Kept, store
    <3>4. CASE \E r \in RowsAt({q}) : r.shutter = of[fw[q].id]
      <4>1. PICK r \in rows : r.slot = q /\ r.shutter = of[fw[q].id]
        BY <3>4 DEF RowsAt
      <4>2. moved(r) \in rows' /\ moved(r).slot = q /\ moved(r).shutter = of'[fw'[q].id]
        BY <1>1, <1>6, <1>7, <2>2, <3>1, <4>1
      <4> QED BY <4>2 DEF Managed, RowsAt
    <3> QED BY <1>3, <3>2, <3>3, <3>4 DEF Managed
  <2> QED BY <2>1, <2>2
<1>11. RemotesKnown'
  <2> SUFFICES ASSUME ~reloading' /\ hydrations' = {} /\ ~unanswered',
                      NEW w \in rows', Lacks(w), w.shutter \notin astray'
               PROVE  ~fw'[w.slot].remote
    BY DEF RemotesKnown, Lacks
  <2>1. ~reloading /\ hydrations = {} /\ ~unanswered
    BY <1>1 DEF Writes, hydration
  <2>2. PICK r \in rows : w = moved(r)
    BY <1>6
  <2>3. Lacks(r) /\ r.shutter \notin astray
    BY <1>1, <1>7, <2>2 DEF Lacks
  <2> QED BY <1>7, <2>1, <2>2, <2>3 DEF RowInv, RemotesKnown
<1>12. HydrationFits'
  BY <1>2 DEF HydrationFits, DialogFits, hydration
<1> QED BY <1>5, <1>8, <1>9, <1>10, <1>11, <1>12 DEF RowInv, Follows

-----------------------------------------------------------------------------
(* What a dialog writes *)

\* The row of a dialog replaces those of its slots.
LEMMA WrittenRows ==
    ASSUME KeptInv, RowInv, OneDialog, NEW f \in Flows, NEW n, NEW slots,
           UNCHANGED <<device, astray, hydration>>, Close(f),
           flow[f].at \notin {"none", "stage", "swap"},
           Writes((rows \ RowsAt(slots)) \cup {n}),
           n.slot = flow[f].slot, n.shutter = flow[f].shutter,
           n.state = "active" => fw[flow[f].slot].state = "active",
           flow[f].slot \in slots, slots \subseteq {flow[f].slot, flow[f].source},
           flow[f].source # None => flow[f].source \in slots,
           \A q \in Slots \ {flow[f].slot} : Kept(q) => Kept(q)'
    PROVE  RowInv'
<1> DEFINE s == flow[f].slot
<1>1. FlowFits(f) /\ DialogFits(f)
  BY Dialog DEF RowInv
<1>2. s \in Slots /\ IsFor(s, n.shutter) /\ hydrations = {}
  BY <1>1 DEF FlowFits, DialogFits
<1>3. /\ rows' = (rows \ RowsAt(slots)) \cup {n} /\ (rows' # rows => reloading')
      /\ UNCHANGED <<fw, of, astray, hydrations, unanswered>>
      /\ (reloading => reloading')
  BY DEF Writes, device, hydration
<1>4. ASSUME NEW g \in Flows PROVE DialogFits(g)'
  <2>1. g = f
    BY DEF OneDialog
  <2>2. flow'[g].at = "none" /\ flow'[g].source = None
    BY <2>1 DEF Close, Closed, KeptInv, FlowTypes
  <2> QED BY <2>2 DEF DialogFits, MovedFrom
<1>5. RowsFit'
  <2> SUFFICES ASSUME NEW r \in rows', Current(r)' PROVE RowFits(r)'
    BY DEF RowsFit
  <2>1. CASE r = n
    <3>1. fw[s].state = "active"
      BY <2>1 DEF Current
    <3>2. of[fw[s].id] = n.shutter
      BY <1>2, <3>1, SlotFacts DEF IsFor
    <3> QED BY <1>3, <2>1, <3>1, <3>2 DEF Operates, RowFits
  <2>2. CASE r # n
    <3>1. r \in rows /\ r.slot \notin slots /\ Current(r)
      BY <1>3, <2>2 DEF RowsAt, Current
    <3>2. RowFits(r) /\ MovedFrom(f)
      BY <1>1, <3>1 DEF RowInv, RowsFit, DialogFits
    <3>3. CASE Operates(r)
      BY <1>3, <3>3 DEF Operates, RowFits
    <3>4. CASE \E g \in Flows : r.shutter \in Abandoned(g)
      <4>1. flow[f].source # None /\ r.shutter = flow[f].shutter
        BY <3>4 DEF OneDialog, Abandoned
      <4> QED BY <3>1, <3>2, <4>1 DEF MovedFrom
    <3> QED BY <3>2, <3>3, <3>4 DEF RowFits
  <2> QED BY <2>1, <2>2
<1>6. SlotsManaged'
  <2> SUFFICES ASSUME NEW q \in Slots, Activated(q)' PROVE Managed(q)'
    BY DEF SlotsManaged
  <2>1. Activated(q) /\ Managed(q) /\ fw[q].state = "active"
    BY <1>3 DEF RowInv, SlotsManaged, Activated
  <2>2. CASE q = s
    <3>1. of[fw[s].id] = n.shutter
      BY <1>2, <2>1, <2>2, SlotFacts DEF IsFor
    <3> QED BY <1>3, <2>2, <3>1 DEF Managed, RowsAt
  <2>3. CASE q # s
    <3>1. q \notin slots
      BY <1>1, <2>1, <2>3, NoneIsNoValue DEF DialogFits, MovedFrom
    <3>2. ~\E g \in Flows : flow[g].source # None /\ flow[g].slot = q
      BY <2>3 DEF OneDialog
    <3> QED BY <1>3, <2>1, <2>3, <3>1, <3>2 DEF Managed, RowsAt
  <2> QED BY <2>2, <2>3
<1>7. RemotesKnown'
  BY <1>3 DEF RowInv, RemotesKnown, Lacks
<1>8. HydrationFits' /\ ShuttersFit'
  BY <1>2, <1>3 DEF RowInv, HydrationFits, ShuttersFit
<1> QED BY <1>4, <1>5, <1>6, <1>7, <1>8 DEF RowInv

\* A finished dialog, and an attempt that is kept in the options.
LEMMA SaveRows ==
    ASSUME KeptInv, RowInv, OneDialog, NEW f \in Flows, UNCHANGED hydration,
           SaveActive(f) \/ SaveUncertain(f)
    PROVE  RowInv'
<1> DEFINE s == flow[f].slot
<1>1. FlowFits(f) /\ DialogFits(f)
  BY Dialog DEF RowInv
<1>2. CASE SaveUncertain(f)
  <2> DEFINE n == [slot |-> s, shutter |-> flow[f].shutter, state |-> "uncertain",
                   remote |-> fw[s].remote]
  <2>1. /\ flow[f].at = "confirm" /\ Writes((rows \ RowsAt({s})) \cup {n}) /\ Close(f)
        /\ UNCHANGED <<device, store, astray>>
    BY <1>2 DEF SaveUncertain, Submits
  <2>2. n.slot = s /\ n.shutter = flow[f].shutter /\ n.state # "active"
    OBVIOUS
  <2> HIDE DEF n
  <2>3. flow[f].source = None
    BY <1>1, <2>1 DEF DialogFits, MovedFrom
  <2>4. \A q \in Slots : Kept(q) => Kept(q)'
    BY <2>1 DEF Kept, store
  <2> QED BY <2>1, <2>2, <2>3, <2>4, WrittenRows
<1>3. CASE SaveActive(f)
  <2>1. /\ flow[f].at \in {"export", "recalibrate"} /\ fw[s].state = "active" /\ Close(f)
        /\ Remember(s, None) /\ UNCHANGED <<device, astray>>
    BY <1>3 DEF SaveActive
  <2>2. PICK known \in {FALSE, fw[s].remote} :
           Writes((rows \ RowsAt(Replaced(f))) \cup
                  {[slot |-> s, shutter |-> flow[f].shutter, state |-> "active",
                    remote |-> known]})
    BY <1>3 DEF SaveActive
  <2> DEFINE n == [slot |-> s, shutter |-> flow[f].shutter, state |-> "active",
                   remote |-> known]
  <2>3. n.slot = s /\ n.shutter = flow[f].shutter
    OBVIOUS
  <2>4. Writes((rows \ RowsAt(Replaced(f))) \cup {n})
    BY <2>2
  <2> HIDE DEF n
  <2>5. s \in Slots /\ s # None
    BY <1>1, <2>1, NoneIsNoValue DEF FlowFits
  <2>6. /\ s \in Replaced(f) /\ Replaced(f) \subseteq {s, flow[f].source}
        /\ flow[f].source # None => flow[f].source \in Replaced(f)
    BY <2>5 DEF Replaced
  <2>7. \A q \in Slots \ {s} : Kept(q) => Kept(q)'
    BY <2>1, <2>5 DEF Remember, Kept, KeptInv, StoreTypes, Attempts
  <2> QED BY <2>1, <2>3, <2>4, <2>6, <2>7, WrittenRows
<1> QED BY <1>2, <1>3

-----------------------------------------------------------------------------
(* Behind the dialogs *)

\* What is written to the disk is what was kept.
LEMMA StoreRows ==
    ASSUME KeptInv, RowInv, UNCHANGED hydration, Save \/ SaveLeftover
    PROVE  RowInv'
<1>1. /\ UNCHANGED <<device, fw, of, rows, reloading, flow, astray, hydrations>>
      /\ leftover' \in {leftover, None}
  BY DEF Save, SaveLeftover, device, hydration
<1>2. KeptStays
  BY <1>1 DEF KeptStays, Kept, Save, SaveLeftover
<1>3. ASSUME NEW f \in Flows PROVE Follows(f)
  <2>1. DialogFits(f)
    BY DEF RowInv
  <2>2. MovedFrom(f)'
    BY <1>1, <2>1 DEF DialogFits, MovedFrom, Current
  <2>3. DialogFits(f)'
    BY <1>1, <2>1, <2>2 DEF DialogFits, IsFor, HasRow
  <2> QED BY <1>1, <2>3 DEF Follows, Abandoned
<1> QED BY <1>1, <1>2, <1>3, DeviceStays, StepFits

\* Slots and shutters of the rows are left alone, and so are the dialogs, all closed.
LEMMA HydrateRows ==
    ASSUME KeptInv, RowInv, NEW snapshot \in hydrations, NEW answers \in SUBSET Slots,
           Hydrate(snapshot, answers)
    PROVE  RowInv'
<1> DEFINE lacking == {r \in rows : Lacks(r)}
           got(r) == IF r \in lacking /\ r.slot \in answers THEN Hydrated(r) ELSE r
<1>1. snapshot = rows /\ hydrations = {rows}
  BY DEF RowInv, HydrationFits
<1>2. /\ rows' = {got(r) : r \in rows} /\ hydrations' = {}
      /\ unanswered' = (unanswered \/ \E r \in lacking : r.slot \notin answers)
      /\ UNCHANGED <<device, store, flow, astray, fw, of>>
  BY <1>1 DEF Hydrate, Writes, device
<1>3. ASSUME NEW r \in rows
      PROVE  /\ got(r).slot = r.slot /\ got(r).shutter = r.shutter
             /\ got(r).state = r.state
             /\ r \in lacking /\ r.slot \in answers => got(r).remote = fw[r.slot].remote
             /\ ~(r \in lacking /\ r.slot \in answers) => got(r) = r
  BY RowFacts DEF Rows, Hydrated
<1> HIDE DEF got
<1>4. \A f \in Flows : flow[f].at = "none" /\ flow[f].source = None
  BY <1>1 DEF RowInv, DialogFits, MovedFrom
<1>5. \A f \in Flows : DialogFits(f)'
  BY <1>2, <1>4 DEF DialogFits, MovedFrom
<1>6. RowsFit'
  <2> SUFFICES ASSUME NEW w \in rows', Current(w)' PROVE RowFits(w)'
    BY DEF RowsFit
  <2>1. PICK r \in rows : w = got(r)
    BY <1>2
  <2>2. Operates(r)
    BY <1>2, <1>3, <1>4, <2>1 DEF Current, RowInv, RowsFit, RowFits, Abandoned
  <2> QED BY <1>2, <1>3, <2>1, <2>2 DEF Operates, RowFits
<1>7. SlotsManaged'
  <2> SUFFICES ASSUME NEW q \in Slots, Activated(q)' PROVE Managed(q)'
    BY DEF SlotsManaged
  <2>1. Managed(q)
    BY <1>2 DEF RowInv, SlotsManaged, Activated
  <2>2. CASE \E r \in RowsAt({q}) : r.shutter = of[fw[q].id]
    <3>1. PICK r \in rows : r.slot = q /\ r.shutter = of[fw[q].id]
      BY <2>2 DEF RowsAt
    <3>2. got(r) \in rows' /\ got(r).slot = q /\ got(r).shutter = of'[fw'[q].id]
      BY <1>2, <1>3, <3>1
    <3> QED BY <3>2 DEF Managed, RowsAt
  <2>3. CASE Kept(q)
    BY <1>2, <2>3 DEF Managed, Kept, store
  <2> QED BY <1>4, <2>1, <2>2, <2>3 DEF Managed
<1>8. RemotesKnown'
  <2> SUFFICES ASSUME ~unanswered', NEW w \in rows', Lacks(w) PROVE ~fw'[w.slot].remote
    BY DEF RemotesKnown, Lacks
  <2>1. PICK r \in rows : w = got(r)
    BY <1>2
  <2>2. r \in lacking
    BY <1>3, <2>1 DEF Lacks
  <2>3. w.slot = r.slot /\ w.remote = fw[r.slot].remote
    BY <1>2, <1>3, <2>1, <2>2
  <2> QED BY <1>2, <2>3 DEF Lacks
<1>9. HydrationFits' /\ ShuttersFit'
  BY <1>2 DEF RowInv, HydrationFits, ShuttersFit
<1> QED BY <1>5, <1>6, <1>7, <1>8, <1>9 DEF RowInv

\* A load looks for every remote that is missing.
LEMMA HydratesRows ==
    ASSUME Hydrates({}), rows' = rows, reloading' = FALSE
    PROVE  RemotesKnown' /\ HydrationFits'
<1>1. CASE \E r \in rows : Lacks(r)
  BY <1>1 DEF Hydrates, RemotesKnown, HydrationFits
<1>2. CASE ~\E r \in rows : Lacks(r)
  BY <1>2 DEF Hydrates, RemotesKnown, HydrationFits, Lacks
<1> QED BY <1>1, <1>2

\* The new runtime has what the store has, with no dialog open.
LEMMA LoadRows ==
    ASSUME KeptInv, RowInv, Reload \/ Crash PROVE RowInv'
<1>1. /\ UNCHANGED <<device, fw, of, rows, disk>> /\ reloading' = FALSE /\ pending' = Loaded
      /\ Hydrates({}) /\ leftover' \in {leftover, None, pending}
  <2>1. CASE Reload
    BY <2>1 DEF Reload, RowInv, HydrationFits, device
  <2>2. CASE Crash
    BY <2>2 DEF Crash, device
  <2> QED BY <2>1, <2>2
<1>2. \A s \in Slots : Kept(s) => Kept(s)'
  BY <1>1, LoadedKeeps DEF Kept
<1>3. KeptStays
  BY <1>1, <1>2 DEF KeptStays
<1>4. ASSUME NEW f \in Flows
      PROVE  /\ DialogFits(f)' /\ Abandoned(f) \subseteq astray'
             /\ flow[f].source # None => flow[f].shutter \in astray'
  <2>1. DialogFits(f)
    BY DEF RowInv
  <2>2. CASE Reload
    <3>1. flow' = flow /\ flow[f].at = "none" /\ flow[f].source = None
      BY <2>1, <2>2 DEF Reload, DialogFits, MovedFrom
    <3> QED BY <3>1 DEF DialogFits, MovedFrom, Abandoned
  <2>3. CASE Crash
    <3>1. flow' = [g \in Flows |-> Closed] /\ Abandoned(f) \subseteq astray'
      BY <2>3 DEF Crash
    <3>2. flow'[f].at = "none" /\ flow'[f].source = None
      BY <3>1 DEF Closed
    <3>3. flow[f].source # None => flow[f].shutter \in Abandoned(f)
      BY <2>1 DEF DialogFits, MovedFrom, Abandoned
    <3> QED BY <3>1, <3>2, <3>3 DEF DialogFits, MovedFrom
  <2> QED BY <2>2, <2>3
<1>5. astray \subseteq astray'
  BY DEF Reload, Crash
<1>6. ActiveStays /\ ShuttersFit'
  BY <1>1, DeviceStays
<1>7. RowsFit'
  BY <1>1, <1>4, <1>5, <1>6, RowsStay
<1>8. SlotsManaged'
  BY <1>1, <1>3, <1>4, <1>5, <1>6, ManagedStays
<1>9. RemotesKnown' /\ HydrationFits'
  BY <1>1, HydratesRows
<1> QED BY <1>4, <1>6, <1>7, <1>8, <1>9 DEF RowInv

-----------------------------------------------------------------------------
(* The rows are right *)

\* At first there are no rows, and no remote of an active controller is known.
LEMMA InitRows == Init => RowInv
<1> SUFFICES ASSUME Init PROVE RowInv
  OBVIOUS
<1>1. KeptInv
  BY InitKept
<1>2. ASSUME NEW s \in Slots, fw[s].state = "active" PROVE ~fw[s].remote
  <2>1. fw[s] \in {Empty} \cup {[state |-> "active", id |-> id, remote |-> FALSE] : id \in Ids}
    BY DEF Init
  <2>2. \A id \in Ids : ~[state |-> "active", id |-> id, remote |-> FALSE].remote
    OBVIOUS
  <2> QED BY <2>1, <2>2 DEF Empty
<1>3. ShuttersFit
  <2> SUFFICES ASSUME NEW s \in Slots, NEW t \in Slots, fw[s].id # None, fw[t].id # None,
                      of[fw[s].id] = of[fw[t].id]
               PROVE  s = t
    BY DEF ShuttersFit
  <2>1. fw[s].id \in Ids /\ fw[t].id \in Ids
    BY <1>1 DEF KeptInv, DeviceTypes, SlotRecords
  <2>2. of[fw[s].id] # None
    BY <2>1 DEF Init
  <2>3. fw[s].id = fw[t].id
    BY <2>1, <2>2 DEF Init
  <2> QED BY <2>3 DEF Init
<1>4. ASSUME NEW f \in Flows PROVE DialogFits(f)
  <2>1. flow[f].at = "none" /\ flow[f].source = None
    BY DEF Init, Closed
  <2> QED BY <2>1 DEF DialogFits, MovedFrom
<1>5. RowsFit /\ RemotesKnown /\ HydrationFits
  BY DEF Init, RowsFit, RemotesKnown, HydrationFits
<1>6. SlotsManaged
  BY <1>2 DEF SlotsManaged, Activated
<1> QED BY <1>3, <1>4, <1>5, <1>6 DEF RowInv

\* Every step of a user who does not use what was left behind keeps the rows right.
LEMMA StepRows ==
    ASSUME OneDialog, KeptInv, RowInv, [SensibleNext]_vars PROVE RowInv'
<1>1. ASSUME NEW f \in Flows, UNCHANGED hydration,
             \/ Working(f) \/ User(f, {h \in Shutters : IsNew(h)})
             \/ Maintains(f, {r \in rows : IsFor(r.slot, r.shutter)},
                             {s \in Slots : IsFor(s, pending[s])})
      PROVE  RowInv'
  <2>1. CASE Working(f)
    BY <1>1, <2>1, TalkRows, FailRows, SetUpRows, StageRows, MoveRows, SwapRows,
       SwapLostRows, SaveRows DEF Working
  <2>2. CASE User(f, {h \in Shutters : IsNew(h)})
    BY <1>1, <2>2, TalkRows, FailRows, OpenRows, SaveRows DEF User
  <2>3. CASE Maintains(f, {r \in rows : IsFor(r.slot, r.shutter)},
                          {s \in Slots : IsFor(s, pending[s])})
    BY <1>1, <2>3, OpenRows
  <2> QED BY <1>1, <2>1, <2>2, <2>3
<1>2. CASE Background
  BY <1>2, HearRows, StoreRows, HydrateRows, LoadRows DEF Background
<1>3. CASE UNCHANGED vars
  <2>1. UNCHANGED <<device, fw, of, rows, store, leftover, reloading, flow, astray, hydration,
                    hydrations>>
    BY <1>3 DEF vars, device, store, hydration
  <2>2. ASSUME NEW f \in Flows PROVE Follows(f)
    <3>1. DialogFits(f)
      BY DEF RowInv
    <3>2. MovedFrom(f)'
      BY <2>1, <3>1 DEF DialogFits, MovedFrom, Current
    <3>3. DialogFits(f)'
      BY <2>1, <3>1, <3>2 DEF DialogFits, IsFor, HasRow
    <3> QED BY <2>1, <3>3 DEF Follows, Abandoned
  <2>3. KeptStays
    BY <2>1, StoreStays
  <2> QED BY <2>1, <2>2, <2>3, DeviceStays, StepFits
<1> QED BY <1>1, <1>2, <1>3 DEF SensibleNext

\* Such a user takes steps of the program.
LEMMA SensibleStep == SensibleNext => Next
<1>1. ASSUME NEW f \in Flows,
             Maintains(f, {r \in rows : IsFor(r.slot, r.shutter)},
                          {s \in Slots : IsFor(s, pending[s])})
      PROVE  Maintains(f, rows, Slots)
  BY <1>1 DEF Maintains
<1>2. ASSUME NEW f \in Flows, User(f, {h \in Shutters : IsNew(h)}) PROVE User(f, Shutters)
  BY <1>2 DEF User
<1> QED BY <1>1, <1>2 DEF SensibleNext, Next

\* Both invariants hold in every state such a user can reach.
LEMMA AlwaysRows == ASSUME OneDialog PROVE SensibleSpec => [](KeptInv /\ RowInv)
<1>1. Init => KeptInv /\ RowInv
  BY InitKept, InitRows
<1>2. KeptInv /\ RowInv /\ [SensibleNext]_vars => (KeptInv /\ RowInv)'
  <2> SUFFICES ASSUME KeptInv, RowInv, [SensibleNext]_vars PROVE KeptInv' /\ RowInv'
    OBVIOUS
  <2>1. [Next]_vars
    BY SensibleStep
  <2> QED BY <2>1, StepKept, StepRows
<1> QED BY <1>1, <1>2, PTL DEF SensibleSpec

\* SaveActive, Move, Swap, their lost replies, a crash and a hydration: an active row
\* names the slot that holds the identity made for its shutter, unless a move or a
\* swap of it was never finished.
THEOREM RowsAreRight == ASSUME OneDialog PROVE SensibleSpec => []RowsOperate
<1>1. RowInv => RowsOperate
  BY DEF RowInv, RowsFit, RowFits, Current, Operates, RowsOperate
<1> QED BY <1>1, AlwaysRows, PTL

\* _async_finalize, _save_active, the delayed save, a reload and a crash: a controller
\* the wizard has activated has its row, or its attempt, or the dialog that writes it.
THEOREM ActivatedIsManaged == ASSUME OneDialog PROVE SensibleSpec => []ConfirmedIsManaged
<1>1. KeptInv /\ RowInv => ConfirmedIsManaged
  <2> SUFFICES ASSUME KeptInv, RowInv, NEW s \in Slots, Activated(s)
               PROVE  \/ \E r \in RowsAt({s}) : r.shutter = of[fw[s].id]
                      \/ pending[s] # None
                      \/ Finishing(s)
    BY DEF ConfirmedIsManaged, Activated
  <2>1. Managed(s)
    BY DEF RowInv, SlotsManaged
  <2>2. CASE \E f \in Flows : flow[f].source # None /\ flow[f].slot = s
    BY <2>2 DEF RowInv, DialogFits, MovedFrom, Finishing
  <2> QED BY <2>1, <2>2 DEF Managed, Kept
<1> QED BY <1>1, AlwaysRows, PTL

\* _async_hydrate_remote_metadata: once the entry is loaded and every slot has answered,
\* no row of a shutter whose remote the firmware knows is without it.
THEOREM RemotesRecovered == ASSUME OneDialog PROVE SensibleSpec => []RemotesKnown
<1>1. RowInv => RemotesKnown
  BY DEF RowInv
<1> QED BY <1>1, AlwaysRows, PTL

=============================================================================
