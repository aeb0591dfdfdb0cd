-------------------------- MODULE JournalStoreProofs --------------------------
(***************************************************************************)
(* UnderWayIsKnown, BackupFits and StaysCleared hold of CalmSpec for any   *)
(* runtime objects, and any number of archives and recoveries.             *)
(*                                                                         *)
(* A journal can be lost through a save of an object that does not have    *)
(* it, and a wrong backup come from an object that does not listen any     *)
(* more.  So the invariant follows the objects that may still write: the   *)
(* registered one, those with a save scheduled, and those whose dialog or  *)
(* recovery may ask for a backup, which Calm keeps the registered ones.    *)
(***************************************************************************)
EXTENDS JournalStore, TLAPS

\* A journal before its prepare has no token, and no journal the backup of another
\* archive than its own.
JournalFits(j) ==
    j # None =>
        /\ j.phase = "preparing" => j.token = None
        /\ j.backup \in {None, j.token}
        /\ j.phase = "active" => fw = "active"

JournalsFit ==
    /\ JournalFits(disk.journal) /\ JournalFits(flow.job)
    /\ \A o \in Objects : JournalFits(mem[o].journal)
    /\ \A r \in recoveries : JournalFits(r.job)

\* The dialog may still ask for a prepare or a backup.
FlowPrepares ==
    \/ flow.at \in {"settle", "prepare"}
    \/ flow.at \in {"wait", "exchange"} /\ flow.job.backup = None

\* It prepares next.
PreparesNext ==
    flow.at = "prepare" \/ (flow.at = "exchange" /\ flow.job.phase = "preparing")

\* Whoever may ask for a backup is the object that hears of it.
AskersListen ==
    /\ FlowPrepares => flow.obj = registered /\ unsaved \subseteq {registered}
    /\ \A r \in recoveries : r.job.backup = None => r.obj = registered

\* What a dialog is at.
FlowFits ==
    /\ flow.at # "none" => flow.obj \in Objects /\ flow.job # None
    /\ flow.at \in {"settle", "prepare"} =>
          fw = "home" /\ ~moved /\ flow.job.phase = "preparing"
    /\ PreparesNext =>
          /\ fw = "home"
          /\ \A j \in {disk.journal, mem[registered].journal} : j # None /\ j.backup = None
    /\ flow.at = "exchange" =>
          /\ flow.job.phase # "active"
          /\ flow.job.phase # "preparing" => unsaved = {} /\ fw = flow.job.phase
    /\ flow.at = "wait" /\ fw # "home" => unsaved \subseteq {flow.obj}
    /\ flow.at = "finish" => fw = "active"

\* The objects whose memory may be written to disk, or shown to the user.
Writers == unsaved \cup ({registered} \ {None})

\* While a transfer is under way they have its journal, and so has the disk.
Known ==
    /\ moved => fw = "active"
    /\ fw # "home" /\ ~moved =>
          /\ disk.journal # None
          /\ \A o \in Writers : mem[o].journal # None
    /\ fw \notin {"home", "active"} =>
          /\ disk.journal # None => disk.journal.backup \in {None, archives}
          /\ \A o \in Writers : mem[o].journal # None =>
                mem[o].journal.backup \in {None, archives}
    /\ fw \in {"activated", "committed", "active"} => unsaved = {}

StoreInv == TypeOK /\ JournalsFit /\ AskersListen /\ FlowFits /\ Known

-----------------------------------------------------------------------------
(* Journals and stores *)

\* None is nothing else, and what Closed and Blank are.
LEMMA Values ==
    /\ None \notin Objects /\ None \notin Backups /\ None \notin Journals
    /\ Blank \in Stores /\ Blank.journal = None /\ Closed \in Flows
BY NoneIsNoValue DEF Blank, Stores, Closed, Flows, Stages

\* What the objects have heard.
LEMMA HeardFits ==
    ASSUME TypeOK, NEW b \in Backups
    PROVE  /\ Heard(b) \in [Objects -> Stores]
           /\ \A o \in Objects : Heard(b)[o].journal = mem[o].journal
           /\ registered # None => Heard(b)[registered].backup = b
           /\ Heard(b) # mem => registered # None
BY DEF TypeOK, Heard, Stores

\* What a write of journal j by object o leaves.
LEMMA Written ==
    ASSUME TypeOK, NEW heard \in [Objects -> Stores], NEW o \in Objects,
           NEW j \in Journals \cup {None}, SetPending(heard, o, j),
           \A g \in Objects : heard[g].journal = mem[g].journal
    PROVE  /\ mem' \in [Objects -> Stores] /\ disk' \in Stores /\ unsaved' \subseteq Objects
           /\ disk'.journal = j /\ mem'[o].journal = j
           /\ \A g \in Objects \ {o} : mem'[g].journal = mem[g].journal
           /\ unsaved' \subseteq (unsaved \cup ({registered} \ {None})) \ {o}
           /\ heard = mem => unsaved' = unsaved \ {o}
<1>1. /\ mem' = [heard EXCEPT ![o].journal = j]
      /\ disk' = mem'[o]
      /\ unsaved' = (IF heard = mem \/ registered = None THEN unsaved
                     ELSE unsaved \cup {registered}) \ {o}
  BY DEF SetPending
<1>2. /\ unsaved \subseteq Objects /\ registered \in Objects \cup {None}
  BY DEF TypeOK
<1>3. mem' \in [Objects -> Stores] /\ mem'[o].journal = j
  BY <1>1 DEF Stores
<1> QED BY <1>1, <1>2, <1>3

\* A cached backup leaves the journals.
LEMMA Remembered ==
    ASSUME TypeOK, NEW b \in Backups, Remember(b)
    PROVE  /\ mem' \in [Objects -> Stores] /\ unsaved' \subseteq Objects /\ disk' = disk
           /\ \A g \in Objects : mem'[g].journal = mem[g].journal
           /\ unsaved' = unsaved \cup ({registered} \ {None})
<1>1. mem' = Heard(b) /\ disk' = disk
      /\ unsaved' = IF registered = None THEN unsaved ELSE unsaved \cup {registered}
  BY DEF Remember
<1>2. unsaved \subseteq Objects /\ registered \in Objects \cup {None}
  BY DEF TypeOK
<1> QED BY <1>1, <1>2, HeardFits

\* What is made of journal j by object o, which hears of the backup if it asks.
LEMMA Amends ==
    ASSUME TypeOK, NEW o \in Objects, NEW j \in Journals, JournalFits(j),
           Reconciled(j) # None, j.backup = None => o = registered
    PROVE  /\ Amended(o, j) \in Journals
           /\ HeardBy(j) \in [Objects -> Stores]
           /\ \A g \in Objects : HeardBy(j)[g].journal = mem[g].journal
           /\ HeardBy(j) # mem => o = registered /\ j.backup = None
           /\ Amended(o, j).phase = IF fw = "home" THEN j.phase ELSE fw
           /\ fw = "home" => j.phase = "preparing" /\ Amended(o, j) = j
           /\ JournalFits(Amended(o, j))
           /\ fw \notin {"home", "active"} => Amended(o, j).backup \in {None, archives}
           /\ Amended(o, j).backup = None => j.backup = None
<1>1. /\ fw \in {"home"} \cup (Phases \ {"preparing"}) /\ archives \in Backups
  BY DEF TypeOK
<1>2. /\ j.phase \in Phases /\ j.token \in Backups \cup {None}
      /\ j.backup \in Backups \cup {None}
      /\ j = [phase |-> j.phase, token |-> j.token, backup |-> j.backup]
  BY DEF Journals
<1>3. /\ j.phase = "preparing" => j.token = None
      /\ j.backup \in {None, j.token} /\ (j.phase = "active" => fw = "active")
  BY Values DEF JournalFits
<1>4. /\ Reconciled(j) = IF fw = "home" THEN j.phase ELSE fw
      /\ fw = "home" => j.phase = "preparing"
      /\ fw \notin {"home", "active"} => j.token \in {None, archives}
  BY <1>1, <1>3, Values DEF Reconciled, FwToken
<1>5. Reconciled(j) \in Phases
  BY <1>1, <1>2, <1>4
<1>6. /\ HeardBy(j) \in [Objects -> Stores]
      /\ \A g \in Objects : HeardBy(j)[g].journal = mem[g].journal
      /\ HeardBy(j) # mem => o = registered /\ j.backup = None
      /\ Asks(j) => HeardBy(j)[o].backup = archives /\ fw \in {"prepared", "imported"}
  <2>1. CASE Asks(j)
    <3>1. HeardBy(j) = Heard(archives) /\ j.backup = None /\ o = registered
      BY <2>1 DEF HeardBy, Asks
    <3>2. fw \in {"prepared", "imported"}
      BY <1>4, <2>1 DEF Asks
    <3> QED BY <1>1, <3>1, <3>2, Values, HeardFits
  <2>2. CASE ~Asks(j)
    BY <2>2 DEF HeardBy, TypeOK
  <2> QED BY <2>1, <2>2
<1>7. \E k \in Backups \cup {None}, b \in Backups \cup {None} :
         /\ Amended(o, j) = [phase |-> Reconciled(j), token |-> k, backup |-> b]
         /\ k = IF fw \in {"home", "active"} THEN j.token ELSE archives
         /\ b = IF Asks(j) THEN archives ELSE j.backup
  BY <1>1, <1>2, <1>6, Values DEF Amended, FwToken
<1> QED BY <1>1, <1>2, <1>3, <1>4, <1>5, <1>6, <1>7, Values DEF Journals, JournalFits

-----------------------------------------------------------------------------
(* The steps *)

\* A delayed save.
LEMMA SaveKeeps == ASSUME StoreInv, NEW o \in Objects, Save(o) PROVE StoreInv'
<1>1. /\ o \in unsaved /\ disk' = mem[o] /\ unsaved' = unsaved \ {o}
      /\ UNCHANGED <<fw, archives, mem, registered, dest, reloading, moved, flow,
                     recoveries, missed>>
  BY DEF Save, firmware, entries
<1>2. TypeOK'
  BY <1>1 DEF StoreInv, TypeOK
<1>3. JournalsFit'
  BY <1>1 DEF StoreInv, JournalsFit, JournalFits
<1>4. AskersListen'
  BY <1>1 DEF StoreInv, AskersListen, FlowPrepares
<1>5. FlowFits'
  BY <1>1 DEF StoreInv, FlowFits, PreparesNext, AskersListen, FlowPrepares, JournalsFit,
              JournalFits
<1>6. Known'
  BY <1>1 DEF StoreInv, Known, Writers
<1> QED BY <1>2, <1>3, <1>4, <1>5, <1>6 DEF StoreInv

\* A refreshed backup, while nothing is archived.
LEMMA BackupKeeps == ASSUME StoreInv, BackupUpdated PROVE StoreInv'
<1>1. /\ fw = "home" /\ Remember(archives)
      /\ UNCHANGED <<fw, archives, disk, registered, dest, reloading, moved, flow,
                     recoveries, missed>>
  BY DEF BackupUpdated, firmware, entries
<1>2. /\ mem' \in [Objects -> Stores] /\ unsaved' \subseteq Objects
      /\ \A g \in Objects : mem'[g].journal = mem[g].journal
      /\ unsaved' = unsaved \cup ({registered} \ {None})
  BY <1>1, Remembered DEF StoreInv, TypeOK
<1>3. TypeOK'
  BY <1>1, <1>2 DEF StoreInv, TypeOK
<1>4. JournalsFit'
  BY <1>1, <1>2 DEF StoreInv, JournalsFit, JournalFits
<1>5. AskersListen'
  BY <1>1, <1>2 DEF StoreInv, AskersListen, FlowPrepares
<1>6. FlowFits'
  <2>1. PreparesNext => registered \in Objects
    BY Values DEF StoreInv, AskersListen, FlowPrepares, FlowFits, PreparesNext, JournalsFit,
           JournalFits
  <2>2. flow.at = "exchange" => flow.job.phase = "preparing"
    BY <1>1 DEF StoreInv, FlowFits, TypeOK, Flows, Journals, Phases
  <2> QED BY <1>1, <1>2, <2>1, <2>2
          DEF StoreInv, FlowFits, PreparesNext, AskersListen, FlowPrepares, JournalsFit,
              JournalFits
<1>7. Known'
  BY <1>1, <1>2 DEF StoreInv, Known, Writers
<1> QED BY <1>3, <1>4, <1>5, <1>6, <1>7 DEF StoreInv

\* A form is submitted.
LEMMA SubmitKeeps == ASSUME StoreInv, User PROVE StoreInv'
<1>1. PICK at \in {"settle", "wait"}, j \in Journals, undo \in BOOLEAN :
         /\ Submits(at, j, undo) /\ JournalFits(j)
         /\ at = "settle" => /\ ~moved /\ j.phase = "preparing"
                             /\ mem[registered].journal = None
         /\ at = "wait" => j = mem[registered].journal
  <2>1. CASE SubmitStart
    <3>1. [phase |-> "preparing", token |-> None, backup |-> None] \in Journals
      BY DEF Journals, Phases
    <3> QED BY <2>1, <3>1 DEF SubmitStart, Submits, JournalFits
  <2>2. ASSUME NEW undo \in BOOLEAN, SubmitResume(undo)
        PROVE  \E j \in Journals : Submits("wait", j, undo) /\ JournalFits(j)
                                   /\ j = mem[registered].journal
    BY <2>2, Values DEF SubmitResume, Submits, StoreInv, TypeOK, JournalsFit, Stores
  <2> QED BY <2>1, <2>2 DEF User
<1>2. /\ registered \in Objects /\ unsaved \subseteq {registered}
      /\ flow = Closed /\ flow' = [at |-> at, obj |-> registered, job |-> j, undo |-> undo]
      /\ UNCHANGED <<fw, archives, mem, unsaved, disk, registered, dest, reloading, moved,
                     recoveries, missed>>
  BY <1>1 DEF Submits, firmware, store, entries, StoreInv, TypeOK
<1>3. TypeOK'
  BY <1>1, <1>2 DEF StoreInv, TypeOK, Flows, Stages
<1>4. JournalsFit'
  BY <1>1, <1>2 DEF StoreInv, JournalsFit, JournalFits
<1>5. AskersListen'
  BY <1>1, <1>2 DEF StoreInv, AskersListen, FlowPrepares
<1>6. FlowFits'
  <2>1. at = "settle" => fw = "home"
    BY <1>1, <1>2, Values DEF StoreInv, Known, Writers
  <2> QED BY <1>1, <1>2, <2>1, Values DEF FlowFits, PreparesNext
<1>7. Known'
  BY <1>2 DEF StoreInv, Known, Writers
<1> QED BY <1>3, <1>4, <1>5, <1>6, <1>7 DEF StoreInv

\* The first checkpoint.
LEMMA CheckpointKeeps == ASSUME StoreInv, Checkpoint PROVE StoreInv'
<1> DEFINE j == flow.job
<1>1. /\ flow.at = "settle" /\ SetPending(mem, flow.obj, j)
      /\ flow' = [flow EXCEPT !.at = "prepare", !.job = j]
      /\ UNCHANGED <<fw, archives, registered, dest, reloading, moved, recoveries, missed>>
  BY DEF Checkpoint, Goes, firmware, entries
<1>2. /\ flow.obj \in Objects /\ flow.obj = registered /\ j \in Journals
      /\ unsaved \subseteq {registered} /\ fw = "home" /\ ~moved /\ j.phase = "preparing"
      /\ JournalFits(j) /\ j.backup = None /\ mem \in [Objects -> Stores]
  BY <1>1, Values
     DEF StoreInv, TypeOK, FlowFits, AskersListen, FlowPrepares, Flows, JournalsFit,
         JournalFits
<1>3. /\ mem' \in [Objects -> Stores] /\ disk' \in Stores
      /\ disk'.journal = j /\ mem'[registered].journal = j
      /\ \A g \in Objects \ {registered} : mem'[g].journal = mem[g].journal
      /\ unsaved' = {}
  BY <1>1, <1>2, Written DEF StoreInv
<1>4. flow'.at = "prepare" /\ flow'.obj = registered /\ flow'.job = j /\ flow' \in Flows
  BY <1>1, <1>2 DEF StoreInv, TypeOK, Flows, Stages
<1>5. TypeOK'
  BY <1>1, <1>3, <1>4 DEF StoreInv, TypeOK
<1>6. JournalsFit'
  BY <1>1, <1>2, <1>3, <1>4 DEF StoreInv, JournalsFit, JournalFits
<1>7. AskersListen'
  BY <1>1, <1>3, <1>4 DEF StoreInv, AskersListen, FlowPrepares
<1>8. FlowFits'
  BY <1>1, <1>2, <1>3, <1>4, Values DEF FlowFits, PreparesNext
<1>9. Known'
  BY <1>1, <1>2, <1>3 DEF StoreInv, Known, Writers
<1> QED BY <1>5, <1>6, <1>7, <1>8, <1>9 DEF StoreInv

\* JournalFits depends on the firmware only once the transfer has ended.
LEMMA StillFits ==
    ASSUME JournalsFit, fw' = fw \/ fw # "active"
    PROVE  /\ JournalFits(disk.journal) /\ JournalFits(flow.job)
           /\ \A j : JournalFits(j) => (j # None =>
                 /\ j.phase = "preparing" => j.token = None
                 /\ j.backup \in {None, j.token}
                 /\ j.phase = "active" => fw' = "active")
BY DEF JournalsFit, JournalFits

\* A dialog that prepares next.
LEMMA PreparesFits ==
    ASSUME StoreInv, PreparesNext
    PROVE  /\ flow.obj = registered /\ registered \in Objects /\ unsaved \subseteq {registered}
           /\ fw = "home" /\ ~moved /\ flow.job \in Journals
           /\ \A j \in {disk.journal, mem[registered].journal} : j # None /\ j.backup = None
<1>1. flow.at # "none" /\ flow.obj \in Objects /\ flow.job \in Journals
  BY DEF StoreInv, TypeOK, FlowFits, PreparesNext, Flows
<1>2. FlowPrepares
  BY <1>1, Values DEF StoreInv, PreparesNext, FlowPrepares, JournalsFit, JournalFits
<1> QED BY <1>1, <1>2 DEF StoreInv, AskersListen, FlowFits, Known

\* A prepare: the object of the dialog hears of the backup.
LEMMA PrepareKeeps == ASSUME StoreInv, Prepare PROVE StoreInv'
<1> DEFINE o == flow.obj
           b == archives'
           j == [phase |-> "prepared", token |-> b, backup |-> b]
<1>1. /\ PreparesNext /\ fw = "home" /\ fw' = "prepared" /\ archives' = archives + 1
      /\ UNCHANGED <<registered, dest, reloading, moved, recoveries, missed>>
  BY DEF Prepare, PreparesNext, FwPrepare, entries
<1>2. /\ o = registered /\ o \in Objects /\ unsaved \subseteq {o} /\ ~moved
  BY <1>1, PreparesFits
<1>3. b \in Backups /\ b # None /\ j \in Journals
  <2>1. archives \in Backups /\ archives < MaxArchives
    BY DEF Prepare, FwPrepare, StoreInv, TypeOK
  <2>2. b \in Backups
    BY <1>1, <2>1, BoundsAreUseful DEF Backups
  <2> QED BY <2>2, Values DEF Journals, Phases
<1>4. /\ Heard(b) \in [Objects -> Stores] /\ Heard(b)[o].backup = b
      /\ \A g \in Objects : Heard(b)[g].journal = mem[g].journal
  BY <1>2, <1>3, Values, HeardFits DEF StoreInv
<1>5. /\ SetPending(Heard(b), o, j)
      /\ flow' = [flow EXCEPT !.at = IF flow.at = "prepare" THEN "wait" ELSE "exchange",
                              !.job = j]
  BY <1>3, <1>4 DEF Prepare, Goes
<1>6. /\ mem' \in [Objects -> Stores] /\ disk' \in Stores /\ unsaved' = {}
      /\ disk'.journal = j /\ mem'[o].journal = j
      /\ \A g \in Objects \ {o} : mem'[g].journal = mem[g].journal
  BY <1>2, <1>3, <1>4, <1>5, Written DEF StoreInv
<1>7. /\ flow'.at \in {"wait", "exchange"} /\ flow'.obj = o /\ flow'.job = j
      /\ flow' \in Flows
  BY <1>2, <1>3, <1>5 DEF StoreInv, TypeOK, Flows, Stages
<1>8. TypeOK'
  BY <1>1, <1>3, <1>6, <1>7 DEF StoreInv, TypeOK, Phases
<1>9. JournalsFit'
  BY <1>1, <1>2, <1>3, <1>6, <1>7, StillFits DEF StoreInv, JournalsFit, JournalFits
<1>10. AskersListen'
  BY <1>1, <1>3, <1>7 DEF StoreInv, AskersListen, FlowPrepares
<1>11. FlowFits'
  BY <1>1, <1>2, <1>3, <1>6, <1>7, Values DEF FlowFits, PreparesNext
<1>12. Known'
  BY <1>1, <1>2, <1>3, <1>6, Values DEF Known, Writers
<1> QED BY <1>8, <1>9, <1>10, <1>11, <1>12 DEF StoreInv

\* A prepare whose reply is lost: the journal on disk has no backup yet.
LEMMA PrepareLostKeeps == ASSUME StoreInv, PrepareLost PROVE StoreInv'
<1>1. /\ PreparesNext /\ fw = "home" /\ fw' = "prepared" /\ archives' = archives + 1
      /\ Remember(archives') \/ UNCHANGED store
      /\ flow' = Closed
      /\ UNCHANGED <<registered, dest, reloading, moved, recoveries, missed>>
  BY DEF PrepareLost, PreparesNext, FwPrepare, entries
<1>2. /\ registered \in Objects /\ unsaved \subseteq {registered} /\ ~moved
      /\ \A j \in {disk.journal, mem[registered].journal} : j # None /\ j.backup = None
  BY <1>1, PreparesFits
<1>3. archives' \in Backups
  <2>1. archives \in Backups /\ archives < MaxArchives
    BY DEF PrepareLost, FwPrepare, StoreInv, TypeOK
  <2> QED BY <1>1, <2>1, BoundsAreUseful DEF Backups
<1>4. /\ mem' \in [Objects -> Stores] /\ unsaved' \subseteq {registered} /\ disk' = disk
      /\ \A g \in Objects : mem'[g].journal = mem[g].journal
  BY <1>1, <1>2, <1>3, Remembered DEF StoreInv, TypeOK, store
<1>5. TypeOK'
  BY <1>1, <1>2, <1>3, <1>4, Values DEF StoreInv, TypeOK, Phases
<1>6. JournalsFit'
  BY <1>1, <1>4, StillFits DEF StoreInv, JournalsFit, JournalFits, Closed
<1>7. AskersListen' /\ FlowFits'
  BY <1>1 DEF StoreInv, AskersListen, FlowPrepares, FlowFits, PreparesNext, Closed
<1>8. Known'
  BY <1>1, <1>2, <1>4 DEF Known, Writers
<1> QED BY <1>5, <1>6, <1>7, <1>8 DEF StoreInv

\* The phases of a transfer, in their order.
LEMMA Follows ==
    ASSUME NEW p \in Phases, p # "active"
    PROVE  /\ Following[p] \in Phases \ {"preparing"}
           /\ p \notin {"preparing", "prepared", "imported"} =>
                 Following[p] \in {"committed", "active"}
           /\ p = "imported" => Following[p] = "activated"
BY DEF Following, Phases

\* A command of the dialog that is executed, whether its reply comes or not.
LEMMA Executes ==
    ASSUME StoreInv, flow.at = "exchange", FwExecute(flow.job)
    PROVE  /\ flow.obj \in Objects /\ flow.job \in Journals /\ flow.job.phase # "active"
           /\ fw \notin {"home", "active"} /\ fw' = Following[flow.job.phase]
           /\ fw' \in Phases \ {"preparing"} /\ ~moved /\ unsaved = {}
           /\ flow.job.token = archives /\ flow.job.backup \in {None, archives}
           /\ archives' = archives
<1>1. /\ flow.obj \in Objects /\ flow.job \in Journals /\ flow.job.phase # "active"
      /\ JournalFits(flow.job) /\ flow.job # None
  BY Values DEF StoreInv, TypeOK, FlowFits, Flows, JournalsFit
<1>2. flow.job.phase \in Phases
  BY <1>1 DEF Journals
<1>3. /\ flow.job.phase # "preparing" /\ fw = flow.job.phase
      /\ flow.job.token = archives /\ fw' = Following[flow.job.phase]
      /\ archives' = archives
  BY DEF FwExecute
<1>4. unsaved = {} /\ fw \notin {"home", "active"} /\ ~moved
  BY <1>1, <1>2, <1>3 DEF StoreInv, FlowFits, Known, Phases
<1> QED BY <1>1, <1>2, <1>3, <1>4, Follows DEF JournalFits

\* A command with its reply.
LEMMA ExchangeKeeps == ASSUME StoreInv, Exchange PROVE StoreInv'
<1> DEFINE o == flow.obj
           j == [flow.job EXCEPT !.phase = Following[@]]
<1>1. /\ flow.at = "exchange" /\ FwExecute(flow.job) /\ SetPending(mem, o, j)
      /\ flow' = [flow EXCEPT !.at = IF j.phase = "active" THEN "finish" ELSE "exchange",
                              !.job = j]
      /\ UNCHANGED <<registered, dest, reloading, moved, recoveries, missed>>
  BY DEF Exchange, Goes, entries
<1>2. /\ o \in Objects /\ flow.job \in Journals /\ ~moved /\ unsaved = {}
      /\ fw \notin {"home", "active"} /\ fw' = Following[flow.job.phase]
      /\ fw' \in Phases \ {"preparing"}
      /\ flow.job.token = archives /\ flow.job.backup \in {None, archives}
      /\ archives' = archives
  BY <1>1, Executes
<1>3. /\ j \in Journals /\ j # None /\ j.phase = fw' /\ j.token = archives
      /\ j.backup = flow.job.backup
  BY <1>2, Values DEF Journals
<1> HIDE DEF j
<1>4. /\ mem' \in [Objects -> Stores] /\ disk' \in Stores /\ unsaved' = {}
      /\ disk'.journal = j /\ mem'[o].journal = j
      /\ \A g \in Objects \ {o} : mem'[g].journal = mem[g].journal
  BY <1>1, <1>2, <1>3, Written DEF StoreInv, TypeOK
<1>5. /\ flow'.at = IF j.phase = "active" THEN "finish" ELSE "exchange"
      /\ flow'.obj = o /\ flow'.job = j /\ flow' \in Flows
  BY <1>1, <1>2, <1>3 DEF StoreInv, TypeOK, Flows, Stages
<1>6. TypeOK'
  BY <1>1, <1>2, <1>4, <1>5 DEF StoreInv, TypeOK
<1>7. JournalsFit'
  BY <1>1, <1>2, <1>3, <1>4, <1>5, StillFits DEF StoreInv, JournalsFit, JournalFits
<1>8. AskersListen'
  BY <1>1, <1>3, <1>4, <1>5 DEF StoreInv, AskersListen, FlowPrepares
<1>9. FlowFits'
  BY <1>2, <1>3, <1>4, <1>5 DEF FlowFits, PreparesNext
<1>10. Known'
  <2>1. registered \in Objects \cup {None}
    BY DEF StoreInv, TypeOK
  <2> QED BY <1>1, <1>2, <1>3, <1>4, <2>1 DEF StoreInv, Known, Writers
<1> QED BY <1>6, <1>7, <1>8, <1>9, <1>10 DEF StoreInv

\* A command that is executed without a reply.
LEMMA ReplyLostKeeps == ASSUME StoreInv, ReplyLost PROVE StoreInv'
<1>1. /\ FwUndo \/ (flow.at = "exchange" /\ FwExecute(flow.job))
      /\ flow' = Closed
      /\ UNCHANGED <<mem, unsaved, disk, registered, dest, reloading, moved, recoveries,
                     missed>>
  BY DEF ReplyLost, store, entries
<1>2. /\ fw \notin {"home", "active"} /\ fw' \in {"home"} \cup (Phases \ {"preparing"})
      /\ ~moved /\ archives' = archives
      /\ fw' \in {"activated", "committed", "active"} => unsaved = {}
  BY <1>1, Executes DEF FwUndo, StoreInv, Known, Phases
<1>3. TypeOK'
  BY <1>1, <1>2, Values DEF StoreInv, TypeOK
<1>4. JournalsFit'
  BY <1>1, <1>2, StillFits DEF StoreInv, JournalsFit, JournalFits, Closed
<1>5. AskersListen' /\ FlowFits'
  BY <1>1 DEF StoreInv, AskersListen, FlowPrepares, FlowFits, PreparesNext, Closed
<1>6. Known'
  BY <1>1, <1>2 DEF StoreInv, Known, Writers
<1> QED BY <1>3, <1>4, <1>5, <1>6 DEF StoreInv

\* The steps of a rollback.
LEMMA UndoKeeps == ASSUME StoreInv, Undo PROVE StoreInv'
<1>0. /\ flow.obj \in Objects /\ ~moved /\ flow.job \in Journals \cup {None}
      /\ UNCHANGED <<archives, registered, dest, reloading, moved, recoveries, missed>>
  BY DEF Undo, FwUndo, entries, StoreInv, FlowFits, Known, TypeOK, Flows
<1>1. CASE flow.at = "abort"
  <2>1. /\ fw = "imported" /\ fw' = "prepared"
        /\ flow' = [flow EXCEPT !.at = "rollback", !.job = flow.job]
        /\ UNCHANGED <<mem, unsaved, disk>>
    BY <1>1 DEF Undo, FwUndo, Goes, store
  <2>2. /\ flow' \in Flows /\ flow'.at = "rollback" /\ flow'.obj = flow.obj
        /\ flow'.job = flow.job
    BY <2>1 DEF StoreInv, TypeOK, Flows, Stages
  <2>3. TypeOK'
    BY <1>0, <2>1, <2>2 DEF StoreInv, TypeOK, Phases
  <2>4. JournalsFit'
    BY <1>0, <2>1, <2>2, StillFits DEF StoreInv, JournalsFit, JournalFits
  <2>5. AskersListen' /\ FlowFits'
    BY <1>0, <1>1, <2>1, <2>2
       DEF StoreInv, AskersListen, FlowPrepares, FlowFits, PreparesNext
  <2>6. Known'
    BY <1>0, <2>1 DEF StoreInv, Known, Writers
  <2> QED BY <2>3, <2>4, <2>5, <2>6 DEF StoreInv
<1>2. CASE flow.at = "rollback"
  <2>1. fw = "prepared" /\ fw' = "home" /\ flow' = Closed /\ SetPending(mem, flow.obj, None)
    BY <1>2 DEF Undo, FwUndo
  <2>2. /\ mem' \in [Objects -> Stores] /\ disk' \in Stores /\ unsaved' \subseteq unsaved
        /\ disk'.journal = None /\ mem'[flow.obj].journal = None
        /\ \A g \in Objects \ {flow.obj} : mem'[g].journal = mem[g].journal
    BY <1>0, <2>1, Written DEF StoreInv, TypeOK
  <2>3. TypeOK'
    BY <1>0, <2>1, <2>2, Values DEF StoreInv, TypeOK
  <2>4. JournalsFit'
    BY <1>0, <2>1, <2>2, StillFits DEF StoreInv, JournalsFit, JournalFits, Closed
  <2>5. AskersListen' /\ FlowFits'
    BY <1>0, <2>1 DEF StoreInv, AskersListen, FlowPrepares, FlowFits, PreparesNext, Closed
  <2>6. Known'
    BY <1>0, <2>1 DEF Known
  <2> QED BY <2>3, <2>4, <2>5, <2>6 DEF StoreInv
<1> QED BY <1>1, <1>2 DEF Undo, FwUndo

\* The dialog fails, or has written the options.
LEMMA EndKeeps == ASSUME StoreInv, Fail \/ Finish PROVE StoreInv'
<1>1. /\ flow' = Closed
      /\ UNCHANGED <<fw, archives, mem, unsaved, disk, registered, dest, recoveries, missed>>
      /\ \/ UNCHANGED <<reloading, moved>>
         \/ /\ moved' = TRUE /\ fw = "active"
            /\ reloading' \subseteq {"source", "destination"}
  BY DEF Fail, Finish, firmware, store, entries, StoreInv, FlowFits, TypeOK
<1>2. TypeOK'
  BY <1>1, Values DEF StoreInv, TypeOK
<1>3. JournalsFit'
  BY <1>1 DEF StoreInv, JournalsFit, JournalFits, Closed
<1>4. AskersListen' /\ FlowFits'
  BY <1>1 DEF StoreInv, AskersListen, FlowPrepares, FlowFits, PreparesNext, Closed
<1>5. Known'
  BY <1>1 DEF StoreInv, Known, Writers
<1> QED BY <1>2, <1>3, <1>4, <1>5 DEF StoreInv

\* A resume or a rollback that has reconciled its journal.
LEMMA ReconcileKeeps == ASSUME StoreInv, Reconcile PROVE StoreInv'
<1> DEFINE o == flow.obj
           old == flow.job
           j == Amended(o, old)
<1>1. /\ flow.at = "wait" /\ Reconciled(old) # None
      /\ \/ /\ j.phase = "active" /\ Goes("finish", j) /\ UNCHANGED store
         \/ /\ j.phase # "active"
            /\ Goes("exchange", j) /\ SetPending(HeardBy(old), o, j)
         \/ /\ j.phase = "preparing"
            /\ flow' = Closed /\ SetPending(mem, o, None)
         \/ /\ j.phase \in {"prepared", "imported"}
            /\ \E at \in {"abort", "rollback"} : Goes(at, j)
            /\ Remember(archives) \/ UNCHANGED store
      /\ UNCHANGED <<fw, archives, registered, dest, reloading, moved, recoveries, missed>>
  BY DEF Reconcile, firmware, entries
<1>2. /\ o \in Objects /\ old \in Journals /\ JournalFits(old)
      /\ old.backup = None => o = registered /\ unsaved \subseteq {registered}
      /\ fw # "home" => unsaved \subseteq {o}
      /\ mem \in [Objects -> Stores] /\ archives \in Backups
      /\ registered \in Objects \cup {None}
  BY <1>1, Values
     DEF StoreInv, TypeOK, Flows, FlowFits, JournalsFit, AskersListen, FlowPrepares
<1>3. /\ j \in Journals /\ j # None
      /\ HeardBy(old) \in [Objects -> Stores]
      /\ \A g \in Objects : HeardBy(old)[g].journal = mem[g].journal
      /\ HeardBy(old) # mem => o = registered /\ old.backup = None
      /\ j.phase = IF fw = "home" THEN old.phase ELSE fw
      /\ fw = "home" => old.phase = "preparing" /\ j = old
      /\ JournalFits(j)
      /\ fw \notin {"home", "active"} => j.backup \in {None, archives}
      /\ j.backup = None => old.backup = None
  BY <1>1, <1>2, Values, Amends DEF StoreInv
<1> HIDE DEF j, o, old
<1>4. ASSUME NEW at \in Stages, Goes(at, j)
      PROVE  /\ flow'.at = at /\ flow'.job = j /\ flow'.obj = o /\ flow' \in Flows
  BY <1>2, <1>3, <1>4 DEF Goes, StoreInv, TypeOK, Flows, o
<1>5. fw \in {"home"} \cup (Phases \ {"preparing"})
  BY DEF StoreInv, TypeOK
<1>6. CASE j.phase = "active" /\ Goes("finish", j) /\ UNCHANGED store
  <2>1. /\ flow'.at = "finish" /\ flow'.job = j /\ flow'.obj = o /\ flow' \in Flows
        /\ fw = "active" /\ UNCHANGED <<mem, unsaved, disk>>
    BY <1>3, <1>4, <1>6 DEF Stages, store
  <2>2. TypeOK'
    BY <1>1, <2>1 DEF StoreInv, TypeOK
  <2>3. JournalsFit'
    BY <1>1, <1>3, <2>1 DEF StoreInv, JournalsFit, JournalFits
  <2>4. AskersListen' /\ FlowFits'
    BY <1>1, <1>2, <1>3, <2>1 DEF StoreInv, AskersListen, FlowPrepares, FlowFits, PreparesNext
  <2>5. Known'
    BY <1>1, <2>1 DEF StoreInv, Known, Writers
  <2> QED BY <2>2, <2>3, <2>4, <2>5 DEF StoreInv
<1>7. CASE /\ j.phase # "active" /\ Goes("exchange", j) /\ SetPending(HeardBy(old), o, j)
  <2>1. /\ flow'.at = "exchange" /\ flow'.job = j /\ flow'.obj = o /\ flow' \in Flows
    BY <1>4, <1>7 DEF Stages
  <2>2. /\ mem' \in [Objects -> Stores] /\ disk' \in Stores /\ unsaved' \subseteq Objects
        /\ disk'.journal = j /\ mem'[o].journal = j
        /\ \A g \in Objects \ {o} : mem'[g].journal = mem[g].journal
        /\ unsaved' \subseteq (unsaved \cup ({registered} \ {None})) \ {o}
        /\ HeardBy(old) = mem => unsaved' = unsaved \ {o}
    BY <1>2, <1>3, <1>7, Written DEF StoreInv
  <2>3. unsaved' \subseteq unsaved
    BY <1>2, <1>3, <2>2
  <2>4. TypeOK'
    BY <1>1, <2>1, <2>2 DEF StoreInv, TypeOK
  <2>5. JournalsFit'
    BY <1>1, <1>2, <1>3, <2>1, <2>2 DEF StoreInv, JournalsFit, JournalFits
  <2>6. AskersListen'
    BY <1>1, <1>2, <1>3, <2>1, <2>3 DEF StoreInv, AskersListen, FlowPrepares
  <2>7. FlowFits'
    <3>1. j.phase = "preparing" => fw = "home" /\ j.backup = None /\ o = registered
      BY <1>2, <1>3, <1>5, Values DEF JournalFits
    <3>2. j.phase # "preparing" => unsaved' = {} /\ fw = j.phase
      BY <1>2, <1>3, <2>2, <2>3
    <3> QED BY <1>1, <1>2, <1>3, <1>7, <2>1, <2>2, <3>1, <3>2 DEF FlowFits, PreparesNext
  <2>8. Known'
    BY <1>1, <1>2, <1>3, <2>2, <2>3 DEF StoreInv, Known, Writers
  <2> QED BY <2>4, <2>5, <2>6, <2>7, <2>8 DEF StoreInv
<1>8. CASE j.phase = "preparing" /\ flow' = Closed /\ SetPending(mem, o, None)
  <2>1. fw = "home"
    BY <1>3, <1>5, <1>8
  <2>2. /\ mem' \in [Objects -> Stores] /\ disk' \in Stores /\ unsaved' \subseteq unsaved
        /\ disk'.journal = None /\ mem'[o].journal = None
        /\ \A g \in Objects \ {o} : mem'[g].journal = mem[g].journal
    BY <1>2, <1>8, Written DEF StoreInv
  <2>3. TypeOK'
    BY <1>1, <1>8, <2>2, Values DEF StoreInv, TypeOK
  <2>4. JournalsFit'
    BY <1>1, <1>2, <1>8, <2>2 DEF StoreInv, JournalsFit, JournalFits, Closed
  <2>5. AskersListen' /\ FlowFits'
    BY <1>1, <1>8, <2>2 DEF StoreInv, AskersListen, FlowPrepares, FlowFits, PreparesNext, Closed
  <2>6. Known'
    BY <1>1, <2>1, <2>2 DEF StoreInv, Known
  <2> QED BY <2>3, <2>4, <2>5, <2>6 DEF StoreInv
<1>9. CASE /\ j.phase \in {"prepared", "imported"}
           /\ \E at \in {"abort", "rollback"} : Goes(at, j)
           /\ Remember(archives) \/ UNCHANGED store
  <2>1. /\ flow'.at \in {"abort", "rollback"} /\ flow'.job = j /\ flow'.obj = o
        /\ flow' \in Flows /\ fw \in {"prepared", "imported"}
    BY <1>3, <1>4, <1>9 DEF Stages
  <2>2. /\ mem' \in [Objects -> Stores] /\ unsaved' \subseteq Objects /\ disk' = disk
        /\ \A g \in Objects : mem'[g].journal = mem[g].journal
        /\ unsaved' \subseteq unsaved \cup ({registered} \ {None})
    BY <1>2, <1>9, Remembered DEF StoreInv, TypeOK, store
  <2>3. TypeOK'
    BY <1>1, <2>1, <2>2 DEF StoreInv, TypeOK
  <2>4. JournalsFit'
    BY <1>1, <1>2, <1>3, <2>1, <2>2 DEF StoreInv, JournalsFit, JournalFits
  <2>5. AskersListen' /\ FlowFits'
    BY <1>1, <1>2, <1>3, <2>1
       DEF StoreInv, AskersListen, FlowPrepares, FlowFits, PreparesNext
  <2>6. Known'
    BY <1>1, <1>2, <2>1, <2>2 DEF StoreInv, Known, Writers
  <2> QED BY <2>3, <2>4, <2>5, <2>6 DEF StoreInv
<1> QED BY <1>1, <1>6, <1>7, <1>8, <1>9

\* A recovery writes what it made of the journal it began with.
LEMMA RecoverKeeps == ASSUME StoreInv, NEW r \in recoveries, Recover(r) PROVE StoreInv'
<1> DEFINE o == r.obj
           j == Amended(o, r.job)
           new == IF j.phase = "active" /\ moved THEN None ELSE j
<1>1. /\ LockFree /\ Reconciled(r.job) # None /\ SetPending(HeardBy(r.job), o, new)
      /\ recoveries' = recoveries \ {r}
      /\ UNCHANGED <<fw, archives, registered, dest, reloading, moved, flow, missed>>
  BY DEF Recover, Amended, firmware, entries
<1>2. /\ o \in Objects /\ r.job \in Journals /\ JournalFits(r.job)
      /\ r.job.backup = None => o = registered
      /\ registered \in Objects \cup {None}
  BY DEF StoreInv, TypeOK, Tasks, JournalsFit, AskersListen
<1>3. /\ j \in Journals /\ j # None
      /\ HeardBy(r.job) \in [Objects -> Stores]
      /\ \A g \in Objects : HeardBy(r.job)[g].journal = mem[g].journal
      /\ HeardBy(r.job) # mem => o = registered /\ r.job.backup = None
      /\ j.phase = IF fw = "home" THEN r.job.phase ELSE fw
      /\ fw = "home" => r.job.phase = "preparing" /\ j = r.job
      /\ JournalFits(j)
      /\ fw \notin {"home", "active"} => j.backup \in {None, archives}
  BY <1>1, <1>2, Values, Amends DEF StoreInv
<1> HIDE DEF j, o
<1>4. /\ new \in Journals \cup {None} /\ JournalFits(new)
      /\ ~moved => new = j
      /\ fw = "home" => new = j
      /\ fw \notin {"home", "active"} => new = j
  BY <1>3 DEF JournalFits
<1> HIDE DEF new
<1>5. /\ mem' \in [Objects -> Stores] /\ disk' \in Stores /\ unsaved' \subseteq Objects
      /\ disk'.journal = new /\ mem'[o].journal = new
      /\ \A g \in Objects \ {o} : mem'[g].journal = mem[g].journal
      /\ unsaved' \subseteq (unsaved \cup ({registered} \ {None})) \ {o}
      /\ HeardBy(r.job) = mem => unsaved' = unsaved \ {o}
  BY <1>1, <1>2, <1>3, <1>4, Written DEF StoreInv
<1>6. unsaved' \subseteq unsaved
  BY <1>3, <1>5
<1>7. TypeOK'
  BY <1>1, <1>5 DEF StoreInv, TypeOK
<1>8. JournalsFit'
  BY <1>1, <1>2, <1>4, <1>5 DEF StoreInv, JournalsFit, JournalFits
<1>9. AskersListen'
  BY <1>1, <1>6 DEF StoreInv, AskersListen, FlowPrepares
<1>10. FlowFits'
  <2>1. CASE PreparesNext
    <3>1. /\ flow.obj = registered /\ registered \in Objects /\ fw = "home"
          /\ \A k \in {disk.journal, mem[registered].journal} : k # None /\ k.backup = None
      BY <2>1, PreparesFits
    <3>2. new # None /\ new.backup = None
      BY <1>2, <1>3, <1>4, <3>1, Values DEF JournalFits
    <3> QED BY <1>1, <1>5, <1>6, <3>1, <3>2 DEF StoreInv, FlowFits, PreparesNext
  <2>2. CASE ~PreparesNext
    BY <1>1, <1>6, <2>2 DEF StoreInv, FlowFits, PreparesNext
  <2> QED BY <2>1, <2>2
<1>11. Known'
  BY <1>1, <1>2, <1>3, <1>4, <1>5, <1>6 DEF StoreInv, Known, Writers
<1> QED BY <1>7, <1>8, <1>9, <1>10, <1>11 DEF StoreInv

\* Whoever prepares or asks for a backup is registered.
LEMMA AskersAreHere ==
    ASSUME StoreInv
    PROVE  /\ registered = None =>
                 ~FlowPrepares /\ \A r \in recoveries : r.job.backup # None
           /\ PreparesNext => FlowPrepares
BY PreparesFits, Values
   DEF StoreInv, AskersListen, TypeOK, Tasks, FlowPrepares, FlowFits, PreparesNext,
       JournalsFit, JournalFits, Flows

\* A recovery that ends without an answer, and the connections of the destination.
LEMMA OthersKeep ==
    ASSUME StoreInv,
           (\E r \in recoveries : RecoverFails(r)) \/ UnloadDestination \/ CalmUnload
    PROVE  StoreInv'
<1>1. /\ recoveries' \subseteq recoveries /\ missed' \in BOOLEAN /\ dest' \in BOOLEAN
      /\ reloading' \subseteq {"source", "destination"}
      /\ UNCHANGED <<fw, archives, mem, unsaved, disk, moved, flow>>
      /\ registered' = registered \/ (registered' = None /\ ~Preparing)
  BY DEF RecoverFails, UnloadDestination, CalmUnload, UnloadSource, firmware, store, entries,
         StoreInv, TypeOK
<1>2. TypeOK'
  BY <1>1 DEF StoreInv, TypeOK
<1>3. JournalsFit'
  BY <1>1 DEF StoreInv, JournalsFit, JournalFits
<1>4. ~Preparing => ~FlowPrepares /\ \A r \in recoveries : r.job.backup # None
  BY DEF Preparing, FlowPrepares
<1>5. AskersListen'
  BY <1>1, <1>4 DEF StoreInv, AskersListen, FlowPrepares
<1>6. FlowFits'
  BY <1>1, <1>4, AskersAreHere DEF StoreInv, FlowFits, PreparesNext
<1>7. Known'
  BY <1>1 DEF StoreInv, Known, Writers
<1> QED BY <1>2, <1>3, <1>5, <1>6, <1>7 DEF StoreInv

\* A recovery that a load starts is of the registered object.
LEMMA Recovering ==
    ASSUME NEW o, NEW m, NEW there, Recovers(o, m, there), missed \in BOOLEAN
    PROVE  /\ missed' \in BOOLEAN
           /\ \/ recoveries' = recoveries
              \/ /\ o # None /\ m[o].journal # None
                 /\ recoveries' = recoveries \cup {[obj |-> o, job |-> m[o].journal]}
BY DEF Recovers

\* The source is loaded into a new object.
LEMMA LoadSourceKeeps == ASSUME StoreInv, NEW o \in Objects, LoadSource(o) PROVE StoreInv'
<1>1. /\ registered = None /\ registered' = o /\ o \notin unsaved /\ o # flow.obj
      /\ mem' = [g \in Objects |-> IF g = o THEN disk ELSE
                                   IF Unused(g) THEN Blank ELSE mem[g]]
      /\ \A g \in unsaved : ~Unused(g)
      /\ Recovers(o, mem', dest)
      /\ UNCHANGED <<fw, archives, unsaved, disk, dest, reloading, moved, flow>>
  BY DEF LoadSource, Unused, firmware
<1>2. disk \in Stores /\ mem \in [Objects -> Stores] /\ unsaved \subseteq Objects
      /\ missed \in BOOLEAN
  BY DEF StoreInv, TypeOK
<1>3. /\ mem' \in [Objects -> Stores] /\ mem'[o] = disk
      /\ \A g \in unsaved : mem'[g] = mem[g]
      /\ \A g \in Objects : mem'[g].journal \in {None, disk.journal, mem[g].journal}
  BY <1>1, <1>2, Values
<1>4. /\ missed' \in BOOLEAN
      /\ \/ recoveries' = recoveries
         \/ /\ disk.journal \in Journals
            /\ recoveries' = recoveries \cup {[obj |-> o, job |-> disk.journal]}
  <2>1. disk.journal \in Journals \cup {None}
    BY <1>2 DEF Stores
  <2> QED BY <1>1, <1>2, <1>3, <2>1, Recovering
<1>5. TypeOK'
  BY <1>1, <1>2, <1>3, <1>4 DEF StoreInv, TypeOK, Tasks
<1>6. JournalsFit'
  BY <1>1, <1>3, <1>4 DEF StoreInv, JournalsFit, JournalFits
<1>7. ~FlowPrepares /\ ~PreparesNext /\ \A r \in recoveries : r.job.backup # None
  BY <1>1, AskersAreHere
<1>8. AskersListen'
  BY <1>1, <1>4, <1>7 DEF AskersListen, FlowPrepares
<1>9. FlowFits'
  BY <1>1, <1>7 DEF StoreInv, FlowFits, PreparesNext
<1>10. Known'
  BY <1>1, <1>3 DEF StoreInv, Known, Writers
<1> QED BY <1>5, <1>6, <1>8, <1>9, <1>10 DEF StoreInv

\* The destination is loaded.
LEMMA LoadDestinationKeeps == ASSUME StoreInv, LoadDestination PROVE StoreInv'
<1>1. /\ dest' = TRUE /\ Recovers(registered, mem, TRUE)
      /\ UNCHANGED <<fw, archives, mem, unsaved, disk, registered, reloading, moved, flow>>
  BY DEF LoadDestination, firmware, store
<1>2. mem \in [Objects -> Stores] /\ registered \in Objects \cup {None} /\ missed \in BOOLEAN
  BY DEF StoreInv, TypeOK
<1>3. /\ missed' \in BOOLEAN
      /\ \/ recoveries' = recoveries
         \/ /\ registered \in Objects /\ mem[registered].journal \in Journals
            /\ recoveries' = recoveries
                  \cup {[obj |-> registered, job |-> mem[registered].journal]}
  <2>1. registered # None => mem[registered].journal \in Journals \cup {None}
    BY <1>2 DEF Stores
  <2> QED BY <1>1, <1>2, <2>1, Recovering
<1>4. TypeOK'
  BY <1>1, <1>3 DEF StoreInv, TypeOK, Tasks
<1>5. JournalsFit'
  BY <1>1, <1>3 DEF StoreInv, JournalsFit, JournalFits
<1>6. AskersListen' /\ FlowFits'
  BY <1>1, <1>3 DEF StoreInv, AskersListen, FlowPrepares, FlowFits, PreparesNext
<1>7. Known'
  BY <1>1 DEF StoreInv, Known, Writers
<1> QED BY <1>4, <1>5, <1>6, <1>7 DEF StoreInv

\* A restart.
LEMMA CrashKeeps == ASSUME StoreInv, Crash PROVE StoreInv'
<1>1. /\ mem' = [o \in Objects |-> Blank] /\ unsaved' = {} /\ registered' = None
      /\ dest' = FALSE /\ reloading' = {} /\ flow' = Closed /\ recoveries' = {}
      /\ UNCHANGED <<fw, archives, disk, moved, missed>>
  BY DEF Crash, firmware
<1>2. TypeOK'
  BY <1>1, Values DEF StoreInv, TypeOK
<1>3. JournalsFit'
  BY <1>1, Values DEF StoreInv, JournalsFit, JournalFits, Closed
<1>4. AskersListen' /\ FlowFits'
  BY <1>1 DEF AskersListen, FlowPrepares, FlowFits, PreparesNext, Closed
<1>5. Known'
  BY <1>1 DEF StoreInv, Known, Writers
<1> QED BY <1>2, <1>3, <1>4, <1>5 DEF StoreInv

-----------------------------------------------------------------------------
(* The theorems *)

CalmNext == Progress \/ Interrupted \/ Background \/ User \/ CalmUnload

\* The invariant holds initially.
LEMMA StoreInit == Init => StoreInv
<1> SUFFICES ASSUME Init PROVE StoreInv
  OBVIOUS
<1>1. /\ fw = "home" /\ archives = 0 /\ mem = [o \in Objects |-> Blank]
      /\ registered = None /\ unsaved = {} /\ dest = FALSE /\ reloading = {}
      /\ moved = FALSE /\ flow = Closed /\ recoveries = {} /\ missed = FALSE
      /\ disk \in {Blank, [Blank EXCEPT !.backup = 0]}
  BY DEF Init
<1>2. 0 \in Backups
  BY BoundsAreUseful DEF Backups
<1>3. disk \in Stores /\ disk.journal = None
  BY <1>1, <1>2 DEF Blank, Stores
<1>4. TypeOK
  BY <1>1, <1>2, <1>3, Values DEF TypeOK
<1>5. JournalsFit
  BY <1>1, <1>3, Values DEF JournalsFit, JournalFits, Closed
<1>6. AskersListen /\ FlowFits
  BY <1>1 DEF AskersListen, FlowPrepares, FlowFits, PreparesNext, Closed
<1>7. Known
  BY <1>1 DEF Known
<1> QED BY <1>4, <1>5, <1>6, <1>7 DEF StoreInv

\* Every step keeps it.
LEMMA StoreStep == StoreInv /\ [CalmNext]_vars => StoreInv'
<1> SUFFICES ASSUME StoreInv, [CalmNext]_vars PROVE StoreInv'
  OBVIOUS
<1>1. CASE UNCHANGED vars
  BY <1>1
     DEF vars, firmware, store, entries, StoreInv, TypeOK, JournalsFit, JournalFits,
         AskersListen, FlowPrepares, FlowFits, PreparesNext, Known, Writers
<1>2. CASE Progress
  BY <1>2, CheckpointKeeps, PrepareKeeps, ExchangeKeeps, ReconcileKeeps, UndoKeeps, EndKeeps
     DEF Progress
<1>3. CASE Interrupted
  BY <1>3, PrepareLostKeeps, ReplyLostKeeps, EndKeeps DEF Interrupted
<1>4. CASE Background
  BY <1>4, SaveKeeps, LoadSourceKeeps, RecoverKeeps, OthersKeep, LoadDestinationKeeps,
     BackupKeeps, CrashKeeps
     DEF Background
<1>5. CASE User \/ CalmUnload
  BY <1>5, SubmitKeeps, OthersKeep
<1> QED BY <1>1, <1>2, <1>3, <1>4, <1>5 DEF CalmNext

\* The invariant holds in every reachable state.
LEMMA StoreInvariance == CalmSpec => []StoreInv
BY StoreInit, StoreStep, PTL DEF CalmSpec, CalmNext

\* Every variable has its type, whatever object writes the journal and whichever
\* phase a command or a recovery leads to (_async_reconcile_transfer never makes a
\* journal without a phase, nor asks for a command of a transfer that is over).
THEOREM StoreTyped == CalmSpec => []TypeOK
<1>1. StoreInv => TypeOK
  BY DEF StoreInv
<1> QED BY <1>1, StoreInvariance, PTL

\* From the archive to the new options the journal is on disk and known to the
\* runtime that offers Resume, for any number of runtime objects, reloads, late
\* saves (_async_save, Store.async_delay_save) and recoveries.
THEOREM JournalSurvives == CalmSpec => []UnderWayIsKnown
<1>1. StoreInv => UnderWayIsKnown
  BY DEF StoreInv, Known, Writers, UnderWayIsKnown
<1> QED BY <1>1, StoreInvariance, PTL

\* No journal keeps the backup of an earlier archive, which the firmware would not
\* import, for any number of archives of the shutter, and of objects that have
\* cached one (async_remember_backup).
THEOREM BackupIsPresent == CalmSpec => []BackupFits
<1>1. StoreInv => BackupFits
  BY DEF StoreInv, Known, Writers, BackupFits
<1> QED BY <1>1, StoreInvariance, PTL

\* Once the options are written the transfer is over in the firmware, no save is
\* outstanding, and a recovery clears the journal.
LEMMA ClearedStays ==
    ASSUME StoreInv, CalmNext, moved, disk.journal = None
    PROVE  disk'.journal = None
<1>1. fw = "active" /\ unsaved = {} /\ mem \in [Objects -> Stores]
  BY DEF StoreInv, Known, TypeOK
<1>2. CASE Progress
  <2>1. ~Checkpoint /\ ~Prepare /\ ~Undo
    BY <1>1 DEF Checkpoint, Prepare, FwPrepare, Undo, FwUndo, StoreInv, FlowFits
  <2>2. ~Exchange
    BY <1>1, Executes DEF Exchange
  <2>3. ASSUME Reconcile PROVE UNCHANGED disk
    <3>1. flow.obj \in Objects /\ flow.job \in Journals /\ JournalFits(flow.job)
      BY <2>3, Values DEF Reconcile, StoreInv, TypeOK, Flows, FlowFits, JournalsFit
    <3>2. Amended(flow.obj, flow.job).phase = "active"
      BY <1>1, <2>3, <3>1, Values DEF Reconcile, Amended, Reconciled, FwToken
    <3> QED BY <2>3, <3>2 DEF Reconcile, store
  <2> QED BY <1>2, <2>1, <2>2, <2>3 DEF Progress, Finish, store
<1>3. CASE Interrupted
  BY <1>3 DEF Interrupted, PrepareLost, ReplyLost, Fail, Remember, store
<1>4. CASE Background
  <2>1. ASSUME NEW r \in recoveries, Recover(r) PROVE disk'.journal = None
    <3>1. Amended(r.obj, r.job).phase = "active"
      BY <1>1, <2>1, Values DEF Recover, Amended, Reconciled, FwToken
    <3>2. r.job \in Journals /\ r.obj \in Objects
      BY DEF StoreInv, TypeOK, Tasks
    <3>3. SetPending(HeardBy(r.job), r.obj, None)
      BY <2>1, <3>1 DEF Recover
    <3>4. HeardBy(r.job) = mem
      BY <1>1, <2>1, <3>1 DEF HeardBy, Asks, Amended
    <3> QED BY <1>1, <3>2, <3>3, <3>4, Written DEF StoreInv
  <2>2. \A o \in Objects : ~Save(o)
    BY <1>1 DEF Save
  <2> QED BY <1>1, <1>4, <2>1, <2>2
          DEF Background, RecoverFails, LoadSource, LoadDestination, UnloadDestination,
              BackupUpdated, Crash, store
<1>5. CASE User \/ CalmUnload
  BY <1>5 DEF User, SubmitStart, SubmitResume, Submits, CalmUnload, UnloadSource, store
<1> QED BY <1>2, <1>3, <1>4, <1>5 DEF CalmNext

\* A journal that is done with does not come back: neither with a late save nor with
\* a task that holds a runtime which a reload has replaced.
THEOREM ClearedForGood == CalmSpec => StaysCleared
<1>1. StoreInv /\ [CalmNext]_vars =>
         [moved /\ disk.journal = None => disk'.journal = None]_vars
  BY ClearedStays
<1> QED BY <1>1, StoreInvariance, PTL DEF CalmSpec, CalmNext, StaysCleared

=============================================================================
