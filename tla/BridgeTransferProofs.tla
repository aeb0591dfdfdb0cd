----------------------- MODULE BridgeTransferProofs -----------------------
(***************************************************************************)
(* Proofs about the transfer, for any bridges, slots, shutters, tokens and *)
(* number of concurrent flows.  Of Spec: IdentityHeld and the types (IInv  *)
(* is inductive), and that nobody waits in a circle for the two locks.  Of *)
(* OrderlySpec, whose user starts no two moves that touch: SingleOwner,    *)
(* that the transfer implements Ownership.  Of SoloSpec, whose user opens  *)
(* no two flows of one move while recoveries race freely: what journals    *)
(* and options tell (MetaInv).                                             *)
(***************************************************************************)
EXTENDS BridgeTransferInv, TLAPS

Step(t) == Progress(t) \/ Interrupted(t) \/ Recover(t) \/ Start(t)

-----------------------------------------------------------------------------
(* Types *)

LEMMA AmendType ==
    ASSUME NEW j \in Transfer, NEW phase \in Phases, NEW token \in Tokens \cup {None},
           NEW backup \in Shutters \cup {None}
    PROVE  /\ Amend(j, phase, token, backup) \in Transfer
           /\ Amend(j, phase, token, backup).id = j.id
           /\ Amend(j, phase, token, backup).src = j.src
           /\ Amend(j, phase, token, backup).dst = j.dst
           /\ Amend(j, phase, token, backup).phase = phase
           /\ Amend(j, phase, token, backup).token = token
           /\ Amend(j, phase, token, backup).backup = backup
  BY DEF Amend, Transfer

LEMMA ExecuteType ==
    ASSUME TypeOK, NEW j \in Transfer, NEW next \in Phases, Execute(j, next)
    PROVE  fw' \in [Places -> SlotStates]
  BY DEF Execute, FwPrepare, FwImport, FwActivate, FwCommit, FwFinalize, TypeOK,
         SlotStates, Transfer, FreshTokens, Empty, Active, Archived, Imported,
         Activated

LEMMA ExchangeType ==
    ASSUME TypeOK, LocalsHeld, NEW t \in Tasks, Exchange(t)
    PROVE  TypeOK' /\ LocalsHeld'
<1>1. PICK next \in Phases :
         /\ Execute(job[t], next)
         /\ Learn(t, Replied(job[t], next))
         /\ SetPendingTransfer(Replied(job[t], next))
         /\ AfterReply(t, Replied(job[t], next))
  BY DEF Exchange
<1>2. job[t] \in Transfer
  BY DEF Exchange, LocalsHeld, At
<1>3. fw' \in [Places -> SlotStates]
  BY <1>1, <1>2, ExecuteType
<1> DEFINE j == Replied(job[t], next)
<1>4. j \in Transfer
  BY <1>2, <1>3, AmendType, ZenonT(30) DEF Replied, Transfer, TypeOK, SlotStates
<1>5. /\ job' = [job EXCEPT ![t] = j]
      /\ journal' = [journal EXCEPT ![BridgeOf(j.src)] = j]
      /\ \E stage \in {"prepared", "finish", "checkpoint"} :
            pc' = [pc EXCEPT ![t] = stage]
  BY <1>1 DEF Learn, SetPendingTransfer, AfterReply, GoTo
<1> HIDE DEF j
<1> QED BY <1>3, <1>4, <1>5 DEF Exchange, TypeOK, LocalsHeld, Stages

LEMMA ReconciledPhaseType ==
    ASSUME NEW j \in Transfer, NEW s \in SlotStates, NEW d \in SlotStates
    PROVE  ReconciledPhase(j, s, d) \in Phases \cup {None}
 BY DEF ReconciledPhase, Phases, Gone, Transfer

LEMMA ReconciledType ==
    ASSUME NEW j \in Transfer, NEW s \in SlotStates, NEW d \in SlotStates,
           Acceptable(j, s, d)
    PROVE  Reconciled(j, s, d) \in Transfer
<1>1. ReconciledPhase(j, s, d) # None
  BY DEF Acceptable
<1>2. ReconciledPhase(j, s, d) \in Phases
  BY <1>1, ReconciledPhaseType
<1>3. ASSUME KnownTokens(j, s, d) # {}
      PROVE  (CHOOSE k \in KnownTokens(j, s, d) : TRUE) \in Tokens \cup {None}
  BY <1>3 DEF KnownTokens, Transfer, SlotStates
<1> QED BY <1>2, <1>3, AmendType DEF Reconciled, Transfer

LEMMA FinishedType ==
    ASSUME TypeOK, LocalsHeld, NEW t \in Tasks, Finished(t),
           fw' \in [Places -> SlotStates], meta' \subseteq Rows,
           journal' \in [Bridges -> Transfer \cup {None}]
    PROVE  TypeOK' /\ LocalsHeld'
  BY DEF Finished, TypeOK, LocalsHeld, Stages, Operations

\* What a task does with the reconciled transfer: it ends, or it awaits the
\* next command's reply.
Settles(t, j) ==
    \/ /\ Finished(t)
       /\ \/ UNCHANGED meta
             /\ \E v \in {j, None} : journal' = [journal EXCEPT ![BridgeOf(j.src)] = v]
          \/ UNCHANGED journal /\ Finish(t, j)
    \/ Await(t, j, "exchange") /\ op[t] = "resume" /\ SetPendingTransfer(j)
    \/ /\ \E stage \in {"rollback", "abort"} : Await(t, j, stage)
       /\ op[t] = "rollback"
       /\ UNCHANGED journal

LEMMA ReconcileOutcome ==
    ASSUME NEW t, NEW j, AfterReconcile(t, j)
    PROVE  Settles(t, j)
<1>1. CASE op[t] = "resume" /\ Resume(t, j)
  BY <1>1 DEF Resume, Finish, Settles
<1>2. CASE op[t] = "reconcile" /\ Publish(t, j)
  BY <1>2 DEF Publish, SetPendingTransfer, Settles
<1>3. CASE op[t] = "rollback" /\ RollBack(t, j)
  BY <1>3 DEF RollBack, Clear, Settles
<1> QED BY <1>1, <1>2, <1>3 DEF AfterReconcile

LEMMA QueryOutcome ==
    ASSUME NEW t, QueryDestination(t)
    PROVE  LET j == Reconciled(job[t], seen[t], fw[job[t].dst])
           IN  /\ pc[t] = "query_destination"
               /\ UNCHANGED fw
               /\ Acceptable(job[t], seen[t], fw[job[t].dst])
               /\ \/ /\ j.phase \in {"prepared", "imported"}
                     /\ Await(t, j, "reprepare")
                     /\ UNCHANGED journal
                  \/ Settles(t, j)
  BY ReconcileOutcome DEF QueryDestination, At

LEMMA SettlesType ==
    ASSUME TypeOK, LocalsHeld, NEW t \in Tasks, fw' \in [Places -> SlotStates],
           NEW j \in Transfer, Settles(t, j)
    PROVE  TypeOK' /\ LocalsHeld'
<1>1. CASE /\ Finished(t) /\ UNCHANGED meta
           /\ \E v \in {j, None} : journal' = [journal EXCEPT ![BridgeOf(j.src)] = v]
  <2>1. journal' \in [Bridges -> Transfer \cup {None}]
    BY <1>1 DEF TypeOK
  <2>2. meta' \subseteq Rows /\ Finished(t)
    BY <1>1 DEF TypeOK
  <2> QED BY <2>1, <2>2, FinishedType
<1>2. CASE UNCHANGED journal /\ Finish(t, j)
  <2>1. [id |-> j.id, at |-> j.dst] \in Rows
    BY DEF Transfer, Rows
  <2> QED BY <1>2, <2>1, FinishedType DEF Finish, RowsOf, TypeOK
<1>3. CASE Await(t, j, "exchange") /\ SetPendingTransfer(j)
  BY <1>3 DEF Await, Learn, GoTo, SetPendingTransfer, TypeOK, LocalsHeld, Stages
<1>4. CASE /\ \E stage \in {"rollback", "abort"} : Await(t, j, stage)
           /\ UNCHANGED journal
  BY <1>4 DEF Await, Learn, GoTo, TypeOK, LocalsHeld, Stages
<1> QED BY <1>1, <1>2, <1>3, <1>4 DEF Settles

LEMMA QueryType ==
    ASSUME TypeOK, LocalsHeld, NEW t \in Tasks, QueryDestination(t)
    PROVE  TypeOK' /\ LocalsHeld'
<1> DEFINE j == Reconciled(job[t], seen[t], fw[job[t].dst])
<1>1. job[t] \in Transfer /\ seen[t] \in SlotStates /\ fw[job[t].dst] \in SlotStates
  BY DEF QueryDestination, LocalsHeld, At, TypeOK, Transfer
<1>2. j \in Transfer
  BY <1>1, QueryOutcome, ReconciledType
<1>3. /\ fw' \in [Places -> SlotStates]
      /\ (Await(t, j, "reprepare") /\ UNCHANGED journal) \/ Settles(t, j)
  BY QueryOutcome DEF TypeOK
<1> HIDE DEF j
<1>4. CASE Await(t, j, "reprepare") /\ UNCHANGED journal
  BY <1>2, <1>3, <1>4 DEF Await, Learn, GoTo, TypeOK, LocalsHeld, Stages
<1> QED BY <1>2, <1>3, <1>4, SettlesType

LEMMA CommandType ==
    ASSUME TypeOK, NEW j \in Transfer,
           \/ FwPrepare(j.src)
           \/ FwAbort(j.dst, j.token)
           \/ FwRollback(j.src, j.token)
    PROVE  fw' \in [Places -> SlotStates]
  BY DEF FwPrepare, FwAbort, FwRollback, TypeOK, SlotStates, Transfer,
         FreshTokens, Empty, Active, Archived

LEMMA ReprepareType ==
    ASSUME TypeOK, LocalsHeld, NEW t \in Tasks, Reprepare(t)
    PROVE  TypeOK' /\ LocalsHeld'
<1>1. PICK backup \in {None, fw'[job[t].src].id} :
          AfterReconcile(t, Amend(job[t], job[t].phase, fw'[job[t].src].token, backup))
  BY DEF Reprepare
<1> DEFINE j == Amend(job[t], job[t].phase, fw'[job[t].src].token, backup)
<1>2. job[t] \in Transfer
  BY DEF Reprepare, LocalsHeld, At
<1>3. fw' \in [Places -> SlotStates]
  BY <1>2, CommandType DEF Reprepare
<1>4. fw'[job[t].src] \in SlotStates
  BY <1>2, <1>3 DEF Transfer
<1>5. /\ fw'[job[t].src].token \in Tokens \cup {None}
      /\ fw'[job[t].src].id \in Shutters \cup {None}
  BY <1>4 DEF SlotStates
<1>6. job[t].phase \in Phases
  BY <1>2 DEF Transfer
<1>7. j \in Transfer
  BY <1>2, <1>5, <1>6, AmendType
<1> QED BY <1>1, <1>3, <1>7, ReconcileOutcome, SettlesType

LEMMA SubmitStartType ==
    ASSUME TypeOK, LocalsHeld, NEW t \in Tasks, Start(t)
    PROVE  TypeOK' /\ LocalsHeld'
<1>1. PICK row \in meta, dst \in Places : SubmitStart(t, row, dst)
  BY DEF Start
<1>2. row.id \in Shutters /\ row.at \in Places
  BY DEF TypeOK, Rows
<1> DEFINE j == [id |-> row.id, src |-> row.at, dst |-> dst,
                 phase |-> "preparing", token |-> None, backup |-> None]
<1>3. j \in Transfer
  BY <1>2 DEF Transfer, Phases
<1>4. job' = [job EXCEPT ![t] = j]
  BY <1>1 DEF SubmitStart
<1> HIDE DEF j
<1> QED
  BY <1>1, <1>3, <1>4
  DEF SubmitStart, TypeOK, LocalsHeld, GoTo, Stages, Operations

LEMMA TypeStep ==
    ASSUME TypeOK, LocalsHeld, NEW t \in Tasks, Step(t)
    PROVE  TypeOK' /\ LocalsHeld'
<1>1. CASE Fail(t)
  BY <1>1, FinishedType DEF Fail, TypeOK
<1>2. CASE Start(t)
  BY <1>2, SubmitStartType
<1>3. CASE AcquireStart(t)
  BY <1>3 DEF AcquireStart, TypeOK, LocalsHeld, At, GoTo, Stages
<1>4. CASE RejectStart(t)
  BY <1>4, FinishedType DEF RejectStart, TypeOK
<1>5. CASE EnsureDestinationEmpty(t)
  BY <1>5 DEF EnsureDestinationEmpty, TypeOK, LocalsHeld, At, GoTo, Stages
<1>6. CASE StopMotor(t)
  BY <1>6 DEF StopMotor, TypeOK, LocalsHeld, At, GoTo, Stages
<1>7. CASE Checkpoint(t)
  BY <1>7 DEF Checkpoint, SetPendingTransfer, TypeOK, LocalsHeld, At, GoTo, Stages
<1>8. CASE Exchange(t)
  BY <1>8, ExchangeType
<1>9. CASE ExchangeLost(t)
  <2>1. PICK next \in Phases : Execute(job[t], next)
    BY <1>9 DEF ExchangeLost
  <2>2. job[t] \in Transfer
    BY <1>9 DEF ExchangeLost, LocalsHeld, At
  <2>3. fw' \in [Places -> SlotStates]
    BY <2>1, <2>2, ExecuteType
  <2> QED BY <1>9, <2>3, FinishedType DEF ExchangeLost, TypeOK
<1>11. CASE Recover(t)
  BY <1>11 DEF Recover, Submit, EnterTransferLock, TypeOK, LocalsHeld, At, GoTo,
               Stages, Operations
<1>12. CASE ResumeStart(t)
  BY <1>12 DEF ResumeStart, EnterTransferLock, TypeOK, LocalsHeld, At, GoTo,
               Stages, Operations
<1>13. CASE AcquireTransfer(t)
  BY <1>13 DEF AcquireTransfer, TypeOK, LocalsHeld, At, GoTo, Stages
<1>14. CASE QuerySource(t)
  BY <1>14 DEF QuerySource, TypeOK, LocalsHeld, At, GoTo, Stages, Transfer
<1>15. CASE QueryDestination(t)
  BY <1>15, QueryType
<1>16. CASE Reprepare(t)
  BY <1>16, ReprepareType
<1>17. CASE ReprepareLost(t)
  <2>1. job[t] \in Transfer
    BY <1>17 DEF ReprepareLost, LocalsHeld, At
  <2>2. fw' \in [Places -> SlotStates]
    BY <1>17, <2>1, CommandType DEF ReprepareLost
  <2> QED BY <1>17, <2>2, FinishedType DEF ReprepareLost, TypeOK
<1>18. CASE Abort(t) \/ Rollback(t) \/ AbortLost(t) \/ RollbackLost(t)
  <2>1. job[t] \in Transfer
    BY <1>18 DEF Abort, Rollback, AbortLost, RollbackLost, LocalsHeld, At
  <2>2. fw' \in [Places -> SlotStates]
    BY <1>18, <2>1, CommandType DEF Abort, Rollback, AbortLost, RollbackLost
  <2>3. CASE Abort(t)
    BY <2>2, <2>3 DEF Abort, TypeOK, LocalsHeld, At, GoTo, Stages
  <2>4. CASE Rollback(t)
    BY <2>2, <2>4, FinishedType DEF Rollback, Clear, TypeOK
  <2>5. CASE AbortLost(t) \/ RollbackLost(t)
    BY <2>2, <2>5, FinishedType DEF AbortLost, RollbackLost, TypeOK
  <2> QED BY <1>18, <2>3, <2>4, <2>5
<1>19. CASE Complete(t)
  <2>1. job[t] \in Transfer
    BY <1>19 DEF Complete, LocalsHeld, At
  <2>2. [id |-> job[t].id, at |-> job[t].dst] \in Rows
    BY <2>1 DEF Transfer, Rows
  <2> QED BY <1>19, <2>2, FinishedType DEF Complete, Finish, RowsOf, TypeOK
<1> QED
  BY <1>1, <1>2, <1>3, <1>4, <1>5, <1>6, <1>7, <1>8, <1>9, <1>11, <1>12,
     <1>13, <1>14, <1>15, <1>16, <1>17, <1>18, <1>19
  DEF Step, Progress, Interrupted

-----------------------------------------------------------------------------
(* Control: who holds _transfer_lock, and what a start may do without it *)

Control == LockHeld /\ StartPrepares /\ OperationFits

LEMMA FinishedControl ==
    ASSUME TypeOK, Control, NEW t \in Tasks, Finished(t)
    PROVE  Control'
  BY NoneIsNoValue
  DEF Finished, Control, LockHeld, StartPrepares, OperationFits, TypeOK, Locked,
      Stepping

LEMMA SettlesControl ==
    ASSUME TypeOK, Control, NEW t \in Tasks, pc[t] \in Locked, NEW j, Settles(t, j)
    PROVE  Control'
<1>1. CASE Finished(t)
  BY <1>1, FinishedControl
<1>2. CASE \/ Await(t, j, "exchange") /\ op[t] = "resume"
           \/ /\ \E stage \in {"rollback", "abort"} : Await(t, j, stage)
              /\ op[t] = "rollback"
  BY <1>2
  DEF Await, Learn, GoTo, Control, LockHeld, StartPrepares, OperationFits,
      TypeOK, Locked, Stepping
<1> QED BY <1>1, <1>2 DEF Settles

LEMMA ControlStep ==
    ASSUME TypeOK, LocalsHeld, Control, NEW t \in Tasks, Step(t)
    PROVE  Control'
<1>1. CASE Fail(t) \/ RejectStart(t) \/ ExchangeLost(t) \/ ReprepareLost(t)
           \/ AbortLost(t) \/ RollbackLost(t) \/ Rollback(t) \/ Complete(t)
  BY <1>1, FinishedControl
  DEF Fail, RejectStart, ExchangeLost, ReprepareLost, AbortLost, RollbackLost,
      Rollback, Clear, Complete, Finish
<1>2. CASE Start(t)
  <2>1. PICK row \in meta, dst \in Places : SubmitStart(t, row, dst)
    BY <1>2 DEF Start
  <2>2. /\ UNCHANGED transferLock
        /\ op' = [op EXCEPT ![t] = "start"]
        /\ \E stage \in {"acquire_start", "ensure_empty"} :
              pc' = [pc EXCEPT ![t] = stage]
        /\ \A u \in Tasks \ {t} : job'[u] = job[u]
        /\ job'[t].phase = "preparing"
    BY <2>1 DEF SubmitStart, GoTo, TypeOK
  <2>3. LockHeld'
    BY <2>2 DEF Control, LockHeld, TypeOK, Locked, Stepping
  <2>4. StartPrepares'
    BY <2>2 DEF Control, StartPrepares, TypeOK
  <2>5. OperationFits'
    BY <2>2 DEF Control, OperationFits, TypeOK
  <2> QED BY <2>3, <2>4, <2>5 DEF Control
<1>3. CASE AcquireStart(t)
  BY <1>3 DEF AcquireStart, At, GoTo, Control, LockHeld, StartPrepares,
              OperationFits, TypeOK, Locked, Stepping
<1>4. CASE EnsureDestinationEmpty(t)
  BY <1>4 DEF EnsureDestinationEmpty, At, GoTo, Control, LockHeld, StartPrepares,
              OperationFits, TypeOK, Locked, Stepping
<1>5. CASE StopMotor(t)
  BY <1>5 DEF StopMotor, At, GoTo, Control, LockHeld, StartPrepares,
              OperationFits, TypeOK, Locked, Stepping
<1>6. CASE Checkpoint(t)
  BY <1>6 DEF Checkpoint, At, GoTo, Control, LockHeld, StartPrepares,
              OperationFits, TypeOK, Locked, Stepping
<1>7. CASE Exchange(t)
  <2>1. PICK next \in Phases :
           /\ Execute(job[t], next)
           /\ job' = [job EXCEPT ![t] = Replied(job[t], next)]
           /\ AfterReply(t, Replied(job[t], next))
    BY <1>7 DEF Exchange, Learn
  <2>2. Replied(job[t], next).phase = next
    BY DEF Replied, Amend
  <2>3. job[t].phase = "preparing" => next = "prepared"
    BY <2>1 DEF Execute
  <2> QED
    BY <1>7, <2>1, <2>2, <2>3
    DEF Exchange, AfterReply, At, GoTo, Control, LockHeld, StartPrepares,
        OperationFits, TypeOK, Locked, Stepping
<1>9. CASE Recover(t)
  BY <1>9, NoneIsNoValue
  DEF Recover, Submit, EnterTransferLock, Free, At, GoTo, Control, LockHeld,
      StartPrepares, OperationFits, TypeOK, Locked, Stepping
<1>10. CASE ResumeStart(t)
  BY <1>10, NoneIsNoValue
  DEF ResumeStart, EnterTransferLock, Free, At, GoTo, Control, LockHeld,
      StartPrepares, OperationFits, TypeOK, Locked, Stepping
<1>11. CASE AcquireTransfer(t)
  BY <1>11, NoneIsNoValue
  DEF AcquireTransfer, At, GoTo, Control, LockHeld, StartPrepares,
      OperationFits, TypeOK, Locked, Stepping
<1>12. CASE QuerySource(t)
  BY <1>12 DEF QuerySource, At, GoTo, Control, LockHeld, StartPrepares,
               OperationFits, TypeOK, Locked, Stepping
<1>13. CASE QueryDestination(t)
  <2> DEFINE j == Reconciled(job[t], seen[t], fw[job[t].dst])
  <2>1. /\ pc[t] = "query_destination"
        /\ \/ j.phase \in {"prepared", "imported"} /\ Await(t, j, "reprepare")
           \/ Settles(t, j)
    BY <1>13, QueryOutcome
  <2> HIDE DEF j
  <2>2. CASE j.phase \in {"prepared", "imported"} /\ Await(t, j, "reprepare")
    BY <2>1, <2>2
    DEF Await, Learn, GoTo, Control, LockHeld, StartPrepares, OperationFits,
        TypeOK, Locked, Stepping
  <2> QED BY <2>1, <2>2, SettlesControl DEF Locked
<1>14. CASE Reprepare(t)
  <2>1. PICK backup \in {None, fw'[job[t].src].id} :
           AfterReconcile(t, Amend(job[t], job[t].phase, fw'[job[t].src].token, backup))
    BY <1>14 DEF Reprepare
  <2>2. pc[t] = "reprepare"
    BY <1>14 DEF Reprepare, At
  <2> QED BY <2>1, <2>2, ReconcileOutcome, SettlesControl DEF Locked
<1>15. CASE Abort(t)
  BY <1>15 DEF Abort, At, GoTo, Control, LockHeld, StartPrepares,
               OperationFits, TypeOK, Locked, Stepping
<1> QED
  BY <1>1, <1>2, <1>3, <1>4, <1>5, <1>6, <1>7, <1>9, <1>10, <1>11, <1>12,
     <1>13, <1>14, <1>15
  DEF Step, Progress, Interrupted

-----------------------------------------------------------------------------
(* Firmware: the only commands a step sends, and what they leave in a slot *)

Prepares(t) ==
    /\ \/ pc[t] = "exchange" /\ job[t].phase = "preparing"
       \/ pc[t] = "reprepare"
    /\ FwPrepare(job[t].src)

LockedCommand(t) ==
    \/ /\ pc[t] = "exchange" /\ job[t].phase # "preparing"
       /\ \E next \in Phases : Execute(job[t], next)
    \/ pc[t] = "abort" /\ FwAbort(job[t].dst, job[t].token)
    \/ pc[t] = "rollback" /\ FwRollback(job[t].src, job[t].token)

LEMMA FirmwareStep ==
    ASSUME NEW t \in Tasks, Step(t)
    PROVE  UNCHANGED fw \/ Prepares(t) \/ LockedCommand(t)
<1>1. CASE Exchange(t) \/ ExchangeLost(t)
  BY <1>1 DEF Exchange, ExchangeLost, At, Prepares, LockedCommand, Execute
<1>2. CASE Reprepare(t) \/ ReprepareLost(t)
  BY <1>2 DEF Reprepare, ReprepareLost, At, Prepares
<1>3. CASE Abort(t) \/ AbortLost(t)
  BY <1>3 DEF Abort, AbortLost, At, LockedCommand
<1>4. CASE Rollback(t) \/ RollbackLost(t)
  BY <1>4 DEF Rollback, RollbackLost, At, LockedCommand
<1>5. CASE \/ Fail(t) \/ RejectStart(t) \/ AcquireStart(t) \/ StopMotor(t)
           \/ EnsureDestinationEmpty(t) \/ Checkpoint(t) \/ ResumeStart(t)
           \/ AcquireTransfer(t) \/ QuerySource(t) \/ QueryDestination(t)
           \/ Complete(t)
  BY <1>5
  DEF Fail, RejectStart, AcquireStart, StopMotor, EnsureDestinationEmpty,
      Checkpoint, ResumeStart, AcquireTransfer, QuerySource,
      QueryDestination, Complete
<1>6. CASE Start(t) \/ Recover(t)
  BY <1>6 DEF Start, SubmitStart, Recover, Submit
<1> QED
  BY <1>1, <1>2, <1>3, <1>4, <1>5, <1>6 DEF Step, Progress, Interrupted

\* Every command but prepare is sent under _transfer_lock.
LEMMA CommandLocked ==
    ASSUME TypeOK, Control, NEW t \in Tasks, LockedCommand(t)
    PROVE  transferLock = t
  BY DEF LockedCommand, Control, LockHeld, StartPrepares, Locked, Stepping

LEMMA CommandsHaveJobs ==
    ASSUME LocalsHeld, NEW t \in Tasks, Prepares(t) \/ LockedCommand(t)
    PROVE  job[t] \in Transfer
  BY DEF LocalsHeld, Prepares, LockedCommand

\* The role and the phase of a slot determine its shape.
LEMMA RoleShape ==
    ASSUME SlotShape, NEW p \in Places
    PROVE  /\ fw[p].role = "source" =>
                 \E s \in Shutters, k \in Tokens : fw[p] = Archived(s, k)
           /\ fw[p].role = "destination" /\ fw[p].phase = "active" =>
                 \E s \in Shutters, k \in Tokens : fw[p] = Activated(s, k)
           /\ fw[p].role = "destination" /\ fw[p].phase = "archived" =>
                 \E s \in Shutters, k \in Tokens : fw[p] = Imported(s, k)
           /\ fw[p].role # "none" => fw[p].id \in Shutters
<1>0. CASE fw[p] = Empty
  <2>1. fw[p].role = "none"
    BY <1>0 DEF Empty
  <2> QED BY <2>1
<1>1. CASE \E s \in Shutters : fw[p] = Active(s)
  <2>1. fw[p].role = "none"
    BY <1>1 DEF Active
  <2> QED BY <2>1
<1>2. CASE \E s \in Shutters, k \in Tokens :
              fw[p] \in {Archived(s, k), Imported(s, k), Activated(s, k)}
  <2>1. PICK s \in Shutters, k \in Tokens :
           fw[p] = Archived(s, k) \/ fw[p] = Imported(s, k) \/ fw[p] = Activated(s, k)
    BY <1>2
  <2> QED BY <2>1 DEF Archived, Imported, Activated
<1> QED BY <1>0, <1>1, <1>2 DEF SlotShape

LEMMA PrepareShape ==
    ASSUME TypeOK, SlotShape, NEW p \in Places, FwPrepare(p)
    PROVE  /\ SlotShape'
           /\ \E s \in Shutters, k \in Tokens : fw'[p] = Archived(s, k)
<1>1. CASE fw[p].role = "source" /\ UNCHANGED fw
  <2>1. SlotShape'
    BY <1>1 DEF SlotShape
  <2> QED BY <1>1, <2>1, RoleShape
<1>2. CASE /\ fw[p].id # None
           /\ \E k \in FreshTokens : fw' = [fw EXCEPT ![p] = Archived(fw[p].id, k)]
  <2>1. PICK k \in FreshTokens : fw' = [fw EXCEPT ![p] = Archived(fw[p].id, k)]
    BY <1>2
  <2>2. fw[p].id \in Shutters /\ k \in Tokens
    BY <1>2 DEF TypeOK, SlotStates, FreshTokens
  <2>3. fw'[p] = Archived(fw[p].id, k) /\ \A q \in Places \ {p} : fw'[q] = fw[q]
    BY <2>1 DEF TypeOK
  <2> QED BY <2>2, <2>3 DEF SlotShape
<1> QED BY <1>1, <1>2 DEF FwPrepare

LEMMA LockedCommandShape ==
    ASSUME TypeOK, SlotShape, NEW t \in Tasks, job[t] \in Transfer,
           Backed(job[t]), LockedCommand(t)
    PROVE  SlotShape'
<1>1. PICK p \in Places, new \in SlotStates :
          /\ fw' = [fw EXCEPT ![p] = new]
          /\ \/ new = Empty
             \/ new = Active(fw[p].id) /\ fw[p].role # "none"
             \/ /\ new = Activated(fw[p].id, job[t].token)
                /\ fw[p] = Imported(fw[p].id, job[t].token)
             \/ new = Imported(job[t].backup, job[t].token) /\ job[t].backup # None
  BY DEF LockedCommand, Execute, FwImport, FwActivate, FwCommit, FwFinalize,
         FwAbort, FwRollback, Transfer, SlotStates, TypeOK, Empty, Active,
         Archived, Imported, Activated
<1>2. \A q \in Places \ {p} : fw'[q] = fw[q]
  BY <1>1 DEF TypeOK
<1>3. fw'[p] = new
  BY <1>1 DEF TypeOK
<1>4. \/ new = Empty
      \/ \E s \in Shutters :
            \/ new = Active(s)
            \/ \E k \in Tokens : new \in {Archived(s, k), Imported(s, k),
                                          Activated(s, k)}
  <2>1. CASE fw[p].role # "none" /\ new = Active(fw[p].id)
    BY <2>1, RoleShape
  <2>2. CASE /\ new = Activated(fw[p].id, job[t].token)
             /\ fw[p] = Imported(fw[p].id, job[t].token)
    <3>1. PICK s \in Shutters, k \in Tokens : fw[p] = Imported(s, k)
      BY <2>2, RoleShape DEF Imported
    <3> QED BY <2>2, <3>1 DEF Imported
  <2>3. CASE new = Imported(job[t].backup, job[t].token) /\ job[t].backup # None
    <3>1. job[t].backup \in Shutters /\ job[t].token \in Tokens
      BY <2>3, NoneIsNoValue DEF Backed, Transfer
    <3> QED BY <2>3, <3>1
  <2> QED BY <1>1, <2>1, <2>2, <2>3
<1> QED BY <1>2, <1>3, <1>4 DEF SlotShape

LEMMA ShapeStep ==
    ASSUME TypeOK, SlotShape, LocalsHeld, BackupsBacked, NEW t \in Tasks, Step(t)
    PROVE  SlotShape'
<1>1. CASE UNCHANGED fw
  BY <1>1 DEF SlotShape
<1>2. CASE Prepares(t)
  BY <1>2, CommandsHaveJobs, PrepareShape DEF Prepares, Transfer
<1>3. CASE LockedCommand(t)
  BY <1>3, CommandsHaveJobs, LockedCommandShape DEF BackupsBacked
<1> QED BY <1>1, <1>2, <1>3, FirmwareStep

-----------------------------------------------------------------------------
(* What a step learns: the transfer it holds afterwards *)

\* After the two queries the transfer has the destination's and the source's
\* token, and is activated only if the destination is.
LEMMA ReconciledFacts ==
    ASSUME NEW j \in Transfer, NEW s \in SlotStates, NEW d \in SlotStates,
           \A k, l \in KnownTokens(j, s, d) : k = l
    PROVE  /\ Reconciled(j, s, d).backup = j.backup
           /\ Reconciled(j, s, d).dst = j.dst
           /\ Reconciled(j, s, d).token \in {j.token, s.token, d.token}
           /\ j.token # None => Reconciled(j, s, d).token = j.token
           /\ d.token # None => Reconciled(j, s, d).token = d.token
           /\ Reconciled(j, s, d).phase = "activated" =>
                 d.role = "destination" /\ d.phase = "active"
<1> DEFINE tokens == KnownTokens(j, s, d)
<1>1. tokens # {} => (CHOOSE k \in tokens : TRUE) \in tokens
  <2> HIDE DEF tokens
  <2>1. ASSUME NEW S, S # {}
        PROVE  (CHOOSE k \in S : TRUE) \in S
    <3>1. PICK x : x \in S
      BY <2>1
    <3> QED BY <3>1, Zenon
  <2> QED BY <2>1
<1>2. /\ j.token # None => j.token \in tokens
      /\ d.token # None => d.token \in tokens
  BY DEF KnownTokens
<1>3. tokens \subseteq {j.token, s.token, d.token}
  BY DEF KnownTokens
<1>4. /\ Reconciled(j, s, d).backup = j.backup
      /\ Reconciled(j, s, d).dst = j.dst
      /\ Reconciled(j, s, d).phase = ReconciledPhase(j, s, d)
      /\ Reconciled(j, s, d).token =
            IF tokens = {} THEN j.token ELSE CHOOSE k \in tokens : TRUE
  BY DEF Reconciled, Amend
<1>5. ReconciledPhase(j, s, d) = "activated" =>
         d.role = "destination" /\ d.phase = "active"
  BY NoneIsNoValue DEF ReconciledPhase, Phases
<1> HIDE DEF tokens
<1>6. \A k, l \in tokens : k = l
  BY DEF tokens
<1> QED BY <1>1, <1>2, <1>3, <1>4, <1>5, <1>6

\* A transfer that some journal or some task holds.
Known(j) ==
    \/ \E b \in Bridges : journal[b] = j
    \/ \E t \in Tasks : job[t] = j

\* What a step of t makes of its own transfer: a start, the reply of an
\* exchange, of a repeated prepare, or a reconciliation.
Learned(t, j) ==
    \/ Start(t) /\ j = job'[t] /\ j.token = None /\ j.backup = None
    \/ \E next \in Phases :
          /\ pc[t] = "exchange"
          /\ Execute(job[t], next) /\ j = Replied(job[t], next)
    \/ \E backup \in {None, fw'[job[t].src].id} :
          /\ pc[t] = "reprepare" /\ FwPrepare(job[t].src)
          /\ j = Amend(job[t], job[t].phase, fw'[job[t].src].token, backup)
    \/ /\ pc[t] = "query_destination" /\ UNCHANGED fw
       /\ \A k, l \in KnownTokens(job[t], seen[t], fw[job[t].dst]) : k = l
       /\ j = Reconciled(job[t], seen[t], fw[job[t].dst])

LEMMA AwaitKnown ==
    ASSUME TypeOK, NEW t \in Tasks, NEW r, NEW stage, Await(t, r, stage),
           UNCHANGED journal \/ SetPendingTransfer(r), NEW j, Known(j)'
    PROVE  j \in {r, None} \/ Known(j)
  BY DEF Await, Learn, SetPendingTransfer, Known, TypeOK

LEMMA SettlesKnown ==
    ASSUME TypeOK, NEW t \in Tasks, NEW r, Settles(t, r), NEW j, Known(j)'
    PROVE  j \in {r, None} \/ Known(j)
<1>1. CASE /\ Finished(t)
           /\ \/ \E v \in {r, None} : journal' = [journal EXCEPT ![BridgeOf(r.src)] = v]
              \/ UNCHANGED journal
  BY <1>1 DEF Finished, Known, TypeOK
<1> QED BY <1>1, AwaitKnown DEF Settles

LEMMA KnownStep ==
    ASSUME TypeOK, LocalsHeld, NEW t \in Tasks, Step(t), NEW j, Known(j)'
    PROVE  j = None \/ Known(j) \/ Learned(t, j)
<1>1. CASE Fail(t) \/ RejectStart(t) \/ ExchangeLost(t) \/ ReprepareLost(t)
           \/ AbortLost(t) \/ RollbackLost(t) \/ Complete(t)
  <2>1. Finished(t) /\ UNCHANGED journal
    BY <1>1 DEF Fail, RejectStart, ExchangeLost, ReprepareLost, AbortLost,
                RollbackLost, Complete, Finish
  <2> QED BY <2>1 DEF Finished, Known, TypeOK
<1>2. CASE Rollback(t)
  BY <1>2 DEF Rollback, Clear, Finished, Known, TypeOK
<1>3. CASE Start(t)
  <2>1. PICK row \in meta, dst \in Places : SubmitStart(t, row, dst)
    BY <1>3 DEF Start
  <2>2. /\ UNCHANGED journal
        /\ job' = [job EXCEPT ![t] =
                     [id |-> row.id, src |-> row.at, dst |-> dst,
                      phase |-> "preparing", token |-> None, backup |-> None]]
    BY <2>1 DEF SubmitStart
  <2> QED BY <1>3, <2>2 DEF Known, Learned, TypeOK
<1>4. CASE \/ AcquireStart(t) \/ EnsureDestinationEmpty(t) \/ StopMotor(t)
           \/ ResumeStart(t) \/ AcquireTransfer(t) \/ QuerySource(t)
           \/ Abort(t)
  BY <1>4 DEF AcquireStart, EnsureDestinationEmpty, StopMotor, ResumeStart,
              AcquireTransfer, QuerySource, Abort, Known
<1>5. CASE Checkpoint(t)
  BY <1>5 DEF Checkpoint, SetPendingTransfer, Known, TypeOK
<1>6. CASE Recover(t)
  BY <1>6 DEF Recover, Submit, Known, TypeOK
<1>7. CASE Exchange(t)
  BY <1>7 DEF Exchange, Learn, SetPendingTransfer, At, Known, Learned, TypeOK
<1>8. CASE QueryDestination(t)
  <2> DEFINE r == Reconciled(job[t], seen[t], fw[job[t].dst])
  <2>1. j = r => Learned(t, j)
    BY <1>8, QueryOutcome DEF Acceptable, Learned
  <2>2. (Await(t, r, "reprepare") /\ UNCHANGED journal) \/ Settles(t, r)
    BY <1>8, QueryOutcome
  <2> HIDE DEF r
  <2>3. j \in {r, None} \/ Known(j)
    BY <2>2, SettlesKnown, AwaitKnown
  <2> QED BY <2>1, <2>3
<1>9. CASE Reprepare(t)
  <2>1. PICK backup \in {None, fw'[job[t].src].id} :
           AfterReconcile(t, Amend(job[t], job[t].phase, fw'[job[t].src].token, backup))
    BY <1>9 DEF Reprepare
  <2> DEFINE r == Amend(job[t], job[t].phase, fw'[job[t].src].token, backup)
  <2>2. j = r => Learned(t, j)
    BY <1>9 DEF Reprepare, At, Learned
  <2>3. Settles(t, r)
    BY <2>1, ReconcileOutcome
  <2> HIDE DEF r
  <2>4. j \in {r, None} \/ Known(j)
    BY <2>3, SettlesKnown
  <2> QED BY <2>2, <2>4
<1> QED
  BY <1>1, <1>2, <1>3, <1>4, <1>5, <1>6, <1>7, <1>8, <1>9
  DEF Step, Progress, Interrupted

-----------------------------------------------------------------------------
(* Backups come with their token *)

LEMMA BackedStep ==
    ASSUME TypeOK, SlotShape, LocalsHeld, BackupsBacked, NEW t \in Tasks, Step(t)
    PROVE  BackupsBacked'
<1> SUFFICES ASSUME NEW j, Known(j)' PROVE Backed(j)
  BY DEF BackupsBacked, Known
<1>1. CASE j = None
  BY <1>1 DEF Backed
<1>2. CASE Known(j)
  BY <1>2 DEF BackupsBacked, Known
<1>3. CASE j.token = None /\ j.backup = None
  BY <1>3 DEF Backed
<1>4. CASE \E next \in Phases :
              /\ pc[t] = "exchange"
              /\ Execute(job[t], next) /\ j = Replied(job[t], next)
  <2>1. job[t] \in Transfer /\ Backed(job[t])
    BY <1>4 DEF LocalsHeld, BackupsBacked
  <2>2. CASE job[t].phase = "preparing"
    <3>1. FwPrepare(job[t].src) /\ j.token = fw'[job[t].src].token
      BY <1>4, <2>2 DEF Execute, Replied, Amend
    <3>2. PICK s \in Shutters, k \in Tokens : fw'[job[t].src] = Archived(s, k)
      BY <2>1, <3>1, PrepareShape DEF Transfer
    <3> QED BY <3>1, <3>2, NoneIsNoValue DEF Archived, Backed
  <2>3. CASE job[t].phase # "preparing"
    BY <1>4, <2>1, <2>3, NoneIsNoValue DEF Replied, Amend, Backed
  <2> QED BY <2>2, <2>3
<1>5. CASE \E backup \in {None, fw'[job[t].src].id} :
              /\ pc[t] = "reprepare" /\ FwPrepare(job[t].src)
              /\ j = Amend(job[t], job[t].phase, fw'[job[t].src].token, backup)
  <2>1. job[t] \in Transfer
    BY <1>5 DEF LocalsHeld
  <2>2. PICK s \in Shutters, k \in Tokens : fw'[job[t].src] = Archived(s, k)
    BY <1>5, <2>1, PrepareShape DEF Transfer
  <2> QED BY <1>5, <2>2, NoneIsNoValue DEF Archived, Backed, Amend
<1>6. CASE /\ pc[t] = "query_destination" /\ UNCHANGED fw
           /\ \A k, l \in KnownTokens(job[t], seen[t], fw[job[t].dst]) : k = l
           /\ j = Reconciled(job[t], seen[t], fw[job[t].dst])
  <2>1. job[t] \in Transfer /\ Backed(job[t]) /\ seen[t] \in SlotStates
    BY <1>6 DEF LocalsHeld, BackupsBacked
  <2>2. fw[job[t].dst] \in SlotStates
    BY <2>1 DEF TypeOK, Transfer
  <2>3. j.backup = job[t].backup /\ (job[t].token # None => j.token = job[t].token)
    BY <1>6, <2>1, <2>2, ReconciledFacts
  <2> QED BY <2>1, <2>3, NoneIsNoValue DEF Backed
<1> QED BY <1>1, <1>2, <1>3, <1>4, <1>5, <1>6, KnownStep DEF Learned

-----------------------------------------------------------------------------
(* A token stands for one identity *)

LEMMA BoundByKnown ==
    ASSUME NEW k, NEW s
    PROVE  Bound(k, s) <=> \/ \E p \in Places : fw[p].token = k /\ fw[p].id = s
                           \/ \E j : Known(j) /\ Names(j, k, s)
  BY DEF Bound, Known

LEMMA FreshIsUnbound ==
    ASSUME NEW k \in FreshTokens, NEW s
    PROVE  ~Bound(k, s)
  BY DEF FreshTokens, TokensInUse, Bound, Names

\* What the slots bind after a step was bound before, or is the token a
\* prepare has just drawn for the identity in its slot.
LEMMA SlotsBound ==
    ASSUME TypeOK, SlotShape, LocalsHeld, BackupsBacked, NEW t \in Tasks, Step(t),
           NEW p \in Places, NEW k \in Tokens, NEW s \in Shutters,
           fw'[p].token = k, fw'[p].id = s
    PROVE  Bound(k, s) \/ (k \in FreshTokens /\ s = fw[job[t].src].id)
<1>1. CASE UNCHANGED fw
  BY <1>1 DEF Bound
<1>2. CASE Prepares(t)
  <2>1. job[t].src \in Places
    BY <1>2, CommandsHaveJobs DEF Transfer
  <2>2. CASE fw'[p] = fw[p]
    BY <2>2 DEF Bound
  <2>3. CASE fw'[p] # fw[p]
    <3>1. PICK l \in FreshTokens :
             fw' = [fw EXCEPT ![job[t].src] = Archived(fw[job[t].src].id, l)]
      BY <1>2, <2>3 DEF Prepares, FwPrepare
    <3>2. fw'[p] = Archived(fw[job[t].src].id, l)
      BY <2>1, <2>3, <3>1 DEF TypeOK
    <3> QED BY <3>2 DEF Archived
  <2> QED BY <2>2, <2>3
<1>3. CASE LockedCommand(t)
  <2>1. job[t] \in Transfer
    BY <1>3, CommandsHaveJobs
  <2>2. \/ fw'[p] = fw[p]
        \/ fw'[p] = Empty
        \/ fw'[p] = Active(fw[p].id)
        \/ fw'[p] = Imported(job[t].backup, job[t].token)
        \/ fw'[p] = Activated(fw[p].id, job[t].token) /\ fw[p].token = job[t].token
    BY <1>3, <2>1
    DEF LockedCommand, Execute, FwImport, FwActivate, FwCommit, FwFinalize,
        FwAbort, FwRollback, Transfer, TypeOK, Imported
  <2>3. CASE fw'[p] = fw[p]
    BY <2>3 DEF Bound
  <2>4. CASE fw'[p] = Empty \/ fw'[p] = Active(fw[p].id)
    BY <2>4, NoneIsNoValue DEF Empty, Active
  <2>5. CASE fw'[p] = Imported(job[t].backup, job[t].token)
    <3>1. Names(job[t], k, s)
      BY <2>1, <2>5, NoneIsNoValue DEF Imported, Names
    <3> QED BY <3>1 DEF Bound
  <2>6. CASE fw'[p] = Activated(fw[p].id, job[t].token) /\ fw[p].token = job[t].token
    BY <2>6 DEF Activated, Bound
  <2> QED BY <2>2, <2>3, <2>4, <2>5, <2>6
<1> QED BY <1>1, <1>2, <1>3, FirmwareStep

\* The same for the transfers.
LEMMA TransfersBound ==
    ASSUME TypeOK, SlotShape, LocalsHeld, BackupsBacked, NEW t \in Tasks, Step(t),
           NEW j, Known(j)', NEW k \in Tokens, NEW s \in Shutters, Names(j, k, s)
    PROVE  Bound(k, s) \/ (k \in FreshTokens /\ s = fw[job[t].src].id)
<1>1. j # None /\ j.token = k /\ j.backup = s
  BY DEF Names
<1>2. CASE Known(j)
  BY <1>2, BoundByKnown
<1>3. CASE j.token = None
  BY <1>1, <1>3, NoneIsNoValue
<1>4. CASE FwPrepare(job[t].src) /\ job[t] \in Transfer
           /\ fw'[job[t].src].token = k /\ fw'[job[t].src].id = s
  BY <1>4, SlotsBound DEF Transfer
<1>5. CASE Names(job[t], k, s)
  BY <1>5 DEF Bound
<1>6. CASE \E next \in Phases :
              /\ pc[t] = "exchange"
              /\ Execute(job[t], next) /\ j = Replied(job[t], next)
  <2>1. job[t] \in Transfer
    BY <1>6 DEF LocalsHeld
  <2>2. CASE job[t].phase = "preparing"
    BY <1>1, <1>4, <1>6, <2>1, <2>2 DEF Execute, Replied, Amend
  <2>3. CASE job[t].phase # "preparing"
    BY <1>1, <1>5, <1>6, <2>1, <2>3, NoneIsNoValue DEF Replied, Amend, Names
  <2> QED BY <2>2, <2>3
<1>7. CASE \E backup \in {None, fw'[job[t].src].id} :
              /\ pc[t] = "reprepare" /\ FwPrepare(job[t].src)
              /\ j = Amend(job[t], job[t].phase, fw'[job[t].src].token, backup)
  BY <1>1, <1>4, <1>7, NoneIsNoValue DEF Amend, LocalsHeld
<1>8. CASE /\ pc[t] = "query_destination" /\ UNCHANGED fw
           /\ \A l, m \in KnownTokens(job[t], seen[t], fw[job[t].dst]) : l = m
           /\ j = Reconciled(job[t], seen[t], fw[job[t].dst])
  <2>1. job[t] \in Transfer /\ Backed(job[t]) /\ seen[t] \in SlotStates
    BY <1>8 DEF LocalsHeld, BackupsBacked
  <2>2. fw[job[t].dst] \in SlotStates
    BY <2>1 DEF TypeOK, Transfer
  <2>3. j.backup = job[t].backup /\ (job[t].token # None => j.token = job[t].token)
    BY <1>8, <2>1, <2>2, ReconciledFacts
  <2>4. job[t] # None /\ job[t].token # None
    BY <1>1, <2>1, <2>3, NoneIsNoValue DEF Backed
  <2> QED BY <1>1, <1>5, <2>3, <2>4 DEF Names
<1> QED BY <1>1, <1>2, <1>3, <1>6, <1>7, <1>8, KnownStep DEF Learned

LEMMA BindsStep ==
    ASSUME TypeOK, SlotShape, LocalsHeld, BackupsBacked, TokenBinds,
           NEW t \in Tasks, Step(t)
    PROVE  TokenBinds'
<1>1. ASSUME NEW k \in Tokens, NEW s \in Shutters, Bound(k, s)'
      PROVE  Bound(k, s) \/ (k \in FreshTokens /\ s = fw[job[t].src].id)
  <2>1. CASE \E p \in Places : fw'[p].token = k /\ fw'[p].id = s
    BY <2>1, SlotsBound
  <2>2. CASE \E j : Known(j)' /\ Names(j, k, s)
    BY <2>2, TransfersBound
  <2>3. \/ \E p \in Places : fw'[p].token = k /\ fw'[p].id = s
        \/ \E j : Known(j)' /\ Names(j, k, s)
    BY <1>1 DEF Bound, Known, Names
  <2> QED BY <2>1, <2>2, <2>3
<1> SUFFICES ASSUME NEW k \in Tokens, NEW r \in Shutters, NEW s \in Shutters,
                    Bound(k, r)', Bound(k, s)'
             PROVE  r = s
  BY DEF TokenBinds
<1>2. CASE k \in FreshTokens
  BY <1>1, <1>2, FreshIsUnbound
<1>3. CASE k \notin FreshTokens
  BY <1>1, <1>3 DEF TokenBinds
<1> QED BY <1>2, <1>3

-----------------------------------------------------------------------------
(* A step moves one task *)

LEMMA OthersUnchanged ==
    ASSUME TypeOK, NEW t \in Tasks, Step(t), NEW u \in Tasks \ {t}
    PROVE  pc'[u] = pc[u] /\ job'[u] = job[u] /\ op'[u] = op[u] /\ seen'[u] = seen[u]
<1>1. CASE \/ Fail(t) \/ RejectStart(t) \/ ExchangeLost(t) \/ ReprepareLost(t)
           \/ AbortLost(t) \/ RollbackLost(t) \/ Rollback(t) \/ Complete(t)
  <2>1. Finished(t)
    BY <1>1 DEF Fail, RejectStart, ExchangeLost, ReprepareLost, AbortLost,
                RollbackLost, Rollback, Clear, Complete, Finish
  <2> QED BY <2>1 DEF Finished, TypeOK
<1>2. CASE Start(t) \/ Recover(t)
  BY <1>2 DEF Start, SubmitStart, Recover, Submit, EnterTransferLock, GoTo, TypeOK
<1>3. CASE \/ AcquireStart(t) \/ EnsureDestinationEmpty(t) \/ StopMotor(t)
           \/ Checkpoint(t) \/ Exchange(t) \/ ResumeStart(t)
           \/ AcquireTransfer(t) \/ QuerySource(t) \/ Abort(t)
  BY <1>3
  DEF AcquireStart, EnsureDestinationEmpty, StopMotor, Checkpoint, Exchange,
      Learn, AfterReply, ResumeStart, EnterTransferLock, AcquireTransfer,
      QuerySource, Abort, GoTo, TypeOK
<1>4. CASE QueryDestination(t) \/ Reprepare(t)
  <2>1. \E j : (\E stage : Await(t, j, stage)) \/ Settles(t, j)
    BY <1>4, QueryOutcome, ReconcileOutcome DEF Reprepare
  <2>2. Finished(t) \/ \E j, stage : Await(t, j, stage)
    BY <2>1 DEF Settles
  <2> QED BY <2>2 DEF Await, Learn, GoTo, Finished, TypeOK
<1> QED BY <1>1, <1>2, <1>3, <1>4 DEF Step, Progress, Interrupted

-----------------------------------------------------------------------------
(* A commit is sent only to an activated destination *)

LEMMA CommitStep ==
    ASSUME TypeOK, SlotShape, LocalsHeld, Control, BackupsBacked, CommitProved,
           NEW t \in Tasks, Step(t)
    PROVE  CommitProved'
<1> SUFFICES ASSUME NEW u \in Tasks, pc'[u] \in Stepping,
                    job'[u].phase = "activated"
             PROVE  \E s \in Shutters : fw'[job'[u].dst] = Activated(s, job'[u].token)
  BY DEF CommitProved
<1>1. CASE u # t
  <2>1. pc'[u] = pc[u] /\ job'[u] = job[u]
    BY <1>1, OthersUnchanged
  <2>2. PICK s \in Shutters : fw[job[u].dst] = Activated(s, job[u].token)
    BY <2>1 DEF CommitProved
  <2>3. job[u] \in Transfer
    BY <2>1 DEF LocalsHeld, Stepping
  <2>4. CASE UNCHANGED fw
    BY <2>1, <2>2, <2>4
  <2>5. CASE Prepares(t)
    <3>1. fw'[job[u].dst] = fw[job[u].dst]
      BY <2>2, <2>3, <2>5, CommandsHaveJobs
      DEF Prepares, FwPrepare, TypeOK, Transfer, Active, Activated
    <3> QED BY <2>1, <2>2, <3>1
  <2>6. CASE LockedCommand(t)
    <3>1. transferLock = t
      BY <2>6, CommandLocked
    <3>2. transferLock = u
      BY <2>1 DEF Control, LockHeld, StartPrepares, Stepping
    <3> QED BY <1>1, <3>1, <3>2
  <2> QED BY <2>4, <2>5, <2>6, FirmwareStep
<1>2. CASE u = t
  <2>1. CASE Checkpoint(t)
    BY <1>2, <2>1 DEF Checkpoint, At, CommitProved, Stepping
  <2>2. CASE Exchange(t)
    <3>1. PICK next \in Phases :
             /\ Execute(job[t], next)
             /\ job' = [job EXCEPT ![t] = Replied(job[t], next)]
      BY <2>2 DEF Exchange, Learn
    <3>2. job[t] \in Transfer /\ job'[t] = Replied(job[t], next)
      BY <2>2, <3>1 DEF Exchange, At, LocalsHeld, TypeOK
    <3>3. next = "activated"
      BY <1>2, <3>2 DEF Replied, Amend
    <3>4. /\ FwActivate(job[t].dst, job[t].token)
          /\ job'[t].dst = job[t].dst /\ job'[t].token = job[t].token
      BY <3>1, <3>2, <3>3 DEF Execute, Replied, Amend
    <3>5. fw[job[t].dst].id \in Shutters
      BY <3>2, <3>4, RoleShape DEF FwActivate, Imported, Transfer
    <3> QED BY <1>2, <3>2, <3>4, <3>5 DEF FwActivate, TypeOK, Transfer
  <2>3. CASE QueryDestination(t)
    <3> DEFINE d == fw[job[t].dst]
    <3>1. /\ job[t] \in Transfer /\ seen[t] \in SlotStates /\ d \in SlotStates
          /\ job'[t] = Reconciled(job[t], seen[t], d)
          /\ \A k, l \in KnownTokens(job[t], seen[t], d) : k = l
          /\ UNCHANGED fw
      <4>1. job[t] \in Transfer /\ seen[t] \in SlotStates /\ d \in SlotStates
        BY <2>3 DEF QueryDestination, At, LocalsHeld, TypeOK, Transfer
      <4>2. Acceptable(job[t], seen[t], d) /\ UNCHANGED fw
        BY <2>3, QueryOutcome
      <4>3. \/ Finished(t)
            \/ \E stage : Await(t, Reconciled(job[t], seen[t], d), stage)
        BY <2>3, QueryOutcome DEF Settles
      <4>4. ~Finished(t)
        BY <1>2 DEF Finished, TypeOK, Stepping
      <4>5. job'[t] = Reconciled(job[t], seen[t], d)
        BY <4>3, <4>4 DEF Await, Learn, TypeOK
      <4> QED BY <4>1, <4>2, <4>5 DEF Acceptable
    <3>2. /\ job'[t].dst = job[t].dst
          /\ d.token # None => job'[t].token = d.token
          /\ d.role = "destination" /\ d.phase = "active"
      BY <1>2, <3>1, ReconciledFacts
    <3>3. PICK s \in Shutters, k \in Tokens : d = Activated(s, k)
      BY <3>1, <3>2, RoleShape DEF Transfer
    <3> QED BY <1>2, <3>1, <3>2, <3>3, NoneIsNoValue DEF Activated
  <2>4. CASE Reprepare(t)
    <3>1. PICK backup :
             \/ Finished(t)
             \/ \E stage : Await(t, Amend(job[t], job[t].phase,
                                          fw'[job[t].src].token, backup), stage)
      BY <2>4, ReconcileOutcome DEF Reprepare, Settles
    <3>2. ~Finished(t)
      BY <1>2 DEF Finished, TypeOK, Stepping
    <3>3. job'[t].phase = job[t].phase
      BY <3>1, <3>2 DEF Await, Learn, Amend, TypeOK
    <3> QED BY <1>2, <2>4, <3>3 DEF Reprepare, At, Control, OperationFits
  <2>5. CASE StopMotor(t)
    BY <1>2, <2>5 DEF StopMotor, At, Control, OperationFits, StartPrepares
  <2>6. CASE \/ Fail(t) \/ RejectStart(t) \/ ExchangeLost(t) \/ ReprepareLost(t)
             \/ AbortLost(t) \/ RollbackLost(t) \/ Rollback(t) \/ Complete(t)
    <3>1. Finished(t)
      BY <2>6 DEF Fail, RejectStart, ExchangeLost, ReprepareLost, AbortLost,
                  RollbackLost, Rollback, Clear, Complete, Finish
    <3> QED BY <1>2, <3>1 DEF Finished, TypeOK, Stepping
  <2>7. CASE \/ Start(t) \/ Recover(t) \/ AcquireStart(t) \/ ResumeStart(t)
             \/ EnsureDestinationEmpty(t) \/ AcquireTransfer(t)
             \/ QuerySource(t) \/ Abort(t)
    BY <1>2, <2>7
    DEF Start, SubmitStart, Recover, Submit, AcquireStart, ResumeStart,
        EnterTransferLock, EnsureDestinationEmpty, AcquireTransfer, QuerySource,
        Abort, GoTo, TypeOK, Stepping
  <2> QED
    BY <2>1, <2>2, <2>3, <2>4, <2>5, <2>6, <2>7 DEF Step, Progress, Interrupted
<1> QED BY <1>1, <1>2

-----------------------------------------------------------------------------
(* The last usable copy is never erased *)

Usable(s, p) == fw[p].id = s /\ fw[p] # Imported(s, fw[p].token)

\* Every command keeps a usable copy usable where it is, but a commit.
LEMMA CopiesKept ==
    ASSUME TypeOK, NEW t \in Tasks, job[t] \in Transfer,
           Prepares(t) \/ (LockedCommand(t) /\ ~FwCommit(job[t].src, job[t].token)),
           NEW s \in Shutters, NEW p \in Places, Usable(s, p)
    PROVE  Usable(s, p)'
<1>1. CASE fw'[p] = fw[p]
  BY <1>1 DEF Usable
<1>2. CASE fw'[p] # fw[p]
  <2>1. \/ fw'[p] = Active(fw[p].id)
        \/ \E k : fw'[p] = Archived(fw[p].id, k)
        \/ fw[p] = Empty
        \/ \E k : fw[p] = Imported(fw[p].id, k)
    <3> DEFINE j == job[t]
    <3>0. j.src \in Places /\ j.dst \in Places
      BY DEF Transfer
    <3>1. CASE FwPrepare(j.src)
      BY <1>2, <3>0, <3>1 DEF FwPrepare, TypeOK
    <3>2. CASE FwImport(j.dst, j.backup, j.token)
      BY <1>2, <3>0, <3>2 DEF FwImport, TypeOK
    <3>3. CASE FwActivate(j.dst, j.token) \/ FwAbort(j.dst, j.token)
      BY <1>2, <3>0, <3>3 DEF FwActivate, FwAbort, TypeOK
    <3>4. CASE FwFinalize(j.dst, j.token)
      BY <1>2, <3>0, <3>4 DEF FwFinalize, TypeOK
    <3>5. CASE FwRollback(j.src, j.token)
      BY <1>2, <3>0, <3>5 DEF FwRollback, TypeOK
    <3> QED BY <3>1, <3>2, <3>3, <3>4, <3>5
        DEF Prepares, LockedCommand, Execute
  <2>2. fw[p].id = s /\ s # None
    BY NoneIsNoValue DEF Usable
  <2>3. ~(fw[p] = Empty)
    BY <2>2 DEF Empty
  <2>4. ~\E k : fw[p] = Imported(fw[p].id, k)
    <3> SUFFICES ASSUME NEW k, fw[p] = Imported(fw[p].id, k)
                 PROVE  FALSE
      OBVIOUS
    <3>1. fw[p].token = k
      BY DEF Imported
    <3> QED BY <3>1 DEF Usable
  <2>5. CASE fw'[p] = Active(fw[p].id)
    BY <2>2, <2>5 DEF Usable, Active, Imported
  <2>6. CASE \E k : fw'[p] = Archived(fw[p].id, k)
    BY <2>2, <2>6 DEF Usable, Archived, Imported
  <2> QED BY <2>1, <2>3, <2>4, <2>5, <2>6
<1> QED BY <1>1, <1>2

LEMMA HeldStep ==
    ASSUME TypeOK, SlotShape, LocalsHeld, Control, CommitProved, TokenBinds,
           IdentityHeld, NEW t \in Tasks, Step(t)
    PROVE  IdentityHeld'
<1> SUFFICES ASSUME NEW s \in Shutters
             PROVE  \E p \in Places : Usable(s, p)'
  BY DEF IdentityHeld, Usable
<1>1. PICK p \in Places : Usable(s, p)
  BY DEF IdentityHeld, Usable
<1>2. CASE UNCHANGED fw
  BY <1>1, <1>2 DEF Usable
<1>3. CASE \/ Prepares(t)
           \/ LockedCommand(t) /\ ~FwCommit(job[t].src, job[t].token)
  BY <1>1, <1>3, CommandsHaveJobs, CopiesKept
<1>4. CASE LockedCommand(t) /\ FwCommit(job[t].src, job[t].token)
  <2> DEFINE source == job[t].src
             target == job[t].dst
             k == job[t].token
  <2>1. job[t] \in Transfer /\ source \in Places /\ target \in Places
    BY <1>4, CommandsHaveJobs DEF Transfer
  <2>2. CASE p # source
    BY <1>1, <1>4, <2>1, <2>2 DEF FwCommit, Usable, TypeOK
  <2>3. CASE p = source
    <3>1. fw[source] = Archived(s, k) /\ k \in Tokens
      <4>1. fw[source] = Archived(s, k)
        BY <1>1, <1>4, <2>3 DEF FwCommit, Usable
      <4>2. fw[source].role = "source"
        BY <4>1 DEF Archived
      <4>3. PICK r \in Shutters, l \in Tokens : fw[source] = Archived(r, l)
        BY <2>1, <4>2, RoleShape
      <4> QED BY <4>1, <4>3 DEF Archived
    <3>2. pc[t] = "exchange" /\ job[t].phase = "activated"
      <4>1. fw'[source] = Empty
        BY <1>4, <2>1 DEF FwCommit, TypeOK
      <4>2. fw'[source] # fw[source]
        BY <3>1, <4>1 DEF Empty, Archived
      <4>3. ~FwImport(target, job[t].backup, k)
        BY <2>1, <3>1, <4>2 DEF FwImport, TypeOK, Empty, Archived
      <4>4. ~FwActivate(target, k) /\ ~FwAbort(target, k)
        BY <2>1, <3>1, <4>2 DEF FwActivate, FwAbort, TypeOK, Imported, Archived
      <4>5. ~FwFinalize(target, k)
        BY <2>1, <3>1, <4>2 DEF FwFinalize, TypeOK, Activated, Archived
      <4>6. ~FwRollback(source, k)
        <5>1. Active(fw[source].id) # Empty
          BY DEF Active, Empty
        <5> QED BY <2>1, <4>1, <5>1 DEF FwRollback, TypeOK
      <4> QED BY <1>4, <4>3, <4>4, <4>5, <4>6 DEF LockedCommand, Execute
    <3>3. PICK r \in Shutters : fw[target] = Activated(r, k)
      BY <3>2 DEF CommitProved, Stepping
    <3>4. Bound(k, s) /\ Bound(k, r)
      BY <2>1, <3>1, <3>3 DEF Bound, Archived, Activated
    <3>5. r = s
      BY <3>1, <3>4 DEF TokenBinds
    <3>6. target # source
      BY <3>1, <3>3 DEF Archived, Activated
    <3>7. fw'[target] = Activated(s, k)
      BY <1>4, <2>1, <3>3, <3>5, <3>6 DEF FwCommit, TypeOK
    <3> QED BY <2>1, <3>7 DEF Usable, Activated, Imported
  <2> QED BY <2>2, <2>3
<1> QED BY <1>2, <1>3, <1>4, FirmwareStep

-----------------------------------------------------------------------------
(* The invariant is inductive *)

\* With nobody running and no journal, only the slots have to be looked at.
LEMMA Quiet ==
    ASSUME TypeOK, \A t \in Tasks : pc[t] = "idle" /\ op[t] = "none" /\ job[t] = None
    PROVE  LocalsHeld /\ Control /\ CommitProved
  BY DEF LocalsHeld, Control, LockHeld, StartPrepares, OperationFits,
         CommitProved, Locked, Stepping

\* The two states in which Home Assistant leaves a slot.
LEMMA RestingSlots ==
    /\ Empty \in SlotStates /\ Empty.token = None
    /\ \A s \in Shutters :
          /\ Active(s) \in SlotStates
          /\ Active(s).token = None
          /\ Active(s).id = s
          /\ Active(s).role = "none"
    /\ \A s, k : Imported(s, k).role = "destination"
  BY DEF Empty, Active, Imported, SlotStates

LEMMA InitInv == Init => IInv
<1> SUFFICES ASSUME Init PROVE IInv
  OBVIOUS
<1>1. PICK home \in [Shutters -> Places] :
         /\ \A s1, s2 \in Shutters : home[s1] = home[s2] => s1 = s2
         /\ meta = {[id |-> s, at |-> home[s]] : s \in Shutters}
         /\ fw = [p \in Places |->
                    IF \E s \in Shutters : home[s] = p
                    THEN Active(CHOOSE s \in Shutters : home[s] = p)
                    ELSE Empty]
  BY DEF Init
<1>2. ASSUME NEW s \in Shutters
      PROVE  fw[home[s]] = Active(s)
  <2> DEFINE r == CHOOSE q \in Shutters : home[q] = home[s]
  <2>1. r \in Shutters /\ home[r] = home[s]
    OBVIOUS
  <2>2. r = s
    BY <1>1, <2>1
  <2>3. fw[home[s]] = Active(r)
    BY <1>1
  <2> QED BY <2>2, <2>3
<1>3. ASSUME NEW p \in Places
      PROVE  fw[p] = Empty \/ \E s \in Shutters : fw[p] = Active(s)
  <2>1. CASE \E s \in Shutters : home[s] = p
    BY <1>2, <2>1
  <2>2. CASE ~\E s \in Shutters : home[s] = p
    BY <1>1, <2>2
  <2> QED BY <2>1, <2>2
<1>4. TypeOK
  <2>1. \A p \in Places : fw[p] \in SlotStates
    BY <1>3, RestingSlots
  <2>2. fw \in [Places -> SlotStates]
    BY <1>1, <2>1
  <2>3. meta \subseteq Rows
    BY <1>1 DEF Rows
  <2> QED BY <2>2, <2>3 DEF Init, TypeOK, Stages, Operations
<1>5. SlotShape
  BY <1>3 DEF SlotShape
<1>6. LocalsHeld /\ Control /\ CommitProved
  BY <1>4, Quiet DEF Init
<1>7. BackupsBacked
  BY DEF Init, BackupsBacked, Backed
<1>8. TokenBinds
  <2> SUFFICES ASSUME NEW k \in Tokens, NEW s \in Shutters PROVE ~Bound(k, s)
    BY DEF TokenBinds
  <2>1. \A p \in Places : fw[p].token = None
    BY <1>3, RestingSlots
  <2> QED BY <2>1, NoneIsNoValue DEF Init, Bound, Names
<1>9. IdentityHeld
  <2> SUFFICES ASSUME NEW s \in Shutters
               PROVE  \E p \in Places : Usable(s, p)
    BY DEF IdentityHeld, Usable
  <2>1. home[s] \in Places
    OBVIOUS
  <2>2. Usable(s, home[s])
    <3>1. fw[home[s]].id = s /\ fw[home[s]].role = "none"
      BY <1>2, RestingSlots
    <3> QED BY <3>1, RestingSlots DEF Usable
  <2> QED BY <2>1, <2>2
<1> QED BY <1>4, <1>5, <1>6, <1>7, <1>8, <1>9 DEF IInv, Control

LEMMA StepInv ==
    ASSUME IInv, NEW t \in Tasks, Step(t)
    PROVE  IInv'
<1>1. Control
  BY DEF IInv, Control
<1>2. TypeOK' /\ LocalsHeld'
  BY TypeStep DEF IInv
<1>3. Control'
  BY <1>1, ControlStep DEF IInv
<1>4. SlotShape'
  BY ShapeStep DEF IInv
<1>5. BackupsBacked'
  BY BackedStep DEF IInv
<1>6. TokenBinds'
  BY BindsStep DEF IInv
<1>7. CommitProved'
  BY <1>1, CommitStep DEF IInv
<1>8. IdentityHeld'
  BY <1>1, HeldStep DEF IInv
<1> QED BY <1>2, <1>3, <1>4, <1>5, <1>6, <1>7, <1>8 DEF IInv, Control

LEMMA CrashInv ==
    ASSUME IInv, Crash
    PROVE  IInv'
<1>1. TypeOK'
  BY DEF IInv, TypeOK, Crash, Stages, Operations
<1>2. (LocalsHeld /\ Control /\ CommitProved)'
  BY <1>1 DEF Crash, LocalsHeld, Control, LockHeld, StartPrepares,
              OperationFits, CommitProved, Locked, Stepping
<1>3. SlotShape' /\ IdentityHeld'
  BY DEF IInv, SlotShape, IdentityHeld, Crash
<1>4. BackupsBacked'
  BY DEF IInv, BackupsBacked, Backed, Crash
<1>5. TokenBinds'
  <2> SUFFICES ASSUME NEW k \in Tokens, NEW s \in Shutters, Bound(k, s)'
               PROVE  Bound(k, s)
    BY DEF IInv, TokenBinds
  <2> QED BY DEF Bound, Names, Crash
<1> QED BY <1>1, <1>2, <1>3, <1>4, <1>5 DEF IInv, Control

LEMMA StutterInv ==
    ASSUME IInv, UNCHANGED vars
    PROVE  IInv'
  BY DEF IInv, vars, TypeOK, SlotShape, LocalsHeld, LockHeld, StartPrepares,
         OperationFits, CommitProved, BackupsBacked, Backed, TokenBinds, Bound,
         Names, IdentityHeld

\* The inductive invariant holds of every behaviour, with any number of flows
\* of any kind running at the same time, crashes and lost replies included.
THEOREM Invariance == Spec => []IInv
<1>1. IInv /\ [Next]_vars => IInv'
  BY StepInv, CrashInv, StutterInv DEF Next, Step
<1> QED BY InitInv, <1>1, PTL DEF Spec

\* Every variable keeps its type.
THEOREM TypeCorrect == Spec => []TypeOK
<1>1. IInv => TypeOK
  BY DEF IInv
<1> QED BY Invariance, <1>1, PTL

\* No sequence of moves, resumes and rollbacks, however interleaved and
\* interrupted, erases the last usable copy of a shutter's rolling identity
\* (_async_start_transfer, async_resume_transfer, async_rollback_transfer).
THEOREM IdentityNeverLost == Spec => []IdentityHeld
<1>1. IInv => IdentityHeld
  BY DEF IInv
<1> QED BY Invariance, <1>1, PTL

\* Whenever a flow is about to send commit, the destination is activated with
\* the flow's token: the source is erased only after its copy may transmit.
THEOREM CommitAfterProof == Spec => []CommitProved
<1>1. IInv => CommitProved
  BY DEF IInv
<1> QED BY Invariance, <1>1, PTL

-----------------------------------------------------------------------------
(* The two locks *)


\* LocksServe with what keeps it: a task that is still at its start has not taken
\* _transfer_lock.
HoldersWork ==
    /\ startLock # None => pc[startLock] \notin {"idle", "acquire_start"}
    /\ transferLock # None => /\ pc[transferLock] \in Locked \cup Stepping
                              /\ op[transferLock] # "start"

\* A flow that ends gives both locks back.
LEMMA FinishedReleases ==
    ASSUME TypeOK, HoldersWork, NEW t \in Tasks, Finished(t)
    PROVE  HoldersWork'
BY NoneIsNoValue DEF Finished, HoldersWork, TypeOK

\* A task that works on with its locks waits for none.
LEMMA GoingOnWorks ==
    ASSUME TypeOK, HoldersWork, NEW t \in Tasks, UNCHANGED <<startLock, transferLock, op>>,
           NEW stage \in Locked \cup Stepping, pc' = [pc EXCEPT ![t] = stage]
    PROVE  HoldersWork'
BY NoneIsNoValue DEF HoldersWork, TypeOK, Locked, Stepping

LEMMA SettlesWorks ==
    ASSUME TypeOK, HoldersWork, NEW t \in Tasks, NEW j, Settles(t, j)
    PROVE  HoldersWork'
<1>1. CASE Finished(t)
  BY <1>1, FinishedReleases
<1>2. ASSUME NEW stage \in {"exchange", "rollback", "abort"}, Await(t, j, stage)
      PROVE  HoldersWork'
  BY <1>2, GoingOnWorks DEF Await, GoTo, Locked, Stepping
<1> QED BY <1>1, <1>2 DEF Settles

\* A task that has no lock enters _transfer_lock or waits for it.
LEMMA EnteringWorks ==
    ASSUME TypeOK, HoldersWork, NEW t \in Tasks, transferLock # t,
           UNCHANGED startLock, pc[t] = "idle" => startLock # t,
           NEW o \in {"resume", "rollback", "reconcile"}, op' = [op EXCEPT ![t] = o],
           EnterTransferLock(t)
    PROVE  HoldersWork'
<1>1. CASE transferLock' = t /\ pc' = [pc EXCEPT ![t] = "query_source"]
  BY <1>1, NoneIsNoValue DEF HoldersWork, TypeOK, Locked, Stepping
<1>2. CASE UNCHANGED transferLock /\ pc' = [pc EXCEPT ![t] = "acquire_transfer"]
  BY <1>2, NoneIsNoValue DEF HoldersWork, TypeOK, Locked, Stepping
<1> QED BY <1>1, <1>2 DEF EnterTransferLock, GoTo

-----------------------------------------------------------------------------
(* The steps of a flow *)

LEMMA LocksStep ==
    ASSUME TypeOK, Control, HoldersWork, NEW t \in Tasks, Step(t)
    PROVE  HoldersWork'
<1>1. CASE Fail(t) \/ RejectStart(t) \/ ExchangeLost(t) \/ ReprepareLost(t)
           \/ AbortLost(t) \/ RollbackLost(t) \/ Rollback(t) \/ Complete(t)
  BY <1>1, FinishedReleases
  DEF Fail, RejectStart, ExchangeLost, ReprepareLost, AbortLost, RollbackLost,
      Rollback, Clear, Complete, Finish
<1>2. CASE Start(t)
  <2>1. PICK row \in meta, dst \in Places : SubmitStart(t, row, dst)
    BY <1>2 DEF Start
  <2>2. /\ pc[t] = "idle"
        /\ UNCHANGED transferLock
        /\ op' = [op EXCEPT ![t] = "start"]
        /\ \/ startLock' = t /\ pc' = [pc EXCEPT ![t] = "ensure_empty"]
           \/ UNCHANGED startLock /\ pc' = [pc EXCEPT ![t] = "acquire_start"]
    BY <2>1 DEF SubmitStart, At, GoTo
  <2> QED BY <2>2, NoneIsNoValue DEF HoldersWork, TypeOK, Locked, Stepping
<1>3. CASE AcquireStart(t)
  BY <1>3, NoneIsNoValue DEF AcquireStart, At, GoTo, HoldersWork, TypeOK, Locked, Stepping
<1>4. CASE EnsureDestinationEmpty(t) \/ StopMotor(t)
  <2>1. /\ pc[t] \in {"ensure_empty", "stop_motor"}
        /\ UNCHANGED <<startLock, transferLock, op>>
        /\ \E stage \in {"stop_motor", "checkpoint"} : pc' = [pc EXCEPT ![t] = stage]
    BY <1>4 DEF EnsureDestinationEmpty, StopMotor, At, GoTo
  <2> QED BY <2>1, NoneIsNoValue DEF HoldersWork, TypeOK, Locked, Stepping
<1>5. CASE Checkpoint(t) \/ QuerySource(t) \/ Abort(t)
  <2>1. /\ UNCHANGED <<startLock, transferLock, op>>
        /\ \E stage \in {"exchange", "query_destination", "rollback"} :
              pc' = [pc EXCEPT ![t] = stage]
    BY <1>5 DEF Checkpoint, QuerySource, Abort, GoTo
  <2> QED BY <2>1, GoingOnWorks DEF Locked, Stepping
<1>6. CASE Exchange(t)
  <2>1. /\ UNCHANGED <<startLock, transferLock, op>>
        /\ \/ op[t] = "start" /\ pc' = [pc EXCEPT ![t] = "prepared"]
           \/ \E stage \in {"finish", "checkpoint"} : pc' = [pc EXCEPT ![t] = stage]
    BY <1>6 DEF Exchange, AfterReply, GoTo
  <2>2. CASE op[t] = "start" /\ pc' = [pc EXCEPT ![t] = "prepared"]
    BY <2>1, <2>2, NoneIsNoValue DEF HoldersWork, TypeOK
  <2>3. CASE \E stage \in {"finish", "checkpoint"} : pc' = [pc EXCEPT ![t] = stage]
    BY <2>1, <2>3, GoingOnWorks DEF Locked, Stepping
  <2> QED BY <2>1, <2>2, <2>3
<1>7. CASE Recover(t)
  <2>1. PICK b \in Bridges, o \in {"resume", "rollback", "reconcile"} : Submit(t, b, o)
    BY <1>7 DEF Recover
  <2>2. pc[t] = "idle" /\ transferLock # t /\ startLock # t
    BY <2>1, NoneIsNoValue DEF Submit, At, HoldersWork, Locked, Stepping
  <2> QED BY <2>1, <2>2, EnteringWorks DEF Submit
<1>8. CASE ResumeStart(t)
  <2>1. pc[t] = "prepared" /\ transferLock # t
    BY <1>8, NoneIsNoValue DEF ResumeStart, At, HoldersWork, Locked, Stepping
  <2> QED BY <1>8, <2>1, EnteringWorks DEF ResumeStart
<1>9. CASE AcquireTransfer(t)
  <2>1. op[t] # "start"
    BY <1>9 DEF AcquireTransfer, At, Control, StartPrepares
  <2> QED BY <1>9, <2>1, NoneIsNoValue
          DEF AcquireTransfer, GoTo, HoldersWork, TypeOK, Locked, Stepping
<1>10. CASE QueryDestination(t)
  <2> DEFINE j == Reconciled(job[t], seen[t], fw[job[t].dst])
  <2>1. Await(t, j, "reprepare") \/ Settles(t, j)
    BY <1>10, QueryOutcome
  <2> HIDE DEF j
  <2>2. CASE Await(t, j, "reprepare")
    BY <2>2, GoingOnWorks DEF Await, GoTo, Locked
  <2> QED BY <2>1, <2>2, SettlesWorks
<1>11. CASE Reprepare(t)
  <2>1. PICK backup \in {None, fw'[job[t].src].id} :
           AfterReconcile(t, Amend(job[t], job[t].phase, fw'[job[t].src].token, backup))
    BY <1>11 DEF Reprepare
  <2> QED BY <2>1, ReconcileOutcome, SettlesWorks
<1> QED
  BY <1>1, <1>2, <1>3, <1>4, <1>5, <1>6, <1>7, <1>8, <1>9, <1>10, <1>11
  DEF Step, Progress, Interrupted

\* The locks of Home Assistant do not outlive it.
LEMMA LocksCrash == ASSUME Crash PROVE HoldersWork'
BY DEF Crash, HoldersWork

-----------------------------------------------------------------------------
(* Theorem *)

\* However many moves, resumes, rollbacks and recoveries run, fail or wait, nobody
\* waits in a circle and nobody who has ended holds a lock (coordinator.py,
\* _transfer_start_lock and _transfer_lock).
THEOREM NoCircle == Spec => []LocksServe
<1>1. Init => HoldersWork
  BY DEF Init, HoldersWork
<1>2. IInv /\ HoldersWork /\ [Next]_vars => HoldersWork'
  <2> SUFFICES ASSUME IInv, HoldersWork, [Next]_vars PROVE HoldersWork'
    OBVIOUS
  <2>1. ASSUME NEW t \in Tasks, Step(t) PROVE HoldersWork'
    BY <2>1, LocksStep DEF IInv, Control
  <2>2. CASE UNCHANGED vars
    BY <2>2 DEF vars, HoldersWork
  <2> QED BY <2>1, <2>2, LocksCrash DEF Next, Step
<1>3. HoldersWork => LocksServe
  BY DEF HoldersWork, LocksServe, Locked, Stepping
<1> QED BY Invariance, <1>1, <1>2, <1>3, PTL DEF Spec

-----------------------------------------------------------------------------
(* A user who starts no two moves that touch: OrderlySpec *)

OrderlyMove(t) == Progress(t) \/ Interrupted(t) \/ Recover(t) \/ OrderlyStart(t)

LEMMA OrderlyIsStep ==
    ASSUME NEW t, OrderlyMove(t)
    PROVE  Step(t)
  BY DEF OrderlyMove, OrderlyStart, Start, Step

-----------------------------------------------------------------------------
(* Routes: every move under way was under way before, or has just started *)

LEMMA UnderWayIsKnown ==
    ASSUME NEW j
    PROVE  /\ j \in UnderWay <=> j # None /\ Known(j)
           /\ j \in UnderWay' <=> j # None /\ Known(j)'
  BY DEF UnderWay, Known

LEMMA SameRouteStep ==
    ASSUME TypeOK, LocalsHeld, NEW t \in Tasks, Step(t), NEW j \in UnderWay'
    PROVE  \/ \E i \in UnderWay : i.src = j.src /\ i.dst = j.dst
           \/ Start(t) /\ j = job'[t]
<1>1. Known(j)' /\ j # None
  BY UnderWayIsKnown
<1>2. CASE Known(j)
  BY <1>1, <1>2, UnderWayIsKnown
<1>3. ASSUME pc[t] # "idle", j.src = job[t].src, j.dst = job[t].dst
      PROVE  \E i \in UnderWay : i.src = j.src /\ i.dst = j.dst
  <2>1. job[t] # None /\ Known(job[t])
    BY <1>3, NoneIsNoValue DEF LocalsHeld, Known
  <2>2. job[t] \in UnderWay
    BY <2>1, UnderWayIsKnown
  <2> QED BY <1>3, <2>2
<1>4. CASE \E next \in Phases :
              /\ pc[t] = "exchange"
              /\ Execute(job[t], next) /\ j = Replied(job[t], next)
  BY <1>3, <1>4 DEF Replied, Amend
<1>5. CASE \E backup \in {None, fw'[job[t].src].id} :
              /\ pc[t] = "reprepare" /\ FwPrepare(job[t].src)
              /\ j = Amend(job[t], job[t].phase, fw'[job[t].src].token, backup)
  BY <1>3, <1>5 DEF Amend
<1>6. CASE /\ pc[t] = "query_destination" /\ UNCHANGED fw
           /\ \A k, l \in KnownTokens(job[t], seen[t], fw[job[t].dst]) : k = l
           /\ j = Reconciled(job[t], seen[t], fw[job[t].dst])
  BY <1>3, <1>6 DEF Reconciled, Amend
<1> QED BY <1>1, <1>2, <1>4, <1>5, <1>6, KnownStep DEF Learned

\* What reconciliation does to the journal and where it sends the task.
LEMMA ReconcileDoes ==
    ASSUME NEW t, NEW j, AfterReconcile(t, j)
    PROVE  \/ /\ Finished(t)
              /\ \/ UNCHANGED journal
                 \/ SetPendingTransfer(j)
                 \/ /\ j.phase \in {"preparing", "active"}
                    /\ journal' = [journal EXCEPT ![BridgeOf(j.src)] = None]
           \/ op[t] = "resume" /\ Await(t, j, "exchange") /\ SetPendingTransfer(j)
           \/ /\ UNCHANGED journal
              /\ \/ j.phase = "prepared" /\ Await(t, j, "rollback")
                 \/ j.phase = "imported" /\ Await(t, j, "abort")
<1>1. CASE op[t] = "resume" /\ Resume(t, j)
  BY <1>1 DEF Resume, Finish
<1>2. CASE op[t] = "reconcile" /\ Publish(t, j)
  BY <1>2 DEF Publish
<1>3. CASE op[t] = "rollback" /\ RollBack(t, j)
  BY <1>3 DEF RollBack, Clear
<1> QED BY <1>1, <1>2, <1>3 DEF AfterReconcile

\* What the two readings of a reconciliation prove.
LEMMA PhaseMeans ==
    ASSUME NEW j \in Transfer, NEW s \in SlotStates, NEW d \in SlotStates,
           d.role = "destination" => d.phase # "empty",
           ReconciledPhase(j, s, d) # None
    PROVE  LET phase == ReconciledPhase(j, s, d)
           IN  /\ phase \in {"preparing", "prepared", "active"} => d.role # "destination"
               /\ phase = "prepared" => s.role = "source"
               /\ phase = "committed" => Gone(s)
  BY DEF ReconciledPhase, SlotStates, Phases, Gone

LEMMA DestinationShape ==
    ASSUME SlotShape, NEW p \in Places
    PROVE  /\ fw[p].role = "destination" => fw[p].phase # "empty"
           /\ fw[p].role # "none" => fw[p].token \in Tokens
           /\ fw[p].id = None => fw[p] = Empty
           /\ Gone(fw[p]) => fw[p] = Empty
<1>1. CASE fw[p] = Empty
  BY <1>1 DEF Empty
<1>2. ASSUME NEW s \in Shutters, fw[p] = Active(s)
      PROVE  fw[p].role = "none" /\ fw[p].id # None /\ ~Gone(fw[p])
  BY <1>2, NoneIsNoValue DEF Active, Gone
<1>3. ASSUME NEW s \in Shutters, NEW k \in Tokens,
             fw[p] \in {Archived(s, k), Imported(s, k), Activated(s, k)}
      PROVE  /\ fw[p].token \in Tokens /\ fw[p].id # None /\ ~Gone(fw[p])
             /\ fw[p].role = "destination" => fw[p].phase # "empty"
  BY <1>3, NoneIsNoValue DEF Archived, Imported, Activated, Gone
<1> QED BY <1>1, <1>2, <1>3 DEF SlotShape

LEMMA QueryDoes ==
    ASSUME TypeOK, SlotShape, LocalsHeld, NEW t \in Tasks, QueryDestination(t)
    PROVE  LET d == fw[job[t].dst]
               j == Reconciled(job[t], seen[t], d)
           IN  /\ UNCHANGED fw
               /\ pc[t] = "query_destination"
               /\ job[t] \in Transfer /\ j \in Transfer
               /\ j.src = job[t].src /\ j.dst = job[t].dst
               /\ j.phase \in {"preparing", "prepared", "active"} => d.role # "destination"
               /\ j.phase = "prepared" => seen[t].role = "source"
               /\ j.phase = "committed" => Gone(seen[t])
               /\ seen[t].token # None => j.token = seen[t].token
               /\ \/ AfterReconcile(t, j)
                  \/ /\ Await(t, j, "reprepare") /\ UNCHANGED journal
                     /\ j.phase \in {"prepared", "imported"}
<1> DEFINE s == seen[t]
           d == fw[job[t].dst]
           j == Reconciled(job[t], s, d)
<1>1. job[t] \in Transfer /\ s \in SlotStates /\ pc[t] = "query_destination"
  BY DEF QueryDestination, At, LocalsHeld
<1>2. d \in SlotStates /\ job[t].dst \in Places
  BY <1>1 DEF TypeOK, Transfer
<1>3. Acceptable(job[t], s, d) /\ UNCHANGED fw
  BY QueryOutcome
<1>4. j \in Transfer
  BY <1>1, <1>2, <1>3, ReconciledType
<1>5. /\ j.src = job[t].src /\ j.dst = job[t].dst
      /\ j.phase = ReconciledPhase(job[t], s, d)
  BY DEF Reconciled, Amend
<1>6. /\ j.phase \in {"preparing", "prepared", "active"} => d.role # "destination"
      /\ j.phase = "prepared" => s.role = "source"
      /\ j.phase = "committed" => Gone(s)
  <2>1. ReconciledPhase(job[t], s, d) # None
    BY <1>3 DEF Acceptable
  <2>2. d.role = "destination" => d.phase # "empty"
    BY <1>2, DestinationShape
  <2> HIDE DEF s, d
  <2> QED BY <1>1, <1>2, <1>5, <2>1, <2>2, PhaseMeans
<1>7. s.token # None => j.token = s.token
  <2> SUFFICES ASSUME s.token # None PROVE j.token = s.token
    OBVIOUS
  <2> DEFINE tokens == KnownTokens(job[t], s, d)
  <2>1. s.token \in tokens
    BY DEF KnownTokens
  <2>2. j.token = IF tokens = {} THEN job[t].token ELSE CHOOSE k \in tokens : TRUE
    BY DEF Reconciled, Amend
  <2>3. \A k, l \in tokens : k = l
    BY <1>3 DEF Acceptable
  <2>4. (CHOOSE k \in tokens : TRUE) \in tokens
    <3> HIDE DEF tokens
    <3> QED BY <2>1, Zenon
  <2> HIDE DEF tokens
  <2> QED BY <2>1, <2>2, <2>3, <2>4
<1>8. \/ AfterReconcile(t, j)
      \/ /\ Await(t, j, "reprepare") /\ UNCHANGED journal
         /\ j.phase \in {"prepared", "imported"}
  BY DEF QueryDestination
<1> QED BY <1>1, <1>3, <1>4, <1>5, <1>6, <1>7, <1>8

LEMMA ReprepareDoes ==
    ASSUME TypeOK, SlotShape, LocalsHeld, Control, NEW t \in Tasks, Reprepare(t)
    PROVE  \E j \in Transfer :
              /\ FwPrepare(job[t].src) /\ fw'[job[t].src].role = "source"
              /\ pc[t] = "reprepare" /\ job[t] \in Transfer
              /\ j.src = job[t].src /\ j.dst = job[t].dst
              /\ j.phase = job[t].phase /\ j.phase \in {"prepared", "imported"}
              /\ j.token = fw'[job[t].src].token
              /\ AfterReconcile(t, j)
<1>1. PICK backup \in {None, fw'[job[t].src].id} :
          AfterReconcile(t, Amend(job[t], job[t].phase, fw'[job[t].src].token, backup))
  BY DEF Reprepare
<1>2. /\ job[t] \in Transfer /\ FwPrepare(job[t].src) /\ pc[t] = "reprepare"
      /\ job[t].phase \in {"prepared", "imported"}
  BY DEF Reprepare, LocalsHeld, At, Control, OperationFits
<1>3. PICK s \in Shutters, k \in Tokens : fw'[job[t].src] = Archived(s, k)
  BY <1>2, PrepareShape DEF Transfer
<1>4. fw'[job[t].src].role = "source" /\ fw'[job[t].src].token = k /\ fw'[job[t].src].id = s
  BY <1>3 DEF Archived
<1>5. job[t].phase \in Phases
  BY <1>2 DEF Transfer
<1> DEFINE j == Amend(job[t], job[t].phase, fw'[job[t].src].token, backup)
<1>6. j \in Transfer /\ j.src = job[t].src /\ j.dst = job[t].dst /\ j.phase = job[t].phase
      /\ j.token = fw'[job[t].src].token
  BY <1>2, <1>4, <1>5, AmendType
<1>7. AfterReconcile(t, j)
  BY <1>1
<1> HIDE DEF j
<1> QED BY <1>2, <1>4, <1>6, <1>7

-----------------------------------------------------------------------------
(* The journals: a step writes its own route, or clears it when the destination *)
(* is not, or no longer, one.                                                   *)

Writes(t) ==
    \E v : /\ v # None /\ v.src = job[t].src /\ v.dst = job[t].dst
           /\ journal' = [journal EXCEPT ![BridgeOf(job[t].src)] = v]

Clears(t) ==
    /\ pc[t] \in Locked
    /\ fw'[job[t].dst].role # "destination"
    /\ journal' = [journal EXCEPT ![BridgeOf(job[t].src)] = None]

LEMMA ReconcileJournal ==
    ASSUME NEW t \in Tasks, NEW j \in Transfer,
           AfterReconcile(t, j), pc[t] \in Locked,
           j.src = job[t].src, j.dst = job[t].dst,
           j.phase \in {"preparing", "active"} => fw'[job[t].dst].role # "destination"
    PROVE  UNCHANGED journal \/ Writes(t) \/ Clears(t)
<1>1. j # None
  BY NoneIsNoValue
<1>2. SetPendingTransfer(j) => Writes(t)
  BY <1>1 DEF SetPendingTransfer, Writes
<1>3. CASE /\ j.phase \in {"preparing", "active"}
           /\ journal' = [journal EXCEPT ![BridgeOf(j.src)] = None]
  BY <1>3 DEF Clears
<1> QED BY <1>2, <1>3, ReconcileDoes

LEMMA JournalStep ==
    ASSUME TypeOK, SlotShape, LocalsHeld, Control, RollbackProved, NEW t \in Tasks, Step(t)
    PROVE  UNCHANGED journal \/ (job[t] \in Transfer /\ (Writes(t) \/ Clears(t)))
<1>1. CASE \/ Fail(t) \/ RejectStart(t) \/ ExchangeLost(t) \/ ReprepareLost(t)
           \/ AbortLost(t) \/ RollbackLost(t) \/ Complete(t)
           \/ AcquireStart(t) \/ EnsureDestinationEmpty(t) \/ StopMotor(t)
           \/ ResumeStart(t) \/ AcquireTransfer(t) \/ QuerySource(t) \/ Abort(t)
  BY <1>1 DEF Fail, RejectStart, ExchangeLost, ReprepareLost, AbortLost,
              RollbackLost, Complete, Finish, AcquireStart, EnsureDestinationEmpty,
              StopMotor, ResumeStart, AcquireTransfer, QuerySource, Abort
<1>2. CASE Start(t) \/ Recover(t)
  BY <1>2 DEF Start, SubmitStart, Recover, Submit
<1>3. CASE Checkpoint(t)
  <2>1. job[t] \in Transfer /\ job[t] # None
    BY <1>3, NoneIsNoValue DEF Checkpoint, At, LocalsHeld
  <2> QED BY <1>3, <2>1 DEF Checkpoint, SetPendingTransfer, Writes
<1>4. CASE Exchange(t)
  <2>1. PICK next \in Phases :
           Execute(job[t], next) /\ SetPendingTransfer(Replied(job[t], next))
    BY <1>4 DEF Exchange
  <2>2. job[t] \in Transfer
    BY <1>4 DEF Exchange, At, LocalsHeld
  <2>3. /\ Replied(job[t], next).src = job[t].src
        /\ Replied(job[t], next).dst = job[t].dst
    BY DEF Replied, Amend
  <2>4. Replied(job[t], next) # None
    <3>1. fw' \in [Places -> SlotStates]
      BY <2>1, <2>2, ExecuteType
    <3>2. fw'[job[t].src] \in SlotStates
      BY <2>2, <3>1 DEF Transfer
    <3>3. Replied(job[t], next) \in Transfer
      BY <2>2, <3>2, AmendType DEF Replied, Transfer, SlotStates
    <3> QED BY <3>3, NoneIsNoValue
  <2> QED BY <2>1, <2>2, <2>3, <2>4 DEF SetPendingTransfer, Writes
<1>5. CASE QueryDestination(t)
  <2> DEFINE j == Reconciled(job[t], seen[t], fw[job[t].dst])
  <2>1. /\ j \in Transfer /\ job[t] \in Transfer /\ pc[t] \in Locked
        /\ j.src = job[t].src /\ j.dst = job[t].dst
        /\ j.phase \in {"preparing", "active"} => fw'[job[t].dst].role # "destination"
        /\ AfterReconcile(t, j) \/ UNCHANGED journal
    BY <1>5, QueryDoes DEF Locked
  <2> HIDE DEF j
  <2> QED BY <2>1, ReconcileJournal
<1>6. CASE Reprepare(t)
  <2>1. PICK j \in Transfer :
              /\ pc[t] = "reprepare" /\ job[t] \in Transfer
              /\ j.src = job[t].src /\ j.dst = job[t].dst
              /\ j.phase \in {"prepared", "imported"}
              /\ AfterReconcile(t, j)
    BY <1>6, ReprepareDoes
  <2> QED BY <2>1, ReconcileJournal DEF Locked
<1>7. CASE Rollback(t)
  <2>1. /\ job[t] \in Transfer /\ pc[t] \in Locked
        /\ journal' = [journal EXCEPT ![BridgeOf(job[t].src)] = None]
        /\ FwRollback(job[t].src, job[t].token)
        /\ fw[job[t].dst].role # "destination"
    BY <1>7 DEF Rollback, Clear, At, LocalsHeld, Locked, RollbackProved
  <2>2. fw'[job[t].dst].role # "destination"
    BY <2>1 DEF FwRollback, Active, TypeOK, Transfer
  <2> QED BY <2>1, <2>2 DEF Clears
<1> QED
  BY <1>1, <1>2, <1>3, <1>4, <1>5, <1>6, <1>7 DEF Step, Progress, Interrupted

-----------------------------------------------------------------------------
(* Routes stay fit *)

Fit(i, j) == SameRoute(i, j.src, j.dst) \/ Apart(i, j.src, j.dst)

LEMMA RoutesStep ==
    ASSUME TypeOK, SlotShape, LocalsHeld, Control, RollbackProved, RoutesFit,
           NEW t \in Tasks, OrderlyMove(t)
    PROVE  RoutesFit'
<1>1. Step(t)
  BY OrderlyIsStep
<1>2. ASSUME NEW b \in Bridges, journal'[b] # None
      PROVE  BridgeOf(journal'[b].src) = b
  <2>1. CASE UNCHANGED journal
    BY <1>2, <2>1 DEF RoutesFit
  <2>2. CASE Writes(t)
    BY <1>2, <2>2 DEF Writes, RoutesFit, TypeOK
  <2>3. CASE Clears(t)
    BY <1>2, <2>3 DEF Clears, RoutesFit, TypeOK
  <2> QED BY <1>1, <2>1, <2>2, <2>3, JournalStep
<1>3. CASE \E row \in meta, dst \in Places :
              /\ \A j \in UnderWay : SameRoute(j, row.at, dst) \/ Apart(j, row.at, dst)
              /\ SubmitStart(t, row, dst)
  <2>1. PICK row \in meta, dst \in Places :
              /\ \A j \in UnderWay : SameRoute(j, row.at, dst) \/ Apart(j, row.at, dst)
              /\ SubmitStart(t, row, dst)
    BY <1>3
  <2>2. /\ job'[t].src = row.at /\ job'[t].dst = dst
        /\ BridgeOf(dst) # BridgeOf(row.at)
    BY <2>1 DEF SubmitStart, TypeOK
  <2>3. ASSUME NEW j \in UnderWay'
        PROVE  \/ \E i \in UnderWay : i.src = j.src /\ i.dst = j.dst
               \/ j.src = row.at /\ j.dst = dst
    BY <1>1, <2>2, <2>3, SameRouteStep
  <2>4. \A j \in UnderWay : BridgeOf(j.src) # BridgeOf(j.dst)
    BY DEF RoutesFit
  <2>5. ASSUME NEW j \in UnderWay' PROVE BridgeOf(j.src) # BridgeOf(j.dst)
    BY <2>2, <2>3, <2>4, <2>5
  <2>6. ASSUME NEW i \in UnderWay', NEW j \in UnderWay' PROVE Fit(i, j)
    <3>1. CASE \E k, l \in UnderWay : /\ k.src = i.src /\ k.dst = i.dst
                                      /\ l.src = j.src /\ l.dst = j.dst
      BY <3>1 DEF RoutesFit, Fit, SameRoute, Apart
    <3>2. CASE /\ i.src = row.at /\ i.dst = dst
               /\ \E l \in UnderWay : l.src = j.src /\ l.dst = j.dst
      BY <2>1, <3>2 DEF Fit, SameRoute, Apart
    <3>3. CASE /\ j.src = row.at /\ j.dst = dst
               /\ \E l \in UnderWay : l.src = i.src /\ l.dst = i.dst
      BY <2>1, <3>3 DEF Fit, SameRoute, Apart
    <3>4. CASE i.src = row.at /\ i.dst = dst /\ j.src = row.at /\ j.dst = dst
      BY <3>4 DEF Fit, SameRoute
    <3> QED BY <2>3, <3>1, <3>2, <3>3, <3>4
  <2> QED BY <1>2, <2>5, <2>6 DEF RoutesFit, Fit
<1>4. CASE Progress(t) \/ Interrupted(t) \/ Recover(t)
  <2>1. ASSUME NEW j \in UnderWay'
        PROVE  \E i \in UnderWay : i.src = j.src /\ i.dst = j.dst
    <3>1. CASE Start(t) /\ j = job'[t]
      <4>1. UNCHANGED journal /\ pc[t] = "idle" /\ pc'[t] \in {"ensure_empty", "acquire_start"}
            /\ op'[t] = "start"
        BY <3>1 DEF Start, SubmitStart, GoTo, At, TypeOK
      <4>2. CASE Progress(t) \/ Interrupted(t)
        BY <4>1, <4>2
        DEF Progress, Interrupted, AcquireStart, RejectStart, EnsureDestinationEmpty,
            StopMotor, Checkpoint, Exchange, ResumeStart, AcquireTransfer, QuerySource,
            QueryDestination, Reprepare, Abort, Rollback, Complete, Fail, Awaiting,
            ExchangeLost, ReprepareLost, AbortLost, RollbackLost, At
      <4>3. CASE Recover(t)
        BY <4>1, <4>3 DEF Recover, Submit, TypeOK
      <4> QED BY <1>4, <4>2, <4>3
    <3> QED BY <1>1, <3>1, SameRouteStep
  <2>2. ASSUME NEW i \in UnderWay', NEW j \in UnderWay' PROVE Fit(i, j)
    <3>1. PICK k \in UnderWay : k.src = i.src /\ k.dst = i.dst
      BY <2>1
    <3>2. PICK l \in UnderWay : l.src = j.src /\ l.dst = j.dst
      BY <2>1
    <3> QED BY <3>1, <3>2 DEF RoutesFit, Fit, SameRoute, Apart
  <2>3. ASSUME NEW j \in UnderWay' PROVE BridgeOf(j.src) # BridgeOf(j.dst)
    <3>1. PICK i \in UnderWay : i.src = j.src /\ i.dst = j.dst
      BY <2>1
    <3> QED BY <3>1 DEF RoutesFit
  <2> QED BY <1>2, <2>2, <2>3 DEF RoutesFit, Fit
<1> QED BY <1>3, <1>4 DEF OrderlyMove, OrderlyStart

\* Two moves under way that share a source bridge or a slot are the same one.
LEMMA SameMove ==
    ASSUME RoutesFit, NEW i \in UnderWay, NEW j \in UnderWay,
           \/ BridgeOf(i.src) = BridgeOf(j.src)
           \/ i.src = j.src \/ i.dst = j.dst
    PROVE  i.src = j.src /\ i.dst = j.dst
  BY DEF RoutesFit, SameRoute, Apart

LEMMA JobUnderWay ==
    ASSUME NEW t \in Tasks, job[t] \in Transfer
    PROVE  job[t] \in UnderWay /\ job[t].src \in Places /\ job[t].dst \in Places
  BY NoneIsNoValue DEF UnderWay, Transfer

LEMMA JournalUnderWay ==
    ASSUME NEW b \in Bridges, journal[b] # None
    PROVE  journal[b] \in UnderWay
  BY DEF UnderWay

-----------------------------------------------------------------------------
(* What a step does to the slots: at most one command, with what its sender knew *)

Archives(t) ==
    /\ fw[job[t].src] = Active(fw[job[t].src].id)
    /\ fw[job[t].src].id # None
    /\ \E k \in FreshTokens :
          fw' = [fw EXCEPT ![job[t].src] = Archived(fw[job[t].src].id, k)]

Imports(t) ==
    /\ pc[t] = "exchange" /\ job[t].phase = "prepared"
    /\ FwImport(job[t].dst, job[t].backup, job[t].token)

Activates(t) == FwActivate(job[t].dst, job[t].token)

Commits(t) == FwCommit(job[t].src, job[t].token)

Finalizes(t) ==
    /\ pc[t] = "exchange" /\ job[t].phase = "committed"
    /\ FwFinalize(job[t].dst, job[t].token)

Aborts(t) == FwAbort(job[t].dst, job[t].token)

RollsBack(t) == pc[t] = "rollback" /\ FwRollback(job[t].src, job[t].token)

LEMMA Commands ==
    ASSUME LocalsHeld, NEW t \in Tasks, Step(t)
    PROVE  \/ UNCHANGED fw
           \/ /\ job[t] \in Transfer
              /\ \/ Archives(t)
                 \/ /\ LockedCommand(t)
                    /\ \/ Imports(t) \/ Activates(t) \/ Commits(t) \/ Finalizes(t)
                       \/ Aborts(t) \/ RollsBack(t)
<1>1. CASE Prepares(t)
  BY <1>1, CommandsHaveJobs DEF Prepares, FwPrepare, Archives
<1>2. CASE LockedCommand(t)
  BY <1>2, CommandsHaveJobs
  DEF LockedCommand, Execute, Imports, Activates, Commits, Finalizes, Aborts, RollsBack
<1> QED BY <1>1, <1>2, FirmwareStep

\* A fresh token is no slot's.
LEMMA FreshSlots ==
    ASSUME NEW k \in FreshTokens, NEW p \in Places
    PROVE  fw[p].token # k
  BY DEF FreshTokens, TokensInUse

\* The slot a command changes, before and after; the others do not change.
Moved(c, old, new) ==
    /\ c \in Places /\ fw[c] = old /\ fw'[c] = new
    /\ \A p \in Places \ {c} : fw'[p] = fw[p]

LEMMA MovesOne ==
    ASSUME TypeOK, SlotShape, BackupsBacked, NEW t \in Tasks, job[t] \in Transfer
    PROVE  /\ Archives(t) => \E s \in Shutters, k \in FreshTokens :
                                Moved(job[t].src, Active(s), Archived(s, k))
           /\ Imports(t) => \E s \in Shutters, k \in Tokens :
                                /\ Moved(job[t].dst, Empty, Imported(s, k))
                                /\ s = job[t].backup /\ k = job[t].token
           /\ Activates(t) => \E s \in Shutters, k \in Tokens :
                                Moved(job[t].dst, Imported(s, k), Activated(s, k))
           /\ Commits(t) => \E s \in Shutters, k \in Tokens :
                                Moved(job[t].src, Archived(s, k), Empty)
           /\ Finalizes(t) => \E s \in Shutters, k \in Tokens :
                                Moved(job[t].dst, Activated(s, k), Active(s))
           /\ Aborts(t) => \E s \in Shutters, k \in Tokens :
                                Moved(job[t].dst, Imported(s, k), Empty)
           /\ RollsBack(t) => \E s \in Shutters, k \in Tokens :
                                Moved(job[t].src, Archived(s, k), Active(s))
<1> DEFINE src == job[t].src
           dst == job[t].dst
<1>0. src \in Places /\ dst \in Places
  BY DEF Transfer
<1>1. ASSUME Archives(t)
      PROVE  \E s \in Shutters, k \in FreshTokens : Moved(src, Active(s), Archived(s, k))
  <2>1. fw[src].id \in Shutters
    BY <1>0, <1>1 DEF Archives, TypeOK, SlotStates
  <2> QED BY <1>0, <1>1, <2>1 DEF Archives, Moved, TypeOK
<1>2. ASSUME Imports(t)
      PROVE  /\ job[t].backup \in Shutters /\ job[t].token \in Tokens
             /\ Moved(dst, Empty, Imported(job[t].backup, job[t].token))
  <2>1. job[t].backup \in Shutters /\ job[t].token \in Tokens
    BY <1>2, NoneIsNoValue DEF Imports, FwImport, BackupsBacked, Backed, Transfer
  <2> QED BY <1>0, <1>2, <2>1 DEF Imports, FwImport, Moved, TypeOK
<1>3. ASSUME Activates(t) \/ Aborts(t)
      PROVE  \E s \in Shutters, k \in Tokens :
                /\ Activates(t) => Moved(dst, Imported(s, k), Activated(s, k))
                /\ Aborts(t) => Moved(dst, Imported(s, k), Empty)
  <2>1. fw[dst] = Imported(fw[dst].id, job[t].token)
    BY <1>3 DEF Activates, Aborts, FwActivate, FwAbort
  <2>2. fw[dst].role = "destination" /\ fw[dst].token = job[t].token
    BY <2>1 DEF Imported
  <2>3. fw[dst].id \in Shutters /\ job[t].token \in Tokens
    BY <1>0, <2>2, RoleShape, DestinationShape
  <2>4. /\ Activates(t) => Moved(dst, Imported(fw[dst].id, job[t].token),
                                      Activated(fw[dst].id, job[t].token))
        /\ Aborts(t) => Moved(dst, Imported(fw[dst].id, job[t].token), Empty)
    BY <1>0, <2>1 DEF Activates, Aborts, FwActivate, FwAbort, Moved, TypeOK
  <2> QED BY <2>3, <2>4
<1>4. ASSUME Commits(t) \/ RollsBack(t)
      PROVE  \E s \in Shutters, k \in Tokens :
                /\ Commits(t) => Moved(src, Archived(s, k), Empty)
                /\ RollsBack(t) => Moved(src, Archived(s, k), Active(s))
  <2>1. fw[src] = Archived(fw[src].id, job[t].token)
    BY <1>4 DEF Commits, RollsBack, FwCommit, FwRollback
  <2>2. fw[src].role = "source" /\ fw[src].token = job[t].token
    BY <2>1 DEF Archived
  <2>3. fw[src].id \in Shutters /\ job[t].token \in Tokens
    BY <1>0, <2>2, RoleShape, DestinationShape
  <2>4. /\ Commits(t) => Moved(src, Archived(fw[src].id, job[t].token), Empty)
        /\ RollsBack(t) => Moved(src, Archived(fw[src].id, job[t].token),
                                      Active(fw[src].id))
    BY <1>0, <2>1 DEF Commits, RollsBack, FwCommit, FwRollback, Moved, TypeOK
  <2> QED BY <2>3, <2>4
<1>5. ASSUME Finalizes(t)
      PROVE  \E s \in Shutters, k \in Tokens : Moved(dst, Activated(s, k), Active(s))
  <2>1. fw[dst] = Activated(fw[dst].id, job[t].token)
    BY <1>5 DEF Finalizes, FwFinalize
  <2>2. fw[dst].role = "destination" /\ fw[dst].token = job[t].token
    BY <2>1 DEF Activated
  <2>3. fw[dst].id \in Shutters /\ job[t].token \in Tokens
    BY <1>0, <2>2, RoleShape, DestinationShape
  <2>4. Moved(dst, Activated(fw[dst].id, job[t].token), Active(fw[dst].id))
    BY <1>0, <1>5, <2>1 DEF Finalizes, FwFinalize, Moved, TypeOK
  <2> QED BY <2>3, <2>4
<1> QED BY <1>1, <1>2, <1>3, <1>4, <1>5

\* The slots' roles and tokens, without their shapes.
LEMMA Shapes ==
    /\ Empty.id = None /\ Empty.role = "none" /\ Empty.phase = "empty" /\ Empty.token = None
    /\ \A s : /\ Active(s).id = s /\ Active(s).role = "none"
              /\ Active(s).phase = "active" /\ Active(s).token = None
    /\ \A s, k :
          /\ Archived(s, k).id = s /\ Archived(s, k).role = "source"
          /\ Archived(s, k).phase = "archived" /\ Archived(s, k).token = k
          /\ Imported(s, k).id = s /\ Imported(s, k).role = "destination"
          /\ Imported(s, k).phase = "archived" /\ Imported(s, k).token = k
          /\ Activated(s, k).id = s /\ Activated(s, k).role = "destination"
          /\ Activated(s, k).phase = "active" /\ Activated(s, k).token = k
  BY DEF Empty, Active, Archived, Imported, Activated

-----------------------------------------------------------------------------
(* The copies of an identity *)

\* What CopiesFit says of two slots of the firmware f.
CopyFits(f, p, q) ==
    f[p].id = f[q].id /\ f[p].id # None =>
        /\ {f[p].role, f[q].role} = {"source", "destination"}
        /\ f[p].token = f[q].token

\* The source that is archived for a destination is the source of its move.
LEMMA ArchivedFor ==
    ASSUME RoutesFit, DestinationJournaled, NEW t \in Tasks, job[t] \in Transfer,
           NEW p \in Places, NEW q \in Places,
           fw[p].role = "source", fw[q].role = "destination", fw[p].token = fw[q].token,
           p = job[t].src \/ q = job[t].dst
    PROVE  p = job[t].src /\ q = job[t].dst
<1>1. PICK b \in Bridges : journal[b] # None /\ journal[b].dst = q /\ journal[b].src = p
  BY DEF DestinationJournaled
<1>2. job[t] \in UnderWay /\ journal[b] \in UnderWay
  BY <1>1, JobUnderWay, JournalUnderWay
<1> QED BY <1>1, <1>2, SameMove

\* An import meets no other copy of the identity than the archived source.
LEMMA ImportFits ==
    ASSUME TypeOK, SlotShape, RoutesFit, DestinationJournaled, CopiesFit, TokenBinds,
           ImportProved, NEW t \in Tasks, job[t] \in Transfer, Imports(t),
           NEW s \in Shutters, NEW k \in Tokens, s = job[t].backup, k = job[t].token,
           Moved(job[t].dst, Empty, Imported(s, k)),
           NEW q \in Places \ {job[t].dst}
    PROVE  /\ fw[q].id = s => q = job[t].src
           /\ fw[q].role = "source" /\ fw[q].token = k => q = job[t].src
           /\ fw[job[t].src] = Archived(s, k)
<1> DEFINE src == job[t].src
           dst == job[t].dst
<1>1. src \in Places /\ dst \in Places
  BY DEF Transfer
<1>2. fw[src].role = "source" /\ fw[src].token = k
  BY DEF ImportProved, Imports, Stepping
<1>3. PICK r \in Shutters, l \in Tokens : fw[src] = Archived(r, l)
  BY <1>1, <1>2, RoleShape
<1>4. l = k /\ fw[src].id = r
  BY <1>2, <1>3, Shapes
<1>5. Bound(k, s) /\ Bound(k, r)
  <2>1. job[t] # None
    BY NoneIsNoValue
  <2> QED BY <1>1, <1>2, <1>4, <2>1 DEF Bound, Names
<1>6. r = s
  BY <1>5 DEF TokenBinds
<1>7. fw[dst].role = "none"
  BY Shapes DEF Moved
<1>8. ASSUME fw[q].id = s, q # src PROVE FALSE
  <2>1. {fw[q].role, fw[src].role} = {"source", "destination"} /\ fw[q].token = fw[src].token
    BY <1>1, <1>4, <1>6, <1>8, NoneIsNoValue DEF CopiesFit
  <2>2. fw[q].role = "destination"
    BY <1>2, <2>1
  <2>3. q = dst
    BY <1>1, <1>2, <2>1, <2>2, ArchivedFor
  <2> QED BY <2>3
<1>9. ASSUME fw[q].role = "source", fw[q].token = k, q # src PROVE FALSE
  <2>1. fw[q].id \in Shutters
    BY <1>9, RoleShape
  <2>2. Bound(k, fw[q].id)
    BY <1>9 DEF Bound
  <2>3. fw[q].id = s
    BY <1>5, <2>1, <2>2 DEF TokenBinds
  <2> QED BY <1>8, <1>9, <2>3
<1> QED BY <1>3, <1>4, <1>6, <1>8, <1>9

LEMMA CopiesStep ==
    ASSUME TypeOK, SlotShape, LocalsHeld, BackupsBacked, TokenBinds, OwnerInv,
           NEW t \in Tasks, Step(t)
    PROVE  CopiesFit'
<1> USE DEF OwnerInv
<1>1. CASE UNCHANGED fw
  BY <1>1 DEF CopiesFit
<1>2. ASSUME NEW c \in Places, \A p \in Places \ {c} : fw'[p] = fw[p],
             \A q \in Places \ {c} : CopyFits(fw', c, q)
      PROVE  CopiesFit'
  <2> SUFFICES ASSUME NEW p \in Places, NEW q \in Places, p # q PROVE CopyFits(fw', p, q)
    BY DEF CopiesFit, CopyFits
  <2>1. CASE p = c \/ q = c
    BY <1>2, <2>1 DEF CopyFits
  <2>2. CASE p # c /\ q # c
    BY <1>2, <2>2 DEF CopiesFit, CopyFits
  <2> QED BY <2>1, <2>2
<1> DEFINE src == job[t].src
           dst == job[t].dst
<1>3. ASSUME job[t] \in Transfer, Archives(t)
      PROVE  CopiesFit'
  <2>1. PICK s \in Shutters, k \in FreshTokens : Moved(src, Active(s), Archived(s, k))
    BY <1>3, MovesOne
  <2>2. ASSUME NEW q \in Places \ {src} PROVE fw[q].id # s
    <3>1. fw[src].id = s /\ fw[src].role = "none" /\ s # None /\ src \in Places
      BY <2>1, Shapes, NoneIsNoValue DEF Moved
    <3> QED
      BY <2>2, <3>1 DEF CopiesFit
  <2>3. ASSUME NEW q \in Places \ {src} PROVE CopyFits(fw', src, q)
    BY <2>1, <2>2, <2>3, Shapes DEF CopyFits, Moved
  <2> QED BY <1>2, <2>1, <2>3 DEF Moved
<1>4. ASSUME job[t] \in Transfer, Imports(t)
      PROVE  CopiesFit'
  <2>1. PICK s \in Shutters, k \in Tokens :
           /\ Moved(dst, Empty, Imported(s, k))
           /\ s = job[t].backup /\ k = job[t].token
    BY <1>4, MovesOne
  <2>2. ASSUME NEW q \in Places \ {dst}, fw[q].id = s
        PROVE  fw[q].role = "source" /\ fw[q].token = k
    BY <1>4, <2>1, <2>2, ImportFits, Shapes
  <2>3. ASSUME NEW q \in Places \ {dst} PROVE CopyFits(fw', dst, q)
    BY <2>1, <2>2, <2>3, Shapes DEF CopyFits, Moved
  <2> QED BY <1>2, <2>1, <2>3 DEF Moved
<1>5. ASSUME job[t] \in Transfer, Activates(t)
      PROVE  CopiesFit'
  <2>1. PICK s \in Shutters, k \in Tokens : Moved(dst, Imported(s, k), Activated(s, k))
    BY <1>5, MovesOne
  <2>2. ASSUME NEW q \in Places \ {dst} PROVE CopyFits(fw', dst, q)
    <3>1. CopyFits(fw, dst, q)
      BY <2>1, <2>2 DEF CopiesFit, CopyFits, Moved
    <3> QED BY <2>1, <2>2, <3>1, Shapes DEF CopyFits, Moved
  <2> QED BY <1>2, <2>1, <2>2 DEF Moved
<1>6. ASSUME job[t] \in Transfer, Commits(t) \/ Aborts(t)
      PROVE  CopiesFit'
  <2>1. PICK c, old : Moved(c, old, Empty)
    BY <1>6, MovesOne DEF Moved
  <2>2. ASSUME NEW q \in Places \ {c} PROVE CopyFits(fw', c, q)
    BY <2>1, Shapes DEF CopyFits, Moved
  <2> QED BY <1>2, <2>1, <2>2 DEF Moved
<1>7. ASSUME job[t] \in Transfer, Finalizes(t)
      PROVE  CopiesFit'
  <2>1. PICK s \in Shutters, k \in Tokens : Moved(dst, Activated(s, k), Active(s))
    BY <1>7, MovesOne
  <2>2. fw[src] = Empty
    BY <1>7 DEF Finalizes, FinalizeProved, Stepping
  <2>3. ASSUME NEW q \in Places \ {dst} PROVE fw[q].id # s
    <3> SUFFICES ASSUME fw[q].id = s PROVE FALSE
      OBVIOUS
    <3>1. fw[q].role = "source" /\ fw[q].token = fw[dst].token /\ fw[dst].role = "destination"
      <4>1. fw[dst].role = "destination" /\ fw[dst].id = s
        BY <2>1, Shapes DEF Moved
      <4>2. /\ {fw[q].role, fw[dst].role} = {"source", "destination"}
            /\ fw[q].token = fw[dst].token
        BY <2>1, <2>3, <4>1, NoneIsNoValue DEF CopiesFit, Moved
      <4> QED BY <4>1, <4>2
    <3>2. q = src
      BY <1>7, <2>1, <3>1, ArchivedFor DEF Moved
    <3> QED BY <2>2, <3>1, <3>2, Shapes
  <2>4. ASSUME NEW q \in Places \ {dst} PROVE CopyFits(fw', dst, q)
    BY <2>1, <2>3, Shapes DEF CopyFits, Moved
  <2> QED BY <1>2, <2>1, <2>4 DEF Moved
<1>8. ASSUME job[t] \in Transfer, RollsBack(t)
      PROVE  CopiesFit'
  <2>1. PICK s \in Shutters, k \in Tokens : Moved(src, Archived(s, k), Active(s))
    BY <1>8, MovesOne
  <2>2. fw[dst].role # "destination"
    BY <1>8 DEF RollsBack, RollbackProved
  <2>3. ASSUME NEW q \in Places \ {src} PROVE fw[q].id # s
    <3> SUFFICES ASSUME fw[q].id = s PROVE FALSE
      OBVIOUS
    <3>1. fw[q].role = "destination" /\ fw[q].token = fw[src].token /\ fw[src].role = "source"
      <4>1. fw[src].role = "source" /\ fw[src].id = s
        BY <2>1, Shapes DEF Moved
      <4>2. /\ {fw[q].role, fw[src].role} = {"source", "destination"}
            /\ fw[q].token = fw[src].token
        BY <2>1, <2>3, <4>1, NoneIsNoValue DEF CopiesFit, Moved
      <4> QED BY <4>1, <4>2
    <3>2. q = dst
      BY <1>8, <2>1, <3>1, ArchivedFor DEF Moved
    <3> QED BY <2>2, <3>1, <3>2
  <2>4. ASSUME NEW q \in Places \ {src} PROVE CopyFits(fw', src, q)
    BY <2>1, <2>3, Shapes DEF CopyFits, Moved
  <2> QED BY <1>2, <2>1, <2>4 DEF Moved
<1> QED BY <1>1, <1>3, <1>4, <1>5, <1>6, <1>7, <1>8, Commands

-----------------------------------------------------------------------------
(* The journal of a destination stays *)

LEMMA JournalKept ==
    ASSUME TypeOK, SlotShape, LocalsHeld, Control, OwnerInv, NEW t \in Tasks, Step(t),
           NEW b \in Bridges, journal[b] # None,
           fw'[journal[b].dst].role = "destination"
    PROVE  /\ journal'[b] # None
           /\ journal'[b].src = journal[b].src /\ journal'[b].dst = journal[b].dst
<1>1. CASE journal'[b] = journal[b]
  BY <1>1
<1>2. CASE journal'[b] # journal[b]
  <2>1. job[t] \in Transfer /\ (Writes(t) \/ Clears(t)) /\ BridgeOf(job[t].src) = b
    <3>1. job[t] \in Transfer /\ (Writes(t) \/ Clears(t))
      BY <1>2, JournalStep DEF OwnerInv
    <3> QED BY <1>2, <3>1 DEF Writes, Clears, TypeOK
  <2>2. job[t].src = journal[b].src /\ job[t].dst = journal[b].dst
    <3>1. BridgeOf(journal[b].src) = b
      BY DEF OwnerInv, RoutesFit
    <3> QED BY <2>1, <3>1, JobUnderWay, JournalUnderWay, SameMove DEF OwnerInv
  <2>3. Writes(t)
    BY <2>1, <2>2 DEF Clears
  <2> QED BY <2>1, <2>2, <2>3 DEF Writes, TypeOK
<1> QED BY <1>1, <1>2

Journaled(q) ==
    \E b \in Bridges :
        /\ journal[b] # None
        /\ journal[b].dst = q
        /\ \A p \in Places :
              fw[p].role = "source" /\ fw[p].token = fw[q].token => journal[b].src = p

LEMMA DestinationStep ==
    ASSUME TypeOK, SlotShape, LocalsHeld, Control, BackupsBacked, TokenBinds, OwnerInv,
           NEW t \in Tasks, Step(t)
    PROVE  DestinationJournaled'
<1> SUFFICES ASSUME NEW q \in Places, fw'[q].role = "destination"
             PROVE  Journaled(q)'
  BY DEF DestinationJournaled, Journaled
<1>1. ASSUME fw[q].role = "destination", fw[q].token = fw'[q].token,
             \A p \in Places : fw'[p].role = "source" /\ fw'[p].token = fw[q].token
                => fw[p].role = "source" /\ fw[p].token = fw[q].token
      PROVE  Journaled(q)'
  <2>1. PICK b \in Bridges :
           /\ journal[b] # None
           /\ journal[b].dst = q
           /\ \A p \in Places : fw[p].role = "source" /\ fw[p].token = fw[q].token
                 => journal[b].src = p
    BY <1>1 DEF OwnerInv, DestinationJournaled
  <2>2. /\ journal'[b] # None
        /\ journal'[b].src = journal[b].src /\ journal'[b].dst = q
    BY <2>1, JournalKept
  <2> QED BY <1>1, <2>1, <2>2 DEF Journaled
<1>2. CASE UNCHANGED fw
  BY <1>1, <1>2
<1>3. ASSUME NEW c, NEW old, NEW new, Moved(c, old, new), new.role = "none"
      PROVE  Journaled(q)'
  <2>1. \A p \in Places : fw'[p].role # "none" => fw'[p] = fw[p]
    BY <1>3 DEF Moved
  <2> QED BY <1>1, <2>1
<1>4. ASSUME job[t] \in Transfer, Archives(t)
      PROVE  Journaled(q)'
  <2>1. PICK c \in Places, s \in Shutters, k \in FreshTokens :
           Moved(c, Active(s), Archived(s, k))
    BY <1>4, MovesOne DEF Moved
  <2>2. q # c /\ fw'[q] = fw[q]
    BY <2>1, Shapes DEF Moved
  <2>3. ASSUME NEW p \in Places, fw'[p].token = fw[q].token PROVE fw'[p] = fw[p]
    <3>1. fw[q].token # k
      BY <2>1, FreshSlots
    <3> QED BY <2>1, <2>3, <3>1, Shapes DEF Moved
  <2> QED BY <1>1, <2>2, <2>3
<1>5. ASSUME job[t] \in Transfer, Activates(t)
      PROVE  Journaled(q)'
  <2>1. PICK c \in Places, s \in Shutters, k \in Tokens :
           Moved(c, Imported(s, k), Activated(s, k))
    BY <1>5, MovesOne DEF Moved
  <2>2. \A p \in Places : fw'[p].role = fw[p].role /\ fw'[p].token = fw[p].token
    BY <2>1, Shapes DEF Moved
  <2> QED BY <1>1, <2>2
<1>6. ASSUME job[t] \in Transfer, Imports(t), LockedCommand(t)
      PROVE  Journaled(q)'
  <2>1. PICK c \in Places, s \in Shutters, k \in Tokens :
           /\ Moved(c, Empty, Imported(s, k)) /\ c = job[t].dst
           /\ s = job[t].backup /\ k = job[t].token
    BY <1>6, MovesOne DEF Moved
  <2>2. CASE q # c
    <3>1. \A p \in Places : fw'[p].role = "source" => fw'[p] = fw[p]
      BY <2>1, Shapes DEF Moved
    <3>2. fw'[q] = fw[q]
      BY <2>1, <2>2 DEF Moved
    <3> QED BY <1>1, <3>1, <3>2
  <2>3. CASE q = c
    <3> DEFINE b == BridgeOf(job[t].src)
    <3>1. b \in Bridges /\ op[t] # "start" /\ pc[t] \in Stepping
      BY <1>6 DEF Transfer, Places, BridgeOf, Imports, Control, StartPrepares, Stepping
    <3>2. journal[b] # None
      BY <3>1 DEF OwnerInv, SteppingJournaled
    <3>3. journal[b].src = job[t].src /\ journal[b].dst = q
      <4>1. BridgeOf(journal[b].src) = b
        BY <3>1, <3>2 DEF OwnerInv, RoutesFit
      <4> QED BY <1>6, <2>1, <2>3, <3>1, <3>2, <4>1, JobUnderWay, JournalUnderWay, SameMove
              DEF OwnerInv
    <3>4. /\ journal'[b] # None
          /\ journal'[b].src = job[t].src /\ journal'[b].dst = q
      BY <3>1, <3>2, <3>3, JournalKept
    <3>5. ASSUME NEW p \in Places, fw'[p].role = "source", fw'[p].token = fw'[q].token
          PROVE  p = job[t].src
      <4>1. p # c /\ fw'[p] = fw[p] /\ fw'[q].token = k
        BY <2>1, <2>3, <3>5, Shapes DEF Moved
      <4> QED BY <1>6, <2>1, <3>5, <4>1, ImportFits DEF OwnerInv
    <3> QED BY <3>1, <3>4, <3>5 DEF Journaled
  <2> QED BY <2>2, <2>3
<1>7. ASSUME job[t] \in Transfer,
             Commits(t) \/ Finalizes(t) \/ Aborts(t) \/ RollsBack(t)
      PROVE  \E c, old, new : Moved(c, old, new) /\ new.role = "none"
  BY <1>7, MovesOne, Shapes DEF Moved
<1> QED BY <1>2, <1>3, <1>4, <1>5, <1>6, <1>7, Commands

-----------------------------------------------------------------------------
(* What a task has proof of *)

Informed(t) ==
    /\ op[t] # "start" /\ pc[t] \in Stepping => journal[BridgeOf(job[t].src)] # None
    /\ pc[t] = "query_destination" =>
          \/ seen[t] = fw[job[t].src]
          \/ seen[t].role = "none" /\ seen[t].phase = "active"
    /\ pc[t] \in Stepping /\ job[t].phase = "prepared"
          => fw[job[t].src].role = "source" /\ fw[job[t].src].token = job[t].token
    /\ pc[t] \in Stepping /\ job[t].phase = "committed" => fw[job[t].src] = Empty
    /\ pc[t] = "rollback" \/ (pc[t] = "reprepare" /\ job[t].phase = "prepared")
          => fw[job[t].dst].role # "destination"

TasksInformed ==
    SteppingJournaled /\ SourceSeen /\ ImportProved /\ FinalizeProved /\ RollbackProved

LEMMA InformedIs ==
    /\ TasksInformed <=> \A t \in Tasks : Informed(t)
    /\ TasksInformed' <=> \A t \in Tasks : Informed(t)'
  BY DEF TasksInformed, Informed, SteppingJournaled, SourceSeen, ImportProved,
         FinalizeProved, RollbackProved

\* Whoever has such proof holds _transfer_lock, and nobody can refute it meanwhile.
LEMMA OthersStayInformed ==
    ASSUME TypeOK, SlotShape, LocalsHeld, Control, BackupsBacked, OwnerInv,
           NEW t \in Tasks, Step(t), NEW u \in Tasks \ {t}
    PROVE  Informed(u)'
<1>1. pc'[u] = pc[u] /\ job'[u] = job[u] /\ op'[u] = op[u] /\ seen'[u] = seen[u]
  BY OthersUnchanged
<1>2. Informed(u)
  BY InformedIs DEF OwnerInv, TasksInformed
<1>3. CASE ~ \/ pc[u] \in {"query_destination", "rollback", "reprepare"}
             \/ pc[u] \in Stepping /\ op[u] # "start"
  <2>1. ~(pc[u] \in Stepping /\ job[u].phase \in {"prepared", "committed"})
    BY <1>3 DEF Control, StartPrepares, Stepping
  <2> QED BY <1>1, <1>3, <2>1 DEF Informed
<1>4. CASE \/ pc[u] \in {"query_destination", "rollback", "reprepare"}
           \/ pc[u] \in Stepping /\ op[u] # "start"
  <2>1. transferLock = u /\ job[u] \in Transfer /\ seen[u] = seen'[u]
    BY <1>1, <1>4 DEF Control, LockHeld, LocalsHeld, Locked, Stepping
  <2>2. job[u].src \in Places /\ job[u].dst \in Places /\ BridgeOf(job[u].src) \in Bridges
    BY <2>1 DEF Transfer, Places, BridgeOf
  <2>3. pc[u] \in Stepping /\ op[u] # "start" => journal'[BridgeOf(job[u].src)] # None
    <3>1. ~Clears(t)
      BY <2>1 DEF Clears, Control, LockHeld
    <3> QED BY <1>2, <2>2, <3>1, JournalStep DEF OwnerInv, Informed, Writes, TypeOK
  <2>4. UNCHANGED fw \/ \E c, s, k : Moved(c, Active(s), Archived(s, k))
    <3>1. ~LockedCommand(t)
      BY <2>1, CommandLocked
    <3> QED BY <3>1, Commands, MovesOne DEF Moved
  <2>5. CASE UNCHANGED fw
    BY <1>1, <1>2, <2>3, <2>5 DEF Informed
  <2>6. CASE \E c, s, k : Moved(c, Active(s), Archived(s, k))
    <3>1. ASSUME NEW p \in Places
          PROVE  /\ fw[p].role = "source" => fw'[p] = fw[p]
                 /\ fw[p] = Empty => fw'[p] = Empty
                 /\ fw'[p] # fw[p] => fw[p].role = "none" /\ fw[p].phase = "active"
                 /\ fw[p].role # "destination" => fw'[p].role # "destination"
      BY <2>6, Shapes DEF Moved
    <3> QED BY <1>1, <1>2, <2>2, <2>3, <3>1 DEF Informed
  <2> QED BY <2>4, <2>5, <2>6
<1> QED BY <1>3, <1>4

\* The steps that bring a task to a stage where it has to have proof.
LEMMA Arrivals ==
    ASSUME TypeOK, LocalsHeld, Control, NEW t \in Tasks, Step(t),
           pc'[t] \in Stepping \cup {"query_destination", "rollback", "reprepare"}
    PROVE  \/ StopMotor(t) \/ Checkpoint(t) \/ Exchange(t) \/ QuerySource(t)
           \/ QueryDestination(t) \/ Reprepare(t) \/ Abort(t)
<1>1. ~Finished(t)
  BY DEF Finished, TypeOK, Stepping
<1>2. CASE Fail(t) \/ RejectStart(t) \/ ExchangeLost(t) \/ ReprepareLost(t)
           \/ AbortLost(t) \/ RollbackLost(t) \/ Rollback(t) \/ Complete(t)
  BY <1>1, <1>2 DEF Fail, RejectStart, ExchangeLost, ReprepareLost, AbortLost,
                    RollbackLost, Rollback, Clear, Complete, Finish
<1>3. CASE \/ Start(t) \/ Recover(t) \/ AcquireStart(t) \/ ResumeStart(t)
           \/ EnsureDestinationEmpty(t) \/ AcquireTransfer(t)
  BY <1>3 DEF Start, SubmitStart, Recover, Submit, AcquireStart, ResumeStart,
              EnterTransferLock, EnsureDestinationEmpty, AcquireTransfer, GoTo,
              TypeOK, Stepping
<1> QED BY <1>2, <1>3 DEF Step, Progress, Interrupted

LEMMA ReconciledInformed ==
    ASSUME TypeOK, NEW t \in Tasks, NEW j \in Transfer,
           AfterReconcile(t, j), pc'[t] # "idle",
           j.phase = "prepared" => /\ fw'[j.src].role = "source"
                                   /\ fw'[j.src].token = j.token
                                   /\ fw'[j.dst].role # "destination",
           j.phase = "committed" => fw'[j.src] = Empty
    PROVE  Informed(t)'
<1>1. ~Finished(t)
  BY DEF Finished, TypeOK
<1>2. CASE Await(t, j, "exchange") /\ SetPendingTransfer(j)
  <2>1. job'[t] = j /\ pc'[t] = "exchange"
    BY <1>2 DEF Await, Learn, GoTo, TypeOK
  <2>2. journal'[BridgeOf(j.src)] # None
    <3>1. BridgeOf(j.src) \in Bridges
      BY DEF Transfer, Places, BridgeOf
    <3> QED BY <1>2, <3>1, NoneIsNoValue DEF SetPendingTransfer, TypeOK
  <2> QED BY <2>1, <2>2 DEF Informed, Stepping
<1>3. CASE j.phase = "prepared" /\ Await(t, j, "rollback")
  <2>1. job'[t] = j /\ pc'[t] = "rollback"
    BY <1>3 DEF Await, Learn, GoTo, TypeOK
  <2> QED BY <1>3, <2>1 DEF Informed, Stepping
<1>4. CASE Await(t, j, "abort")
  <2>1. pc'[t] = "abort"
    BY <1>4 DEF Await, GoTo, TypeOK
  <2> QED BY <2>1 DEF Informed, Stepping
<1> QED BY <1>1, <1>2, <1>3, <1>4, ReconcileDoes

LEMMA StaysInformed ==
    ASSUME TypeOK, SlotShape, LocalsHeld, Control, BackupsBacked, OwnerInv,
           NEW t \in Tasks, Step(t)
    PROVE  Informed(t)'
<1> DEFINE src == job[t].src
<1>1. CASE pc'[t] \notin Stepping \cup {"query_destination", "rollback", "reprepare"}
  BY <1>1 DEF Informed
<1>2. CASE StopMotor(t)
  <2>1. /\ pc'[t] = "checkpoint" /\ job'[t] = job[t] /\ op'[t] = "start"
        /\ job[t].phase = "preparing"
    BY <1>2 DEF StopMotor, At, GoTo, TypeOK, Control, OperationFits, StartPrepares
  <2> QED BY <2>1 DEF Informed
<1>3. CASE Checkpoint(t)
  <2>1. /\ pc[t] \in Stepping /\ pc'[t] = "exchange" /\ UNCHANGED <<job, fw, op>>
        /\ journal' = [journal EXCEPT ![BridgeOf(src)] = job[t]]
        /\ job[t] \in Transfer /\ BridgeOf(src) \in Bridges
    BY <1>3 DEF Checkpoint, At, GoTo, TypeOK, SetPendingTransfer, Stepping, LocalsHeld,
                Transfer, Places, BridgeOf
  <2>2. journal'[BridgeOf(src)] # None
    BY <2>1, NoneIsNoValue DEF TypeOK
  <2>3. Informed(t)
    BY InformedIs DEF OwnerInv, TasksInformed
  <2> QED BY <2>1, <2>2, <2>3 DEF Informed, Stepping
<1>4. CASE Exchange(t)
  <2>1. PICK next \in Phases :
           /\ Execute(job[t], next)
           /\ job' = [job EXCEPT ![t] = Replied(job[t], next)]
           /\ SetPendingTransfer(Replied(job[t], next))
           /\ AfterReply(t, Replied(job[t], next))
    BY <1>4 DEF Exchange, Learn
  <2> DEFINE j == Replied(job[t], next)
  <2>2. job[t] \in Transfer /\ src \in Places /\ BridgeOf(src) \in Bridges
    BY <1>4 DEF Exchange, At, LocalsHeld, Transfer, Places, BridgeOf
  <2>3. /\ job'[t] = j /\ j.src = src /\ j.phase = next
        /\ pc'[t] \in {"prepared", "finish", "checkpoint"}
        /\ j # None
    <3>1. job'[t] = j /\ j.src = src /\ j.phase = next
      BY <2>1, <2>2 DEF Replied, Amend, TypeOK
    <3>2. pc'[t] \in {"prepared", "finish", "checkpoint"}
      BY <2>1 DEF AfterReply, GoTo, TypeOK
    <3>3. TypeOK'
      BY <1>4, ExchangeType
    <3>4. pc'[t] # "idle" /\ LocalsHeld'
      BY <1>4, <3>2, ExchangeType
    <3>5. job'[t] # None
      BY <3>4, NoneIsNoValue DEF LocalsHeld
    <3> QED BY <3>1, <3>2, <3>5
  <2>4. journal'[BridgeOf(src)] # None
    BY <2>1, <2>2, <2>3 DEF SetPendingTransfer, TypeOK
  <2>5. next = "prepared" => fw'[src].role = "source" /\ fw'[src].token = j.token
    <3> SUFFICES ASSUME next = "prepared"
                 PROVE  fw'[src].role = "source" /\ fw'[src].token = j.token
      OBVIOUS
    <3>1. FwPrepare(src) /\ job[t].phase = "preparing"
      BY <2>1 DEF Execute
    <3>2. fw'[src].role = "source"
      BY <2>2, <3>1, PrepareShape, Shapes
    <3>3. j.token = fw'[src].token
      BY <3>1 DEF Replied, Amend
    <3> QED BY <3>2, <3>3
  <2>6. next = "committed" => fw'[src] = Empty
    BY <2>1, <2>2 DEF Execute, FwCommit, TypeOK
  <2> HIDE DEF j
  <2> QED BY <2>3, <2>4, <2>5, <2>6 DEF Informed
<1>5. CASE QuerySource(t)
  <2>1. /\ pc'[t] = "query_destination" /\ job'[t] = job[t] /\ seen'[t] = fw[src]
        /\ UNCHANGED fw
    BY <1>5 DEF QuerySource, GoTo, TypeOK
  <2> QED BY <2>1 DEF Informed, Stepping
<1>6. CASE QueryDestination(t)
  <2> DEFINE j == Reconciled(job[t], seen[t], fw[job[t].dst])
  <2>1. /\ UNCHANGED fw
        /\ pc[t] = "query_destination"
        /\ job[t] \in Transfer /\ j \in Transfer
        /\ j.src = job[t].src /\ j.dst = job[t].dst
        /\ j.phase = "prepared" => fw[job[t].dst].role # "destination"
        /\ j.phase = "prepared" => seen[t].role = "source"
        /\ j.phase = "committed" => Gone(seen[t])
        /\ seen[t].token # None => j.token = seen[t].token
        /\ \/ AfterReconcile(t, j)
           \/ /\ Await(t, j, "reprepare") /\ UNCHANGED journal
              /\ j.phase \in {"prepared", "imported"}
    BY <1>6, QueryDoes
  <2> HIDE DEF j
  <2>2. \/ seen[t] = fw[src]
        \/ seen[t].role = "none" /\ seen[t].phase = "active"
    BY <2>1 DEF OwnerInv, SourceSeen
  <2>3. src \in Places
    BY <2>1 DEF Transfer
  <2>4. j.phase = "prepared" => /\ fw'[j.src].role = "source"
                                /\ fw'[j.src].token = j.token
                                /\ fw'[j.dst].role # "destination"
    BY <2>1, <2>2, <2>3, DestinationShape, NoneIsNoValue
  <2>5. j.phase = "committed" => fw'[j.src] = Empty
    BY <2>1, <2>2, <2>3, DestinationShape DEF Gone
  <2>6. CASE AfterReconcile(t, j)
    <3>1. CASE pc'[t] = "idle"
      BY <3>1 DEF Informed, Stepping
    <3> QED BY <2>1, <2>4, <2>5, <2>6, <3>1, ReconciledInformed
  <2>7. CASE Await(t, j, "reprepare")
    <3>1. pc'[t] = "reprepare" /\ job'[t] = j
      BY <2>7 DEF Await, Learn, GoTo, TypeOK
    <3> QED BY <2>4, <3>1 DEF Informed, Stepping
  <2> QED BY <2>1, <2>6, <2>7
<1>7. CASE Reprepare(t)
  <2>1. PICK j \in Transfer :
              /\ FwPrepare(job[t].src) /\ fw'[job[t].src].role = "source"
              /\ pc[t] = "reprepare" /\ job[t] \in Transfer
              /\ j.src = job[t].src /\ j.dst = job[t].dst
              /\ j.phase = job[t].phase /\ j.phase \in {"prepared", "imported"}
              /\ j.token = fw'[job[t].src].token
              /\ AfterReconcile(t, j)
    BY <1>7, ReprepareDoes
  <2>2. j.phase = "prepared" => fw'[j.dst].role # "destination"
    <3>1. j.phase = "prepared" => fw[j.dst].role # "destination"
      BY <2>1 DEF OwnerInv, RollbackProved
    <3>2. fw'[j.dst] = fw[j.dst] \/ (j.dst = job[t].src /\ fw'[j.dst].role = "source")
      BY <2>1 DEF FwPrepare, TypeOK, Transfer
    <3> QED BY <3>1, <3>2
  <2>3. CASE pc'[t] = "idle"
    BY <2>3 DEF Informed, Stepping
  <2> QED BY <2>1, <2>2, <2>3, ReconciledInformed
<1>8. CASE Abort(t)
  <2>1. /\ pc'[t] = "rollback" /\ job'[t] = job[t] /\ FwAbort(job[t].dst, job[t].token)
        /\ job[t].dst \in Places
    BY <1>8 DEF Abort, At, GoTo, TypeOK, LocalsHeld, Transfer
  <2>2. fw'[job[t].dst].role = "none"
    BY <2>1, Shapes DEF FwAbort, TypeOK
  <2> QED BY <2>1, <2>2 DEF Informed, Stepping
<1> QED BY <1>1, <1>2, <1>3, <1>4, <1>5, <1>6, <1>7, <1>8, Arrivals

-----------------------------------------------------------------------------
(* The invariant is inductive *)

\* Before the first move every shutter has one slot, and no slot has a role.
LEMMA InitSlots ==
    ASSUME Init
    PROVE  \E home \in [Shutters -> Places] :
              /\ meta = {[id |-> s, at |-> home[s]] : s \in Shutters}
              /\ \A s \in Shutters : fw[home[s]] = Active(s)
              /\ \A p \in Places :
                    \/ fw[p] = Empty
                    \/ \E s \in Shutters : fw[p] = Active(s) /\ p = home[s]
<1>1. PICK home \in [Shutters -> Places] :
         /\ \A s1, s2 \in Shutters : home[s1] = home[s2] => s1 = s2
         /\ meta = {[id |-> s, at |-> home[s]] : s \in Shutters}
         /\ fw = [p \in Places |->
                    IF \E s \in Shutters : home[s] = p
                    THEN Active(CHOOSE s \in Shutters : home[s] = p)
                    ELSE Empty]
  BY DEF Init
<1>2. ASSUME NEW s \in Shutters
      PROVE  fw[home[s]] = Active(s)
  <2> DEFINE r == CHOOSE q \in Shutters : home[q] = home[s]
  <2>1. r \in Shutters /\ home[r] = home[s]
    OBVIOUS
  <2>2. r = s
    BY <1>1, <2>1
  <2>3. fw[home[s]] = Active(r)
    BY <1>1
  <2> QED BY <2>2, <2>3
<1>3. ASSUME NEW p \in Places
      PROVE  fw[p] = Empty \/ \E s \in Shutters : fw[p] = Active(s) /\ p = home[s]
  <2>1. CASE \E s \in Shutters : home[s] = p
    BY <1>2, <2>1
  <2>2. CASE ~\E s \in Shutters : home[s] = p
    BY <1>1, <2>2
  <2> QED BY <2>1, <2>2
<1> QED BY <1>1, <1>2, <1>3

LEMMA OwnerInit == Init => OwnerInv
<1> SUFFICES ASSUME Init PROVE OwnerInv
  OBVIOUS
<1>1. PICK home \in [Shutters -> Places] :
         \A p \in Places :
            \/ fw[p] = Empty
            \/ \E s \in Shutters : fw[p] = Active(s) /\ p = home[s]
  BY InitSlots
<1>2. \A p \in Places : fw[p].role = "none"
  BY <1>1, Shapes
<1>3. CopiesFit
  BY <1>1, Shapes DEF CopiesFit
<1>4. \A b \in Bridges : journal[b] = None
  BY DEF Init
<1>5. \A t \in Tasks : job[t] = None /\ pc[t] = "idle"
  BY DEF Init
<1>6. UnderWay = {}
  BY <1>4, <1>5 DEF UnderWay
<1> QED BY <1>2, <1>3, <1>4, <1>5, <1>6
        DEF OwnerInv, RoutesFit, DestinationJournaled, SteppingJournaled, SourceSeen,
            ImportProved, FinalizeProved, RollbackProved, Stepping

LEMMA OwnerStep ==
    ASSUME IInv, OwnerInv, NEW t \in Tasks, OrderlyMove(t)
    PROVE  OwnerInv'
<1>1. Step(t)
  BY OrderlyIsStep
<1>2. Control
  BY DEF IInv, Control
<1>3. RoutesFit'
  BY <1>2, RoutesStep DEF IInv, OwnerInv
<1>4. DestinationJournaled'
  BY <1>1, <1>2, DestinationStep DEF IInv
<1>5. CopiesFit'
  BY <1>1, CopiesStep DEF IInv
<1>6. \A u \in Tasks : Informed(u)'
  BY <1>1, <1>2, OthersStayInformed, StaysInformed DEF IInv
<1>7. TasksInformed'
  BY <1>6, InformedIs
<1> QED BY <1>3, <1>4, <1>5, <1>7 DEF OwnerInv, TasksInformed

LEMMA OwnerCrash ==
    ASSUME OwnerInv, Crash
    PROVE  OwnerInv'
<1>1. UNCHANGED <<fw, journal>> /\ \A t \in Tasks : pc'[t] = "idle" /\ job'[t] = None
  BY DEF Crash
<1>2. UnderWay' \subseteq UnderWay
  BY <1>1 DEF UnderWay
<1>3. RoutesFit'
  BY <1>1, <1>2 DEF OwnerInv, RoutesFit
<1>4. DestinationJournaled' /\ CopiesFit'
  BY <1>1 DEF OwnerInv, DestinationJournaled, CopiesFit
<1>5. (SteppingJournaled /\ SourceSeen /\ ImportProved /\ FinalizeProved /\ RollbackProved)'
  BY <1>1 DEF SteppingJournaled, SourceSeen, ImportProved, FinalizeProved,
              RollbackProved, Stepping
<1> QED BY <1>3, <1>4, <1>5 DEF OwnerInv

LEMMA OwnerStutter ==
    ASSUME OwnerInv, UNCHANGED vars
    PROVE  OwnerInv'
  BY DEF vars, OwnerInv, RoutesFit, UnderWay, DestinationJournaled, SteppingJournaled,
         SourceSeen, ImportProved, FinalizeProved, RollbackProved, CopiesFit

\* An orderly user takes only steps of the unrestricted system.
LEMMA OrderlyIsNext ==
    ASSUME OrderlyNext
    PROVE  /\ Next
           /\ Crash \/ \E t \in Tasks : OrderlyMove(t)
<1>1. Crash \/ \E t \in Tasks : OrderlyMove(t)
  BY DEF OrderlyNext, OrderlyStep, OrderlyMove
<1> QED BY <1>1, OrderlyIsStep DEF Next, Step

\* OwnerInv holds of an orderly user's system, however the recoveries, rollbacks
\* and reconciliations race each other and the moves.
THEOREM OwnerInvariance == OrderlySpec => [](IInv /\ OwnerInv)
<1>1. Init => IInv /\ OwnerInv
  BY InitInv, OwnerInit
<1>2. IInv /\ OwnerInv /\ [OrderlyNext]_vars => (IInv /\ OwnerInv)'
  <2> SUFFICES ASSUME IInv, OwnerInv, [OrderlyNext]_vars PROVE (IInv /\ OwnerInv)'
    OBVIOUS
  <2>1. CASE UNCHANGED vars
    BY <2>1, StutterInv, OwnerStutter
  <2>2. CASE OrderlyNext
    BY <2>2, OrderlyIsNext, OrderlyIsStep, StepInv, CrashInv, OwnerStep, OwnerCrash
  <2> QED BY <2>1, <2>2
<1> QED BY <1>1, <1>2, PTL DEF OrderlySpec

LEMMA CopiesFitOwner ==
    ASSUME TypeOK, SlotShape, CopiesFit
    PROVE  SingleOwner
<1> SUFFICES ASSUME NEW p \in Places, NEW q \in Places,
                    fw[p].phase = "active", fw[q].phase = "active",
                    fw[p].id = fw[q].id, p # q
             PROVE  FALSE
  BY DEF SingleOwner
<1>1. fw[p].id # None
  BY DestinationShape, Shapes
<1>2. fw[p].role = "source" \/ fw[q].role = "source"
  BY <1>1 DEF CopiesFit
<1> QED BY <1>2, RoleShape, Shapes

LEMMA SingleOwners ==
    /\ IInv /\ OwnerInv => SingleOwner
    /\ (IInv /\ OwnerInv)' => SingleOwner'
<1>1. IInv /\ OwnerInv => SingleOwner
  BY CopiesFitOwner DEF IInv, OwnerInv
<1> QED BY <1>1, PTL

\* A controller identity has never two slots that may transmit, whichever replies
\* are lost, whichever operations race and whenever Home Assistant dies
\* (async_resume_transfer, async_rollback_transfer, _async_reconcile_transfer).
THEOREM OneOwner == OrderlySpec => []SingleOwner
<1>1. IInv /\ OwnerInv => SingleOwner
  BY CopiesFitOwner DEF IInv, OwnerInv
<1> QED BY <1>1, OwnerInvariance, PTL

-----------------------------------------------------------------------------
(* The promise: the step of Ownership that each command is *)

\* Slot p may transmit as s in the firmware f.
Transmits(f, p, s) == p \in Places /\ f[p].id = s /\ f[p].phase = "active"

OwnerIn(f, s) ==
    IF \E p \in Places : f[p].id = s /\ f[p].phase = "active"
    THEN CHOOSE p \in Places : f[p].id = s /\ f[p].phase = "active"
    ELSE None

CopiesIn(f, s) == {p \in Places : f[p].id = s}

Sole(f, s) == \A p, q \in Places : Transmits(f, p, s) /\ Transmits(f, q, s) => p = q

\* With one owner at most, the chosen one is the one that transmits.
LEMMA OwnerInIs ==
    ASSUME NEW f, NEW s, Sole(f, s)
    PROVE  /\ OwnerIn(f, s) \in Places \cup {None}
           /\ \A p \in Places : OwnerIn(f, s) = p <=> Transmits(f, p, s)
<1> DEFINE P(p) == f[p].id = s /\ f[p].phase = "active"
<1>1. CASE \E p \in Places : P(p)
  <2>1. /\ (CHOOSE p \in Places : P(p)) \in Places
        /\ P(CHOOSE p \in Places : P(p))
    <3> HIDE DEF P
    <3> QED BY <1>1, Zenon
  <2>2. OwnerIn(f, s) = CHOOSE p \in Places : P(p)
    BY <1>1 DEF OwnerIn
  <2>3. OwnerIn(f, s) \in Places /\ Transmits(f, OwnerIn(f, s), s)
    BY <2>1, <2>2 DEF Transmits
  <2> HIDE DEF P
  <2> QED BY <2>3 DEF Sole
<1>2. CASE ~\E p \in Places : P(p)
  <2>1. OwnerIn(f, s) = None
    BY <1>2 DEF OwnerIn
  <2>2. None \notin Places
    BY NoneIsNoValue
  <2> QED BY <1>2, <2>1, <2>2 DEF Transmits
<1> QED BY <1>1, <1>2

\* The variables of Ownership.
mapped == <<[s \in Shutters |-> Owner(s)], [s \in Shutters |-> Copies(s)]>>

LEMMA PromiseVars ==
    ASSUME NEW s \in Shutters
    PROVE  /\ Owner(s) = OwnerIn(fw, s) /\ Owner(s)' = OwnerIn(fw', s)
           /\ Copies(s) = CopiesIn(fw, s) /\ Copies(s)' = CopiesIn(fw', s)
  BY DEF Owner, OwnerIn, Copies, CopiesIn

LEMMA SoleOwners ==
    ASSUME NEW s \in Shutters
    PROVE  /\ SingleOwner => Sole(fw, s)
           /\ SingleOwner' => Sole(fw', s)
  BY DEF SingleOwner, Sole, Transmits

\* The mapped variables, when only what s maps to may change.
LEMMA Becomes ==
    ASSUME NEW s \in Shutters, NEW o, NEW h,
           Owner(s)' = o, Copies(s)' = h,
           \A r \in Shutters \ {s} : Owner(r)' = Owner(r) /\ Copies(r)' = Copies(r)
    PROVE  /\ [r \in Shutters |-> Owner(r)]' = [[r \in Shutters |-> Owner(r)] EXCEPT ![s] = o]
           /\ [r \in Shutters |-> Copies(r)]' = [[r \in Shutters |-> Copies(r)] EXCEPT ![s] = h]
  OBVIOUS

LEMMA Keeps ==
    ASSUME NEW s \in Shutters
    PROVE  /\ [[r \in Shutters |-> Owner(r)] EXCEPT ![s] = Owner(s)] = [r \in Shutters |-> Owner(r)]
           /\ [[r \in Shutters |-> Copies(r)] EXCEPT ![s] = Copies(s)] = [r \in Shutters |-> Copies(r)]
  OBVIOUS

\* A command about s leaves the other shutters as they are.
LEMMA OthersMapped ==
    ASSUME SingleOwner, SingleOwner', NEW c, NEW old, NEW new, Moved(c, old, new),
           NEW s \in Shutters, {old.id, new.id} \subseteq {s, None},
           NEW r \in Shutters \ {s}
    PROVE  Owner(r)' = Owner(r) /\ Copies(r)' = Copies(r)
<1>1. r # None
  BY NoneIsNoValue
<1>2. \A p \in Places : /\ Transmits(fw', p, r) <=> Transmits(fw, p, r)
                        /\ fw'[p].id = r <=> fw[p].id = r
  BY <1>1 DEF Moved, Transmits
<1>3. OwnerIn(fw', r) = OwnerIn(fw, r)
  BY <1>2, SoleOwners, OwnerInIs
<1>4. CopiesIn(fw', r) = CopiesIn(fw, r)
  BY <1>2 DEF CopiesIn
<1> QED BY <1>3, <1>4, PromiseVars

\* What a command about s does to s, seen by the other slots.
LEMMA CopiesMapped ==
    ASSUME NEW c, NEW old, NEW new, Moved(c, old, new), NEW s \in Shutters
    PROVE  /\ old.id = s /\ new.id = s => Copies(s)' = Copies(s)
           /\ old.id # s /\ new.id = s => c \notin Copies(s) /\ Copies(s)' = Copies(s) \cup {c}
           /\ old.id = s /\ new.id # s => c \in Copies(s) /\ Copies(s)' = Copies(s) \ {c}
<1>1. /\ old.id = s /\ new.id = s => CopiesIn(fw', s) = CopiesIn(fw, s)
      /\ old.id # s /\ new.id = s => c \notin CopiesIn(fw, s)
                                     /\ CopiesIn(fw', s) = CopiesIn(fw, s) \cup {c}
      /\ old.id = s /\ new.id # s => c \in CopiesIn(fw, s)
                                     /\ CopiesIn(fw', s) = CopiesIn(fw, s) \ {c}
  BY DEF Moved, CopiesIn
<1> QED BY <1>1, PromiseVars

LEMMA OwnerMapped ==
    ASSUME SingleOwner, SingleOwner', NEW c, NEW old, NEW new, Moved(c, old, new),
           NEW s \in Shutters
    PROVE  LET was == old.id = s /\ old.phase = "active"
               is == new.id = s /\ new.phase = "active"
           IN  /\ was => Owner(s) = c
               /\ is => Owner(s)' = c
               /\ ~was /\ is => Owner(s) = None
               /\ was /\ ~is => Owner(s)' = None
               /\ ~was /\ ~is => Owner(s)' = Owner(s) /\ Owner(s) # c
<1> DEFINE was == old.id = s /\ old.phase = "active"
           is == new.id = s /\ new.phase = "active"
<1>1. /\ was <=> Transmits(fw, c, s)
      /\ is <=> Transmits(fw', c, s)
      /\ \A p \in Places \ {c} : Transmits(fw', p, s) <=> Transmits(fw, p, s)
      /\ c \in Places
  BY DEF Moved, Transmits
<1>2. /\ OwnerIn(fw, s) \in Places \cup {None}
      /\ \A p \in Places : OwnerIn(fw, s) = p <=> Transmits(fw, p, s)
      /\ OwnerIn(fw', s) \in Places \cup {None}
      /\ \A p \in Places : OwnerIn(fw', s) = p <=> Transmits(fw', p, s)
  BY SoleOwners, OwnerInIs
<1>3. Sole(fw, s) /\ Sole(fw', s)
  BY SoleOwners
<1> HIDE DEF was, is
<1>4. /\ was => OwnerIn(fw, s) = c
      /\ is => OwnerIn(fw', s) = c
      /\ ~was /\ is => OwnerIn(fw, s) = None
      /\ was /\ ~is => OwnerIn(fw', s) = None
      /\ ~was /\ ~is => OwnerIn(fw', s) = OwnerIn(fw, s) /\ OwnerIn(fw, s) # c
  BY <1>1, <1>2, <1>3 DEF Sole
<1> QED BY <1>4, PromiseVars DEF was, is

\* A command about s, as a step of the promise: what the new owner and the new
\* copies of s are decides which.
LEMMA PromiseStep ==
    ASSUME SingleOwner, SingleOwner', NEW c, NEW old, NEW new, Moved(c, old, new),
           NEW s \in Shutters, {old.id, new.id} \subseteq {s, None},
           \/ Owner(s) # None /\ Owner(s)' = None /\ Copies(s)' = Copies(s)
           \/ /\ Owner(s) = None /\ Owner(s)' = None
              /\ c \notin Copies(s) /\ Copies(s)' = Copies(s) \cup {c}
           \/ /\ Owner(s) = None /\ Owner(s)' = c
              /\ c \in Copies(s) /\ Copies(s)' = Copies(s)
           \/ /\ Owner(s)' = Owner(s) /\ Owner(s) # c
              /\ c \in Copies(s) /\ Copies(s) # {c} /\ Copies(s)' = Copies(s) \ {c}
           \/ Owner(s)' = Owner(s) /\ Copies(s)' = Copies(s)
    PROVE  [Promise!Next]_mapped
<1> USE DEF mapped
<1> DEFINE Live == [r \in Shutters |-> Owner(r)]
           Held == [r \in Shutters |-> Copies(r)]
<1>1. c \in Places /\ Live[s] = Owner(s) /\ Held[s] = Copies(s)
  BY DEF Moved
<1>2. \A r \in Shutters \ {s} : Owner(r)' = Owner(r) /\ Copies(r)' = Copies(r)
  BY OthersMapped
<1>3. /\ Live' = [Live EXCEPT ![s] = Owner(s)']
      /\ Held' = [Held EXCEPT ![s] = Copies(s)']
  BY <1>2, Becomes
<1>4. /\ [Live EXCEPT ![s] = Owner(s)] = Live
      /\ [Held EXCEPT ![s] = Copies(s)] = Held
  BY Keeps
<1> HIDE DEF Live, Held
<1>5. CASE Owner(s) # None /\ Owner(s)' = None /\ Copies(s)' = Copies(s)
  <2>1. Promise!Quiesce(s)
    BY <1>1, <1>3, <1>4, <1>5 DEF Promise!Quiesce, Live, Held
  <2> QED BY <2>1 DEF Promise!Next
<1>6. CASE /\ Owner(s) = None /\ Owner(s)' = None
           /\ c \notin Copies(s) /\ Copies(s)' = Copies(s) \cup {c}
  <2>1. Promise!Copy(s, c)
    BY <1>1, <1>3, <1>4, <1>6 DEF Promise!Copy, Live, Held
  <2> QED BY <1>1, <2>1 DEF Promise!Next
<1>7. CASE /\ Owner(s) = None /\ Owner(s)' = c
           /\ c \in Copies(s) /\ Copies(s)' = Copies(s)
  <2>1. Promise!Grant(s, c)
    BY <1>1, <1>3, <1>4, <1>7 DEF Promise!Grant, Live, Held
  <2> QED BY <1>1, <2>1 DEF Promise!Next
<1>8. CASE /\ Owner(s)' = Owner(s) /\ Owner(s) # c
           /\ c \in Copies(s) /\ Copies(s) # {c} /\ Copies(s)' = Copies(s) \ {c}
  <2>1. Promise!Erase(s, c)
    BY <1>1, <1>3, <1>4, <1>8 DEF Promise!Erase, Live, Held
  <2> QED BY <1>1, <2>1 DEF Promise!Next
<1>9. CASE Owner(s)' = Owner(s) /\ Copies(s)' = Copies(s)
  BY <1>3, <1>4, <1>9 DEF Live, Held
<1> QED BY <1>5, <1>6, <1>7, <1>8, <1>9

\* An identity that is kept has another copy when this one is erased.
LEMMA AnotherCopy ==
    ASSUME IdentityHeld', NEW c, NEW old, Moved(c, old, Empty), NEW s \in Shutters
    PROVE  Copies(s) # {c}
<1>1. PICK p \in Places : fw'[p].id = s
  BY DEF IdentityHeld
<1>2. p # c
  BY <1>1, Shapes, NoneIsNoValue DEF Moved
<1>3. p \in CopiesIn(fw, s)
  BY <1>1, <1>2 DEF Moved, CopiesIn
<1> QED BY <1>2, <1>3, PromiseVars

\* A command of the firmware is a step of the promise.
LEMMA CommandPromised ==
    ASSUME IInv, OwnerInv, SingleOwner, SingleOwner', IdentityHeld',
           NEW t \in Tasks, job[t] \in Transfer,
           \/ Archives(t) \/ Imports(t) \/ Activates(t) \/ Commits(t)
           \/ Finalizes(t) \/ Aborts(t) \/ RollsBack(t)
    PROVE  [Promise!Next]_mapped
<1>0. None \notin Shutters /\ None \notin Places
  BY NoneIsNoValue
<1>a. TypeOK /\ SlotShape /\ BackupsBacked /\ TokenBinds
  BY DEF IInv
<1>1. CASE Archives(t)
  <2>1. PICK c \in Places, s \in Shutters, k \in FreshTokens : Moved(c, Active(s), Archived(s, k))
    BY <1>1, <1>a, MovesOne DEF Moved
  <2>2. Owner(s) = c /\ Owner(s)' = None /\ Copies(s)' = Copies(s) /\ c \in Places
    BY <2>1, OwnerMapped, CopiesMapped, Shapes DEF Moved
  <2> QED BY <1>0, <2>1, <2>2, PromiseStep, Shapes
<1>2. CASE Imports(t)
  <2>1. PICK s \in Shutters, k \in Tokens :
           /\ Moved(job[t].dst, Empty, Imported(s, k))
           /\ s = job[t].backup /\ k = job[t].token
    BY <1>2, <1>a, MovesOne
  <2> DEFINE c == job[t].dst
  <2>2. Owner(s) = None
    <3>1. ASSUME NEW q \in Places, Transmits(fw, q, s) PROVE FALSE
      <4>1. fw[q].id = s /\ fw[q].phase = "active"
        BY <3>1 DEF Transmits
      <4>2. q # c
        BY <1>0, <2>1, <4>1, Shapes DEF Moved
      <4>3. q = job[t].src /\ fw[job[t].src] = Archived(s, k)
        BY <1>2, <1>a, <2>1, <4>1, <4>2, ImportFits DEF OwnerInv
      <4> QED BY <4>1, <4>3, Shapes
    <3> QED BY <3>1, SoleOwners, OwnerInIs, PromiseVars
  <2>3. Owner(s)' = Owner(s) /\ c \notin Copies(s) /\ Copies(s)' = Copies(s) \cup {c}
    BY <1>0, <2>1, OwnerMapped, CopiesMapped, Shapes
  <2> QED BY <2>1, <2>2, <2>3, PromiseStep, Shapes
<1>3. CASE Activates(t) \/ RollsBack(t)
  <2>1. PICK c \in Places, s \in Shutters, k \in Tokens :
           \/ Moved(c, Imported(s, k), Activated(s, k))
           \/ Moved(c, Archived(s, k), Active(s))
    BY <1>3, <1>a, MovesOne DEF Moved
  <2>2. /\ Owner(s) = None /\ Owner(s)' = c /\ Copies(s)' = Copies(s)
        /\ c \in Copies(s)
    <3>1. Owner(s) = None /\ Owner(s)' = c /\ Copies(s)' = Copies(s)
      BY <2>1, OwnerMapped, CopiesMapped, Shapes
    <3>2. c \in CopiesIn(fw, s)
      BY <2>1, Shapes DEF Moved, CopiesIn
    <3> QED BY <3>1, <3>2, PromiseVars
  <2> QED BY <2>1, <2>2, PromiseStep, Shapes
<1>4. CASE Commits(t) \/ Aborts(t)
  <2>1. PICK c \in Places, s \in Shutters, k \in Tokens :
           Moved(c, Archived(s, k), Empty) \/ Moved(c, Imported(s, k), Empty)
    BY <1>4, <1>a, MovesOne DEF Moved
  <2>2. /\ Owner(s)' = Owner(s) /\ Owner(s) # c
        /\ c \in Copies(s) /\ Copies(s)' = Copies(s) \ {c}
    BY <1>0, <2>1, OwnerMapped, CopiesMapped, Shapes
  <2>3. Copies(s) # {c}
    BY <2>1, AnotherCopy
  <2> QED BY <2>1, <2>2, <2>3, PromiseStep, Shapes
<1>5. CASE Finalizes(t)
  <2>1. PICK c \in Places, s \in Shutters, k \in Tokens : Moved(c, Activated(s, k), Active(s))
    BY <1>5, <1>a, MovesOne DEF Moved
  <2>2. Owner(s)' = Owner(s) /\ Copies(s)' = Copies(s)
    BY <2>1, OwnerMapped, CopiesMapped, Shapes
  <2> QED BY <2>1, <2>2, PromiseStep, Shapes
<1> QED BY <1>1, <1>2, <1>3, <1>4, <1>5

LEMMA PromiseStutter ==
    ASSUME UNCHANGED fw
    PROVE  [Promise!Next]_mapped
<1>1. \A r \in Shutters : Owner(r)' = Owner(r) /\ Copies(r)' = Copies(r)
  BY PromiseVars DEF OwnerIn, CopiesIn
<1> QED BY <1>1 DEF mapped

LEMMA PromiseInit ==
    ASSUME Init
    PROVE  Promise!Init
<1>1. PICK home \in [Shutters -> Places] :
         /\ \A s \in Shutters : fw[home[s]] = Active(s)
         /\ \A p \in Places :
               \/ fw[p] = Empty
               \/ \E s \in Shutters : fw[p] = Active(s) /\ p = home[s]
  BY InitSlots
<1>2. ASSUME NEW s \in Shutters
      PROVE  Owner(s) = home[s] /\ Copies(s) = {home[s]}
  <2>1. \A p \in Places : fw[p].id = s <=> p = home[s]
    BY <1>1, Shapes, NoneIsNoValue
  <2>2. fw[home[s]].phase = "active" /\ home[s] \in Places
    BY <1>1, Shapes
  <2>3. Sole(fw, s) /\ Transmits(fw, home[s], s)
    BY <2>1, <2>2 DEF Sole, Transmits
  <2>4. CopiesIn(fw, s) = {home[s]}
    BY <2>1, <2>2 DEF CopiesIn
  <2> QED BY <2>2, <2>3, <2>4, OwnerInIs, PromiseVars
<1>3. [r \in Shutters |-> Owner(r)] \in [Shutters -> Places]
  BY <1>2
<1>4. [r \in Shutters |-> Copies(r)] = [s \in Shutters |-> {[r \in Shutters |-> Owner(r)][s]}]
  BY <1>2
<1> QED BY <1>3, <1>4 DEF Promise!Init

LEMMA PromiseKept ==
    ASSUME IInv, OwnerInv, IInv', OwnerInv', [OrderlyNext]_vars
    PROVE  [Promise!Next]_mapped
<1>1. SingleOwner /\ SingleOwner' /\ IdentityHeld'
  BY SingleOwners DEF IInv, OwnerInv
<1>2. CASE UNCHANGED vars
  BY <1>2, PromiseStutter DEF vars
<1>3. CASE Crash
  BY <1>3, PromiseStutter DEF Crash
<1>4. ASSUME NEW t \in Tasks, OrderlyMove(t)
      PROVE  [Promise!Next]_mapped
  <2>1. Step(t) /\ LocalsHeld
    BY <1>4, OrderlyIsStep DEF IInv
  <2> QED BY <1>1, <2>1, Commands, CommandPromised, PromiseStutter
<1> QED BY <1>2, <1>3, <1>4, OrderlyIsNext

\* The transfer keeps what Ownership promises, whatever is lost, refused or raced:
\* an owner is silent before another slot may transmit, and no erasure, by commit
\* or by abort, is of the last copy.
THEOREM Implements == OrderlySpec => KeepsPromise
<1>1. Init => Promise!Init
  BY PromiseInit
<1>2. /\ IInv /\ OwnerInv /\ (IInv /\ OwnerInv)' /\ [OrderlyNext]_vars
      => [Promise!Next]_mapped
  BY PromiseKept
<1>3. OrderlySpec => Promise!Init /\ [][Promise!Next]_mapped
  BY <1>1, <1>2, OwnerInvariance, PTL DEF OrderlySpec
<1>4. Promise!Init /\ [][Promise!Next]_mapped => KeepsPromise
  BY PTL DEF KeepsPromise, Promise!Spec, mapped
<1> QED BY <1>3, <1>4, PTL

-----------------------------------------------------------------------------
(* Where the copies of a moving shutter are *)

LEMMA UnderWayTyped ==
    ASSUME TypeOK, NEW j \in UnderWay
    PROVE  /\ j \in Transfer /\ j.id \in Shutters /\ j.src \in Places /\ j.dst \in Places
           /\ j.phase \in Phases /\ BridgeOf(j.src) \in Bridges
           /\ j.id # None
  BY NoneIsNoValue DEF UnderWay, TypeOK, Transfer, Places, BridgeOf

\* What the readings of source and destination are at each stage of the move.
LEMMA StageReads ==
    ASSUME NEW f, NEW j
    PROVE  /\ AtSource(f, j) => /\ f[j.src].role = "none" /\ f[j.src].phase = "active"
                                /\ f[j.src].id = j.id /\ f[j.dst].role # "destination"
           /\ Silenced(f, j) => /\ f[j.src].role = "source" /\ f[j.src].phase = "archived"
                                /\ f[j.src].id = j.id /\ f[j.dst].role # "destination"
           /\ Copied(f, j) => /\ f[j.src].role = "source" /\ f[j.src].phase = "archived"
                              /\ f[j.src].id = j.id /\ f[j.dst].id = j.id
                              /\ f[j.dst].role = "destination" /\ f[j.dst].phase = "archived"
           /\ Granted(f, j) => /\ f[j.src].role = "source" /\ f[j.src].phase = "archived"
                               /\ f[j.src].id = j.id /\ f[j.dst].id = j.id
                               /\ f[j.dst].role = "destination" /\ f[j.dst].phase = "active"
           /\ Erased(f, j) => /\ f[j.src].role = "none" /\ f[j.src].phase = "empty"
                              /\ f[j.src].id = None /\ f[j.dst].id = j.id
                              /\ f[j.dst].role = "destination" /\ f[j.dst].phase = "active"
           /\ Arrived(f, j) => /\ f[j.src].role = "none" /\ f[j.src].phase = "empty"
                               /\ f[j.src].id = None /\ f[j.dst].id = j.id
                               /\ f[j.dst].role = "none" /\ f[j.dst].phase = "active"
<1>1. AtSource(f, j) => /\ f[j.src].role = "none" /\ f[j.src].phase = "active"
                        /\ f[j.src].id = j.id /\ f[j.dst].role # "destination"
  BY DEF AtSource, Uncopied, Active
<1>2. Archive(f, j) => /\ f[j.src].role = "source" /\ f[j.src].phase = "archived"
                       /\ f[j.src].id = j.id
  BY DEF Archive, Archived
<1>3. Silenced(f, j) => Archive(f, j) /\ f[j.dst].role # "destination"
  BY DEF Silenced, Uncopied
<1>4. Copied(f, j) => /\ Archive(f, j) /\ f[j.dst].id = j.id
                      /\ f[j.dst].role = "destination" /\ f[j.dst].phase = "archived"
  BY DEF Copied, Imported
<1>5. Granted(f, j) \/ Erased(f, j) =>
          /\ f[j.dst].id = j.id
          /\ f[j.dst].role = "destination" /\ f[j.dst].phase = "active"
  BY DEF Granted, Erased, Activated
<1>6. Granted(f, j) => Archive(f, j)
  BY DEF Granted
<1>7. Arrived(f, j) => /\ f[j.dst].id = j.id
                       /\ f[j.dst].role = "none" /\ f[j.dst].phase = "active"
  BY DEF Arrived, Active
<1>8. Erased(f, j) \/ Arrived(f, j) => /\ f[j.src].role = "none" /\ f[j.src].phase = "empty"
                                      /\ f[j.src].id = None
  BY DEF Erased, Arrived, Empty
<1> QED
  BY <1>1, <1>2, <1>3, <1>4, <1>5, <1>6, <1>7, <1>8

\* The copies are at the source or the destination, and nowhere else.
LEMMA CopiesOnRoute ==
    ASSUME NEW f, NEW j, Staged(f, j)
    PROVE  /\ f[j.src].id = j.id \/ (f[j.src].id = None /\ f[j.dst].id = j.id)
           /\ Nowhere(f, j.id, {j.src, j.dst})
<1>1. Nowhere(f, j.id, {j.src}) \/ Nowhere(f, j.id, {j.dst}) => Nowhere(f, j.id, {j.src, j.dst})
  BY DEF Nowhere
<1>2. Nowhere(f, j.id, {j.src, j.dst})
  BY <1>1 DEF Staged, AtSource, Silenced, Copied, Granted, Erased, Arrived, Uncopied
<1> QED
  BY <1>2, StageReads DEF Staged

\* The stage of a move depends on its shutter and its route.
Ours(i, x) == i.id = x.id /\ i.src = x.src /\ i.dst = x.dst

LEMMA StageOfRoute ==
    ASSUME NEW f, NEW i, NEW x, Ours(i, x)
    PROVE  /\ AtSource(f, i) <=> AtSource(f, x)
           /\ Silenced(f, i) <=> Silenced(f, x)
           /\ Copied(f, i) <=> Copied(f, x)
           /\ Granted(f, i) <=> Granted(f, x)
           /\ Erased(f, i) <=> Erased(f, x)
           /\ Arrived(f, i) <=> Arrived(f, x)
           /\ Staged(f, i) <=> Staged(f, x)
<1> HIDE DEF Nowhere
<1>1. Archive(f, i) <=> Archive(f, x)
  BY DEF Archive, Ours
<1>2. Uncopied(f, i) <=> Uncopied(f, x)
  BY DEF Uncopied, Ours
<1>3. /\ AtSource(f, i) <=> AtSource(f, x)
      /\ Silenced(f, i) <=> Silenced(f, x)
      /\ Copied(f, i) <=> Copied(f, x)
      /\ Granted(f, i) <=> Granted(f, x)
      /\ Erased(f, i) <=> Erased(f, x)
      /\ Arrived(f, i) <=> Arrived(f, x)
  BY <1>1, <1>2 DEF Ours, AtSource, Silenced, Copied, Granted, Erased, Arrived
<1> QED
  BY <1>3 DEF Staged

\* Two moves of one shutter, or from one bridge, are the same one.
LEMMA OneMoveEach ==
    ASSUME TypeOK, RoutesFit, MovesFit, NEW i \in UnderWay, NEW j \in UnderWay,
           i.id = j.id \/ BridgeOf(i.src) = BridgeOf(j.src)
    PROVE  Ours(i, j)
<1>1. /\ Staged(fw, i) /\ Staged(fw, j)
      /\ i.id # None /\ j.id # None
      /\ i.src \in Places /\ i.dst \in Places
  BY UnderWayTyped DEF MovesFit, MoveFits
<1>2. SameRoute(i, j.src, j.dst) \/ Apart(i, j.src, j.dst)
  BY DEF RoutesFit
<1>3. CASE SameRoute(i, j.src, j.dst)
  <2>1. i.src = j.src /\ i.dst = j.dst
    BY <1>3 DEF SameRoute
  <2>2. /\ fw[i.src].id = i.id \/ (fw[i.src].id = None /\ fw[i.dst].id = i.id)
        /\ fw[j.src].id = j.id \/ (fw[j.src].id = None /\ fw[j.dst].id = j.id)
    BY <1>1, CopiesOnRoute
  <2> QED
    BY <1>1, <2>1, <2>2 DEF Ours
<1>4. CASE Apart(i, j.src, j.dst)
  <2>1. i.id = j.id
    BY <1>4 DEF Apart
  <2>2. \E p \in {i.src, i.dst} : fw[p].id = j.id
    <3>1. fw[i.src].id = i.id \/ fw[i.dst].id = i.id
      BY <1>1, CopiesOnRoute
    <3> QED
      BY <2>1, <3>1
  <2>3. Nowhere(fw, j.id, {j.src, j.dst})
    BY <1>1, CopiesOnRoute
  <2> QED
    BY <1>1, <1>4, <2>2, <2>3 DEF Apart, Nowhere
<1> QED
  BY <1>2, <1>3, <1>4

\* Another move has another shutter and other slots.
LEMMA OthersApart ==
    ASSUME TypeOK, RoutesFit, MovesFit, NEW i \in UnderWay, NEW x \in UnderWay, ~Ours(i, x)
    PROVE  /\ i.id # x.id /\ BridgeOf(i.src) # BridgeOf(x.src)
           /\ {i.src, i.dst} \cap {x.src, x.dst} = {}
<1>1. i.id # x.id /\ BridgeOf(i.src) # BridgeOf(x.src)
  BY OneMoveEach
<1> QED
  BY <1>1 DEF RoutesFit, SameRoute, Apart

-----------------------------------------------------------------------------
(* What a command does to the copies *)

\* A step changes the slots of its move only, and puts no other identity there.
Confined(x) ==
    /\ \A p \in Places \ {x.src, x.dst} : fw'[p] = fw[p]
    /\ \A p \in {x.src, x.dst} :
          fw'[p] = fw[p] \/ {fw[p].id, fw'[p].id} \subseteq {x.id, None}
    /\ fw'[x.dst].role = "source" => fw[x.dst].role = "source"

LEMMA SlotMoved ==
    ASSUME NEW x, x.src \in Places, x.dst \in Places,
           NEW c \in {x.src, x.dst}, NEW old, NEW new, Moved(c, old, new),
           {old.id, new.id} \subseteq {x.id, None}, c = x.dst => new.role # "source"
    PROVE  Confined(x)
  BY DEF Confined, Moved

\* What a step leaves at its stage has a phase that fits still.
Stays(i) ==
    /\ AtSource(fw, i) => AtSource(fw', i)
    /\ Silenced(fw, i) => Silenced(fw', i)
    /\ Copied(fw, i) => Copied(fw', i)
    /\ Granted(fw, i) => Granted(fw', i)
    /\ Erased(fw, i) => Erased(fw', i)
    /\ Arrived(fw, i) => Arrived(fw', i)

LEMMA StaysFit ==
    ASSUME NEW i, Stays(i)
    PROVE  /\ Staged(fw, i) => Staged(fw', i)
           /\ PhaseFits(fw, i) => PhaseFits(fw', i)
  BY DEF Stays, Staged, PhaseFits

\* Another move stays at its stage, and a shutter at home stays there.
LEMMA OthersKept ==
    ASSUME TypeOK, RoutesFit, MovesFit, NEW x \in UnderWay, Confined(x)
    PROVE  /\ \A i \in UnderWay : ~Ours(i, x) => Stays(i)
           /\ \A r : r.id \in Shutters /\ r.at \in Places /\ r.id # x.id /\ Home(fw, r)
                  => Home(fw', r)
<1>1. x.src \in Places /\ x.dst \in Places /\ x.id # None
  BY UnderWayTyped
<1>2. ASSUME NEW s \in Shutters, s # x.id, NEW places, Nowhere(fw, s, places)
      PROVE  Nowhere(fw', s, places)
  BY <1>2, NoneIsNoValue DEF Nowhere, Confined
<1>3. ASSUME NEW i \in UnderWay, ~Ours(i, x)
      PROVE  Stays(i)
  <2>1. /\ i.id \in Shutters /\ i.id # x.id /\ i.src \in Places /\ i.dst \in Places
        /\ fw'[i.src] = fw[i.src] /\ fw'[i.dst] = fw[i.dst]
    BY <1>3, OthersApart, UnderWayTyped DEF Confined
  <2>2. \A places : Nowhere(fw, i.id, places) => Nowhere(fw', i.id, places)
    BY <1>2, <2>1
  <2>3. /\ Archive(fw, i) => Archive(fw', i)
        /\ Uncopied(fw, i) => Uncopied(fw', i)
    BY <2>1, <2>2 DEF Archive, Uncopied
  <2> QED
    BY <2>1, <2>2, <2>3 DEF Stays, AtSource, Silenced, Copied, Granted, Erased, Arrived
<1>4. ASSUME NEW r, r.id \in Shutters, r.at \in Places, r.id # x.id, Home(fw, r)
      PROVE  Home(fw', r)
  <2>1. fw[r.at].id = r.id
    BY <1>4 DEF Home, Active
  <2>2. fw'[r.at] = fw[r.at]
    BY <1>4, <2>1, NoneIsNoValue DEF Confined
  <2> QED
    BY <1>2, <1>4, <2>2 DEF Home
<1> QED
  BY <1>3, <1>4

\* Each command takes its move from one stage to the next.
LEMMA Advances ==
    ASSUME IInv, OwnerInv, NEW t \in Tasks, NEW x \in Transfer, x = job[t],
           Staged(fw, x)
    PROVE  /\ Archives(t) => AtSource(fw, x) /\ Silenced(fw', x) /\ Confined(x)
           /\ Imports(t) => Silenced(fw, x) /\ Copied(fw', x) /\ Confined(x)
           /\ Activates(t) => Copied(fw, x) /\ Granted(fw', x) /\ Confined(x)
           /\ Commits(t) /\ pc[t] = "exchange" /\ x.phase = "activated"
                 => Granted(fw, x) /\ Erased(fw', x) /\ Confined(x)
           /\ Finalizes(t) => Erased(fw, x) /\ Arrived(fw', x) /\ Confined(x)
           /\ Aborts(t) => Copied(fw, x) /\ Silenced(fw', x) /\ Confined(x)
           /\ RollsBack(t) => Silenced(fw, x) /\ AtSource(fw', x) /\ Confined(x)
<1> DEFINE src == x.src
           dst == x.dst
<1>0. /\ src \in Places /\ dst \in Places /\ x.id \in Shutters /\ x.id # None
      /\ TypeOK /\ SlotShape /\ BackupsBacked /\ src # dst
  <2>1. x \in UnderWay
    BY JobUnderWay
  <2>2. BridgeOf(src) # BridgeOf(dst)
    BY <2>1 DEF OwnerInv, RoutesFit
  <2> QED
    BY <2>1, <2>2, NoneIsNoValue DEF Transfer, IInv
<1>2. ASSUME Archives(t)
      PROVE  AtSource(fw, x) /\ Silenced(fw', x) /\ Confined(x)
  <2>1. PICK s \in Shutters, k \in FreshTokens : Moved(src, Active(s), Archived(s, k))
    BY <1>0, <1>2, MovesOne
  <2>2. fw[src] = Active(s) /\ fw'[src] = Archived(s, k) /\ fw'[dst] = fw[dst]
    BY <1>0, <2>1 DEF Moved
  <2>3. AtSource(fw, x) /\ s = x.id
    BY <1>0, <2>2, StageReads, Shapes DEF Staged
  <2>4. Uncopied(fw', x)
    BY <1>0, <2>1, <2>2, <2>3 DEF AtSource, Uncopied, Nowhere, Moved
  <2>5. Archive(fw', x)
    BY <2>2, <2>3, Shapes DEF Archive
  <2>6. Confined(x)
    BY <1>0, <2>1, <2>3, Shapes, SlotMoved
  <2> QED
    BY <2>3, <2>4, <2>5, <2>6 DEF Silenced
<1>3. ASSUME Imports(t)
      PROVE  Silenced(fw, x) /\ Copied(fw', x) /\ Confined(x)
  <2>1. PICK s \in Shutters, k \in Tokens :
           /\ Moved(dst, Empty, Imported(s, k))
           /\ s = job[t].backup /\ k = job[t].token
    BY <1>0, <1>3, MovesOne
  <2>2. fw[src] = Archived(s, k)
    BY <1>0, <1>3, <2>1, ImportFits DEF IInv, OwnerInv
  <2>3. fw[dst] = Empty /\ fw'[dst] = Imported(s, k) /\ fw'[src] = fw[src]
    BY <1>0, <2>1 DEF Moved
  <2>4. Silenced(fw, x) /\ s = x.id
    BY <1>0, <2>2, <2>3, StageReads, Shapes DEF Staged
  <2>5. Nowhere(fw', x.id, {src, dst})
    BY <2>1, <2>4 DEF Silenced, Uncopied, Nowhere, Moved
  <2>6. Archive(fw', x)
    BY <2>3, <2>4 DEF Silenced, Archive
  <2>7. fw'[dst] = Imported(x.id, fw'[dst].token)
    BY <2>3, <2>4, Shapes
  <2>8. Confined(x)
    BY <1>0, <2>1, <2>4, Shapes, SlotMoved
  <2> QED
    BY <2>4, <2>5, <2>6, <2>7, <2>8 DEF Copied
<1>4. ASSUME Activates(t)
      PROVE  Copied(fw, x) /\ Granted(fw', x) /\ Confined(x)
  <2>1. PICK s \in Shutters, k \in Tokens : Moved(dst, Imported(s, k), Activated(s, k))
    BY <1>0, <1>4, MovesOne
  <2>2. fw[dst] = Imported(s, k) /\ fw'[dst] = Activated(s, k) /\ fw'[src] = fw[src]
    BY <1>0, <2>1 DEF Moved
  <2>3. Copied(fw, x) /\ s = x.id
    BY <1>0, <2>2, StageReads, Shapes DEF Staged
  <2>4. Nowhere(fw', x.id, {src, dst})
    BY <2>1, <2>3 DEF Copied, Nowhere, Moved
  <2>5. Archive(fw', x) /\ fw'[dst] = Activated(x.id, fw'[dst].token)
    BY <2>2, <2>3, Shapes DEF Copied, Archive
  <2>6. Confined(x)
    BY <1>0, <2>1, <2>3, Shapes, SlotMoved
  <2> QED
    BY <2>3, <2>4, <2>5, <2>6 DEF Granted
<1>5. ASSUME Commits(t), pc[t] = "exchange", x.phase = "activated"
      PROVE  Granted(fw, x) /\ Erased(fw', x) /\ Confined(x)
  <2>1. PICK s \in Shutters, k \in Tokens : Moved(src, Archived(s, k), Empty)
    BY <1>0, <1>5, MovesOne
  <2>2. fw[src] = Archived(s, k) /\ fw'[src] = Empty /\ fw'[dst] = fw[dst]
    BY <1>0, <2>1 DEF Moved
  <2>3. fw[dst].role = "destination" /\ fw[dst].phase = "active"
    BY <1>5, Shapes DEF IInv, CommitProved, Stepping
  <2>4. Granted(fw, x) /\ s = x.id
    BY <1>0, <2>2, <2>3, StageReads, Shapes DEF Staged
  <2>5. Nowhere(fw', x.id, {dst})
    BY <1>0, <2>1, <2>4, Shapes DEF Granted, Nowhere, Moved
  <2>6. Confined(x)
    BY <1>0, <2>1, <2>4, Shapes, SlotMoved
  <2> QED
    BY <2>2, <2>4, <2>5, <2>6 DEF Granted, Erased
<1>6. ASSUME Finalizes(t)
      PROVE  Erased(fw, x) /\ Arrived(fw', x) /\ Confined(x)
  <2>1. PICK s \in Shutters, k \in Tokens : Moved(dst, Activated(s, k), Active(s))
    BY <1>0, <1>6, MovesOne
  <2>2. fw[dst] = Activated(s, k) /\ fw'[dst] = Active(s) /\ fw'[src] = fw[src]
    BY <1>0, <2>1 DEF Moved
  <2>3. fw[src] = Empty
    BY <1>6 DEF Finalizes, OwnerInv, FinalizeProved, Stepping
  <2>4. Erased(fw, x) /\ s = x.id
    BY <1>0, <2>2, <2>3, StageReads, Shapes DEF Staged
  <2>5. Nowhere(fw', x.id, {dst})
    BY <2>1, <2>4 DEF Erased, Nowhere, Moved
  <2>6. Confined(x)
    BY <1>0, <2>1, <2>4, Shapes, SlotMoved
  <2> QED
    BY <2>2, <2>3, <2>4, <2>5, <2>6 DEF Arrived
<1>7. ASSUME Aborts(t)
      PROVE  Copied(fw, x) /\ Silenced(fw', x) /\ Confined(x)
  <2>1. PICK s \in Shutters, k \in Tokens : Moved(dst, Imported(s, k), Empty)
    BY <1>0, <1>7, MovesOne
  <2>2. fw[dst] = Imported(s, k) /\ fw'[dst] = Empty /\ fw'[src] = fw[src]
    BY <1>0, <2>1 DEF Moved
  <2>3. Copied(fw, x) /\ s = x.id
    BY <1>0, <2>2, StageReads, Shapes DEF Staged
  <2>4. Nowhere(fw', x.id, {src})
    BY <1>0, <2>1, <2>3, Shapes DEF Copied, Nowhere, Moved
  <2>5. Archive(fw', x) /\ fw'[dst].role # "destination"
    BY <2>2, <2>3, Shapes DEF Copied, Archive
  <2>6. Confined(x)
    BY <1>0, <2>1, <2>3, Shapes, SlotMoved
  <2> QED
    BY <2>3, <2>4, <2>5, <2>6 DEF Silenced, Uncopied
<1>8. ASSUME RollsBack(t)
      PROVE  Silenced(fw, x) /\ AtSource(fw', x) /\ Confined(x)
  <2>1. PICK s \in Shutters, k \in Tokens : Moved(src, Archived(s, k), Active(s))
    BY <1>0, <1>8, MovesOne
  <2>2. fw[src] = Archived(s, k) /\ fw'[src] = Active(s) /\ fw'[dst] = fw[dst]
    BY <1>0, <2>1 DEF Moved
  <2>3. fw[dst].role # "destination"
    BY <1>8 DEF RollsBack, OwnerInv, RollbackProved
  <2>4. Silenced(fw, x) /\ s = x.id
    BY <1>0, <2>2, <2>3, StageReads, Shapes DEF Staged
  <2>5. Uncopied(fw', x)
    BY <1>0, <2>1, <2>2, <2>4 DEF Silenced, Uncopied, Nowhere, Moved
  <2>6. Confined(x)
    BY <1>0, <2>1, <2>4, Shapes, SlotMoved
  <2> QED
    BY <2>2, <2>4, <2>5, <2>6 DEF AtSource
<1> QED
  BY <1>2, <1>3, <1>4, <1>5, <1>6, <1>7, <1>8

-----------------------------------------------------------------------------
(* What is under way after a step *)

PhaseHeld(t) ==
    job[t] # None /\ (~Recovering(t) \/ At(t, "reprepare")) => PhaseFits(fw, job[t])

Fitting(t) == MovesFit /\ RowsFit /\ JournalsFit /\ ArchivedIsJournaled /\ PhaseHeld(t)

\* A phase that fits says which stage it is.
LEMMA PhasesAt ==
    ASSUME NEW f, NEW j, PhaseFits(f, j)
    PROVE  /\ Staged(f, j)
           /\ j.phase = "active" => Arrived(f, j)
           /\ AtSource(f, j) => j.phase \in {"preparing", "prepared", "imported"}
           /\ Silenced(f, j) => j.phase \in {"preparing", "prepared", "imported"}
           /\ Copied(f, j) => j.phase \in {"prepared", "imported"}
           /\ Granted(f, j) => j.phase \in {"imported", "activated"}
           /\ Erased(f, j) => j.phase \in {"activated", "committed"}
           /\ Arrived(f, j) => j.phase \in {"committed", "active"}
<1>1. Staged(f, j) /\ (j.phase = "active" => Arrived(f, j))
  BY DEF PhaseFits, Staged
<1> QED
  BY <1>1, StageReads DEF PhaseFits

\* The row fits as long as a move that has ended stays so.
LEMMA RowCarried ==
    ASSUME NEW x, NEW v, Ours(v, x), RowFits(fw, meta, x),
           Arrived(fw, x) => Arrived(fw', x)
    PROVE  RowFits(fw', meta, v)
<1>1. Arrived(fw', x) <=> Arrived(fw', v)
  BY StageOfRoute
<1> QED
  BY <1>1 DEF RowFits, Ours

\* A transfer that is written, or that a flow goes on with.
LEMMA WrittenFits ==
    ASSUME NEW x, NEW v, Ours(v, x), RowFits(fw, meta, x), UNCHANGED meta,
           Arrived(fw, x) => Arrived(fw', x), PhaseFits(fw', v)
    PROVE  MoveFits(fw', meta', v)
<1>1. RowFits(fw', meta', v)
  BY RowCarried
<1> QED
  BY <1>1, PhasesAt DEF MoveFits

\* The shutter of a move has one journal, its source bridge's.
LEMMA JournalOf ==
    ASSUME TypeOK, RoutesFit, MovesFit, NEW x \in UnderWay, NEW c \in Bridges,
           journal[c] # None, journal[c].id = x.id \/ c = BridgeOf(x.src)
    PROVE  c = BridgeOf(x.src) /\ Ours(journal[c], x)
<1>1. journal[c] \in UnderWay /\ BridgeOf(journal[c].src) = c
  BY JournalUnderWay DEF RoutesFit
<1>2. Ours(journal[c], x)
  BY <1>1, OneMoveEach
<1> QED
  BY <1>1, <1>2 DEF Ours

\* A flow with x ends, or goes on with w, and the journal of the move becomes v.
LEMMA FlowStep ==
    ASSUME TypeOK, RoutesFit, MovesFit, RowsFit, JournalsFit, ArchivedIsJournaled,
           NEW t \in Tasks, NEW x \in Transfer, x = job[t],
           Confined(x), Staged(fw', x), Arrived(fw, x) => Arrived(fw', x),
           NEW v, v = None \/ (Ours(v, x) /\ PhaseFits(fw', v)),
           NEW w, w = None \/ (Ours(w, x) /\ PhaseFits(fw', w)),
           job' = [job EXCEPT ![t] = w],
           journal' = [journal EXCEPT ![BridgeOf(x.src)] = v],
           UNCHANGED meta,
           v = None => \E r \in meta : r.id = x.id /\ Home(fw', r),
           fw'[x.src].role = "source" => v # None
    PROVE  Fitting(t)'
<1> DEFINE b == BridgeOf(x.src)
<1>1. x \in UnderWay /\ b \in Bridges /\ x.src \in Places /\ x.id # None
  BY JobUnderWay, UnderWayTyped
<1>2. /\ \A c \in Bridges : journal'[c] = IF c = b THEN v ELSE journal[c]
      /\ \A u \in Tasks : job'[u] = IF u = t THEN w ELSE job[u]
  BY DEF TypeOK
<1>3. MoveFits(fw, meta, x)
  BY <1>1 DEF MovesFit
<1>4. ASSUME NEW i \in UnderWay' PROVE i \in {v, w} \/ i \in UnderWay
  BY <1>2 DEF UnderWay
<1>5. ASSUME NEW c \in Bridges \ {b}, journal[c] # None
      PROVE  journal[c] \in UnderWay /\ ~Ours(journal[c], x)
  <2>1. ~Ours(journal[c], x)
    BY <1>5, JournalUnderWay DEF RoutesFit, Ours
  <2> QED
    BY <1>5, <2>1, JournalUnderWay
<1>6. MovesFit'
  <2> SUFFICES ASSUME NEW i \in UnderWay' PROVE MoveFits(fw', meta', i)
    BY DEF MovesFit
  <2>1. CASE i \in {v, w}
    <3>1. i # None
      BY DEF UnderWay
    <3> QED
      BY <1>3, <2>1, <3>1, WrittenFits DEF MoveFits
  <2>2. CASE i \in UnderWay /\ ~Ours(i, x)
    <3>1. Stays(i) /\ MoveFits(fw, meta, i)
      BY <1>1, <2>2, OthersKept DEF MovesFit
    <3> QED
      BY <3>1, StaysFit DEF MoveFits, RowFits, Stays
  <2>3. CASE i \in UnderWay /\ Ours(i, x)
    <3>1. MoveFits(fw, meta, i)
      BY <2>3 DEF MovesFit
    <3>2. Arrived(fw, i) => Arrived(fw', i)
      BY <2>3, StageOfRoute
    <3>3. Staged(fw', i)
      BY <1>3, <2>3, StageOfRoute
    <3> QED
      BY <3>1, <3>2, <3>3 DEF MoveFits, RowFits
  <2> QED
    BY <1>4, <2>1, <2>2, <2>3
<1>7. RowsFit'
  <2>1. ASSUME NEW r \in meta
        PROVE  \/ \E c \in Bridges : journal'[c] # None /\ journal'[c].id = r.id
               \/ Home(fw', r)
    <3>1. CASE r.id = x.id /\ v # None
      BY <1>1, <1>2, <3>1 DEF Ours
    <3>2. CASE r.id = x.id /\ v = None
      BY <3>2 DEF RowsFit
    <3>3. CASE r.id # x.id
      <4>1. CASE \E c \in Bridges : journal[c] # None /\ journal[c].id = r.id
        <5>1. PICK c \in Bridges : journal[c] # None /\ journal[c].id = r.id
          BY <4>1
        <5>2. c # b
          BY <1>1, <3>3, <5>1, JournalOf DEF Ours
        <5> QED
          BY <1>2, <5>1, <5>2
      <4>2. CASE Home(fw, r)
        BY <1>1, <3>3, <4>2, OthersKept DEF TypeOK, Rows
      <4> QED
        BY <4>1, <4>2 DEF RowsFit
    <3> QED
      BY <3>1, <3>2, <3>3
  <2> QED
    BY <2>1 DEF RowsFit
<1>8. JournalsFit'
  <2> SUFFICES ASSUME NEW c \in Bridges, journal'[c] # None
               PROVE  PhaseFits(fw', journal'[c])
    BY DEF JournalsFit
  <2>1. CASE c = b
    BY <1>2, <2>1
  <2>2. CASE c # b
    <3>1. journal'[c] = journal[c]
      BY <1>2, <2>2
    <3>2. Stays(journal[c]) /\ PhaseFits(fw, journal[c])
      BY <1>1, <1>5, <2>2, <3>1, OthersKept DEF JournalsFit
    <3> QED
      BY <3>1, <3>2, StaysFit
  <2> QED
    BY <2>1, <2>2
<1>9. ArchivedIsJournaled'
  <2> SUFFICES ASSUME NEW p \in Places, fw'[p].role = "source"
               PROVE  journal'[BridgeOf(p)] # None /\ journal'[BridgeOf(p)].src = p
    BY DEF ArchivedIsJournaled
  <2>1. BridgeOf(p) \in Bridges
    BY DEF Places, BridgeOf
  <2>2. CASE p = x.src
    BY <1>2, <2>1, <2>2 DEF Ours
  <2>3. CASE p # x.src
    <3>1. fw[p].role = "source"
      BY <2>3 DEF Confined
    <3>2. journal[BridgeOf(p)] # None /\ journal[BridgeOf(p)].src = p
      BY <3>1 DEF ArchivedIsJournaled
    <3>3. BridgeOf(p) # b
      BY <1>1, <2>1, <2>3, <3>2, JournalOf DEF Ours
    <3> QED
      BY <1>2, <2>1, <3>2, <3>3
  <2> QED
    BY <2>2, <2>3
<1>10. PhaseHeld(t)'
  BY <1>2 DEF PhaseHeld
<1> QED
  BY <1>6, <1>7, <1>8, <1>9, <1>10 DEF Fitting

\* A step that brings nothing under way and changes nothing it is about.
LEMMA QuietStep ==
    ASSUME MovesFit, RowsFit, JournalsFit, ArchivedIsJournaled,
           UnderWay' \subseteq UnderWay, UNCHANGED <<fw, meta, journal>>
    PROVE  MovesFit' /\ RowsFit' /\ JournalsFit' /\ ArchivedIsJournaled'
  BY DEF MovesFit, RowsFit, JournalsFit, ArchivedIsJournaled

\* What is known of a transfer in hand and of the journal of its bridge.
LEMMA InHand ==
    ASSUME IInv, OwnerInv, MetaInv, NEW t \in Tasks, NEW x \in Transfer, x = job[t]
    PROVE  /\ x \in UnderWay /\ MoveFits(fw, meta, x)
           /\ x.src \in Places /\ x.dst \in Places /\ BridgeOf(x.src) \in Bridges
           /\ ~Recovering(t) \/ pc[t] = "reprepare" => PhaseFits(fw, x)
           /\ journal = [journal EXCEPT ![BridgeOf(x.src)] = journal[BridgeOf(x.src)]]
           /\ LET v == journal[BridgeOf(x.src)]
              IN  v # None => Ours(v, x) /\ PhaseFits(fw, v)
<1>1. x \in UnderWay /\ x.src \in Places /\ x.dst \in Places /\ BridgeOf(x.src) \in Bridges
  BY JobUnderWay, UnderWayTyped DEF IInv
<1>2. journal = [journal EXCEPT ![BridgeOf(x.src)] = journal[BridgeOf(x.src)]]
  BY <1>1 DEF IInv, TypeOK
<1>3. ASSUME NEW v, v = journal[BridgeOf(x.src)], v # None
      PROVE  Ours(v, x) /\ PhaseFits(fw, v)
  <2>1. Ours(v, x)
    BY <1>1, <1>3, JournalOf DEF IInv, OwnerInv, MetaInv
  <2> QED
    BY <1>1, <1>3, <2>1 DEF MetaInv, JournalsFit
<1>4. ~Recovering(t) \/ pc[t] = "reprepare" => PhaseFits(fw, x)
  BY NoneIsNoValue DEF MetaInv, FlowsFit, Carried, At
<1>5. MoveFits(fw, meta, x)
  BY <1>1 DEF MetaInv, MovesFit
<1> QED
  BY <1>1, <1>2, <1>3, <1>4, <1>5

\* Whoever is past the first checkpoint is no recovery, but for the stages it shares.
LEMMA NoRecovery ==
    ASSUME MetaInv, NEW t \in Tasks,
           pc[t] \notin {"acquire_transfer", "query_source", "query_destination", "reprepare"}
    PROVE  ~Recovering(t)
  BY DEF MetaInv, FlowsFit, Carried

\* A journal fits as well after a prepare, an abort or a rollback as before.
LEMMA JournalKeeps ==
    ASSUME NEW x, NEW v, Ours(v, x), PhaseFits(fw, v),
           \/ AtSource(fw, x) /\ Silenced(fw', x)
           \/ Copied(fw, x) /\ Silenced(fw', x)
           \/ Silenced(fw, x) /\ AtSource(fw', x)
    PROVE  PhaseFits(fw', v)
<1>1. \/ AtSource(fw, v) /\ Silenced(fw', v)
      \/ Copied(fw, v) /\ Silenced(fw', v)
      \/ Silenced(fw, v) /\ AtSource(fw', v)
  BY StageOfRoute
<1> QED
  BY <1>1, PhasesAt DEF PhaseFits

\* A row of a shutter that is where its row says.
LEMMA RowAtHome ==
    ASSUME NEW x \in Transfer, RowFits(fw, meta, x), ~Arrived(fw, x), AtSource(fw', x)
    PROVE  \E r \in meta : r.id = x.id /\ Home(fw', r)
<1>1. [id |-> x.id, at |-> x.src] \in meta
  BY DEF RowFits
<1>2. Home(fw', [id |-> x.id, at |-> x.src])
  BY DEF AtSource, Uncopied, Home
<1> QED
  BY <1>1, <1>2

\* A flow ends or goes on and leaves the journal; its command, if it sent one, was
\* of a move that has its journal.
LEMMA Leaves ==
    ASSUME IInv, OwnerInv, MetaInv, NEW t \in Tasks, NEW x \in Transfer, x = job[t],
           Confined(x), Staged(fw', x), Arrived(fw, x) => Arrived(fw', x),
           NEW v, v = journal[BridgeOf(x.src)],
           UNCHANGED fw \/ (v # None /\ PhaseFits(fw', v)),
           UNCHANGED <<meta, journal>>,
           NEW w, w = None \/ (Ours(w, x) /\ PhaseFits(fw', w)),
           job' = [job EXCEPT ![t] = w]
    PROVE  Fitting(t)'
<1>1. v # None => Ours(v, x) /\ PhaseFits(fw, v)
  BY InHand
<1>2. journal' = [journal EXCEPT ![BridgeOf(x.src)] = v]
  BY InHand
<1>3. v = None => \E r \in meta : r.id = x.id /\ Home(fw', r)
  <2> SUFFICES ASSUME v = None PROVE \E r \in meta : r.id = x.id /\ Home(fw', r)
    OBVIOUS
  <2>1. PICK r \in meta : r.id = x.id
    BY DEF MetaInv, RowsFit, Transfer
  <2>2. x \in UnderWay
    BY InHand
  <2>3. \A c \in Bridges : journal[c] # None => journal[c].id # x.id
    BY <2>2, JournalOf DEF IInv, OwnerInv, MetaInv
  <2>4. Home(fw, r)
    BY <2>1, <2>3 DEF MetaInv, RowsFit
  <2> QED
    BY <2>1, <2>4
<1>4. fw'[x.src].role = "source" => v # None
  BY DEF MetaInv, ArchivedIsJournaled, Transfer
<1>5. v = None \/ (Ours(v, x) /\ PhaseFits(fw', v))
  BY <1>1
<1>6. /\ TypeOK /\ RoutesFit
      /\ MovesFit /\ RowsFit /\ JournalsFit /\ ArchivedIsJournaled
  BY DEF IInv, OwnerInv, MetaInv
<1> QED
  BY <1>2, <1>3, <1>4, <1>5, <1>6, FlowStep

\* A flow goes on with v, which it has written to the journal, or ends having
\* written it.
LEMMA Journals ==
    ASSUME IInv, OwnerInv, MetaInv, NEW t \in Tasks, NEW x \in Transfer, x = job[t],
           Confined(x), Arrived(fw, x) => Arrived(fw', x),
           NEW v \in Transfer, Ours(v, x), PhaseFits(fw', v),
           journal' = [journal EXCEPT ![BridgeOf(x.src)] = v],
           UNCHANGED meta,
           NEW w \in {v, None}, job' = [job EXCEPT ![t] = w]
    PROVE  Fitting(t)'
<1>1. Staged(fw', x)
  <2>1. Staged(fw', v)
    BY PhasesAt
  <2> QED
    BY <2>1, StageOfRoute
<1>2. /\ TypeOK /\ RoutesFit
      /\ MovesFit /\ RowsFit /\ JournalsFit /\ ArchivedIsJournaled
  BY DEF IInv, OwnerInv, MetaInv
<1>3. /\ v = None => \E r \in meta : r.id = x.id /\ Home(fw', r)
      /\ fw'[x.src].role = "source" => v # None
  BY NoneIsNoValue
<1>4. /\ v = None \/ (Ours(v, x) /\ PhaseFits(fw', v))
      /\ w = None \/ (Ours(w, x) /\ PhaseFits(fw', w))
  OBVIOUS
<1> QED
  BY <1>1, <1>2, <1>3, <1>4, FlowStep

\* A flow ends and clears its journal.
LEMMA ClearsHome ==
    ASSUME IInv, OwnerInv, MetaInv, NEW t \in Tasks, NEW x \in Transfer, x = job[t],
           Confined(x), Staged(fw', x), Arrived(fw, x) => Arrived(fw', x),
           fw'[x.src].role # "source",
           \E r \in meta : r.id = x.id /\ Home(fw', r),
           journal' = [journal EXCEPT ![BridgeOf(x.src)] = None],
           UNCHANGED meta, job' = [job EXCEPT ![t] = None]
    PROVE  Fitting(t)'
<1>1. /\ TypeOK /\ RoutesFit
      /\ MovesFit /\ RowsFit /\ JournalsFit /\ ArchivedIsJournaled
  BY DEF IInv, OwnerInv, MetaInv
<1> QED
  BY <1>1, FlowStep

-----------------------------------------------------------------------------
(* The options: a row is moved once its destination is the active owner *)

\* Both rows of the shutter are replaced by the destination's.
LEMMA FinishMoves ==
    ASSUME IInv, OwnerInv, MetaInv, NEW t \in Tasks, NEW x \in Transfer, x = job[t],
           Arrived(fw, x), NEW j, Ours(j, x), Finish(t, j), UNCHANGED fw
    PROVE  meta' = {r \in meta : r.id # x.id} \cup {[id |-> x.id, at |-> x.dst]}
<1> DEFINE new == [id |-> x.id, at |-> x.dst]
<1>1. meta' = (meta \ (RowsOf(x.id, BridgeOf(x.src)) \cup RowsOf(x.id, BridgeOf(x.dst))))
                 \cup {new}
  BY DEF Finish, Ours
<1>2. PICK q \in meta : q.id = x.id /\ q.at \in {x.src, x.dst}
  BY InHand DEF MoveFits, RowFits
<1>3. \A r \in meta : r.id = x.id => r = q
  BY <1>2 DEF MetaInv, RowsFit
<1>4. \A r \in meta : /\ r.id = x.id
                      <=> r \in RowsOf(x.id, BridgeOf(x.src)) \cup RowsOf(x.id, BridgeOf(x.dst))
  BY <1>2, <1>3 DEF RowsOf
<1> HIDE DEF new
<1>5. meta' = {r \in meta : r.id # x.id} \cup {new}
  BY <1>1, <1>4
<1> QED
  BY <1>5 DEF new

LEMMA FinishFits ==
    ASSUME IInv, OwnerInv, MetaInv, NEW t \in Tasks, NEW x \in Transfer, x = job[t],
           Arrived(fw, x), NEW j, Ours(j, x), Finish(t, j), UNCHANGED fw
    PROVE  Fitting(t)'
<1> DEFINE new == [id |-> x.id, at |-> x.dst]
<1>1. meta' = {r \in meta : r.id # x.id} \cup {new}
  BY FinishMoves
<1>2. UNCHANGED <<fw, journal>> /\ \A u \in Tasks : job'[u] = IF u = t THEN None ELSE job[u]
  BY DEF Finish, Finished, IInv, TypeOK
<1>3. x \in UnderWay /\ new.id = x.id /\ new.at = x.dst
  BY InHand
<1>4. UnderWay' \subseteq UnderWay
  BY <1>2 DEF UnderWay
<1>5. ASSUME NEW i \in UnderWay, ~Ours(i, x) PROVE i.id # x.id
  BY <1>3, <1>5, OneMoveEach DEF IInv, OwnerInv, MetaInv
<1>6. MovesFit'
  <2> SUFFICES ASSUME NEW i \in UnderWay' PROVE MoveFits(fw', meta', i)
    BY DEF MovesFit
  <2>1. MoveFits(fw, meta, i) /\ i \in UnderWay
    BY <1>4 DEF MetaInv, MovesFit
  <2>2. CASE Ours(i, x)
    <3>1. Arrived(fw', i) /\ [id |-> i.id, at |-> i.dst] = new
      BY <1>2, <2>2, StageOfRoute DEF Ours
    <3> QED
      BY <1>1, <1>2, <2>1, <3>1 DEF MoveFits, RowFits
  <2>3. CASE ~Ours(i, x)
    <3>1. i.id # x.id
      BY <1>5, <2>1, <2>3
    <3> HIDE DEF new
    <3>2. \A p : [id |-> i.id, at |-> p] \in meta => [id |-> i.id, at |-> p] \in meta'
      BY <1>1, <3>1
    <3> QED
      BY <1>2, <2>1, <3>2 DEF MoveFits, RowFits
  <2> QED
    BY <2>2, <2>3
<1>7. RowsFit'
  <2>1. \A s \in Shutters : \E r \in meta' : r.id = s
    <3> SUFFICES ASSUME NEW s \in Shutters PROVE \E r \in meta' : r.id = s
      OBVIOUS
    <3>1. PICK r \in meta : r.id = s
      BY DEF MetaInv, RowsFit
    <3> QED
      BY <1>1, <1>3, <3>1
  <2>2. \A q, r \in meta' : q.id = r.id => q = r
    BY <1>1, <1>3 DEF MetaInv, RowsFit
  <2>3. Home(fw', new)
    BY <1>2, <1>3 DEF Arrived, Home
  <2>4. ASSUME NEW r \in meta'
        PROVE  \/ \E b \in Bridges : journal'[b] # None /\ journal'[b].id = r.id
               \/ Home(fw', r)
    <3>1. CASE r = new
      BY <2>3, <3>1
    <3>2. CASE r \in meta
      BY <1>2, <3>2 DEF MetaInv, RowsFit
    <3> QED
      BY <1>1, <3>1, <3>2
  <2> QED
    BY <2>1, <2>2, <2>4 DEF RowsFit
<1>8. JournalsFit' /\ ArchivedIsJournaled'
  BY <1>2 DEF MetaInv, JournalsFit, ArchivedIsJournaled
<1>9. PhaseHeld(t)'
  BY <1>2 DEF PhaseHeld
<1> QED
  BY <1>6, <1>7, <1>8, <1>9 DEF Fitting

-----------------------------------------------------------------------------
(* Reconciliation *)

\* The reconciled phase is the one that the copies prove, unless a start archived
\* the source between the readings.
LEMMA ReconciledExact ==
    ASSUME SlotShape, NEW x \in Transfer, Staged(fw, x),
           x.phase = "active" => Arrived(fw, x),
           NEW s, \/ s = fw[x.src]
                  \/ Silenced(fw, x) /\ s.role = "none" /\ s.phase = "active",
           NEW d, d = fw[x.dst], ReconciledPhase(x, s, d) # None
    PROVE  LET phase == ReconciledPhase(x, s, d)
           IN  /\ AtSource(fw, x) => phase = "preparing"
               /\ Silenced(fw, x) => phase = IF s = fw[x.src] THEN "prepared" ELSE "preparing"
               /\ Copied(fw, x) => phase = "imported"
               /\ Granted(fw, x) => phase = "activated"
               /\ Erased(fw, x) => phase = "committed"
               /\ Arrived(fw, x) => phase = "active"
<1>1. AtSource(fw, x) \/ Silenced(fw, x) => x.phase # "active"
  BY StageReads
<1>2. x.dst \in Places
  BY DEF Transfer
<1>3. d.role = "destination" => d.phase # "empty"
  BY <1>2, DestinationShape
<1>4. CASE s = fw[x.src]
  BY <1>1, <1>3, <1>4, StageReads DEF ReconciledPhase, Gone
<1>5. CASE s # fw[x.src]
  BY <1>1, <1>3, <1>5, StageReads DEF ReconciledPhase, Gone
<1> QED
  BY <1>4, <1>5

\* The two readings of a task.
LEMMA Readings ==
    ASSUME MetaInv, NEW t \in Tasks, NEW x, x = job[t], pc[t] = "query_destination"
    PROVE  \/ seen[t] = fw[x.src]
           \/ /\ Recovering(t) /\ Silenced(fw, x)
              /\ seen[t].role = "none" /\ seen[t].phase = "active"
  BY DEF MetaInv, FlowsFit, Carried, At

LEMMA ReconciledFits ==
    ASSUME IInv, OwnerInv, MetaInv, NEW t \in Tasks, QueryDestination(t), UNCHANGED fw,
           NEW x \in Transfer, x = job[t],
           NEW j, j = Reconciled(job[t], seen[t], fw[job[t].dst])
    PROVE  /\ Ours(j, x) /\ PhaseFits(fw', j)
           /\ j.phase = "preparing" /\ ~Recovering(t) => AtSource(fw, x)
           /\ j.phase = "active" => Arrived(fw, x)
           /\ j.phase \in {"prepared", "imported"} => fw[x.src].role = "source"
<1> DEFINE s == seen[t]
           d == fw[x.dst]
<1>1. \/ s = fw[x.src]
      \/ Recovering(t) /\ Silenced(fw, x) /\ s.role = "none" /\ s.phase = "active"
  BY Readings DEF QueryDestination, At
<1>2. Acceptable(x, s, d)
  BY QueryOutcome
<1>3. Ours(j, x) /\ j.phase = ReconciledPhase(x, s, d)
  BY DEF Reconciled, Amend, Ours
<1>4. ReconciledPhase(x, s, d) # None
  BY <1>2 DEF Acceptable
<1>5. Staged(fw, x) /\ (x.phase = "active" => Arrived(fw, x))
  BY InHand DEF MoveFits
<1>6. SlotShape
  BY DEF IInv
<1> HIDE DEF s, d
<1>7. /\ AtSource(fw, x) => j.phase = "preparing"
      /\ Silenced(fw, x) => j.phase = IF s = fw[x.src] THEN "prepared" ELSE "preparing"
      /\ Copied(fw, x) => j.phase = "imported"
      /\ Granted(fw, x) => j.phase = "activated"
      /\ Erased(fw, x) => j.phase = "committed"
      /\ Arrived(fw, x) => j.phase = "active"
  BY <1>1, <1>3, <1>4, <1>5, <1>6, ReconciledExact DEF d
<1>8. /\ AtSource(fw, j) <=> AtSource(fw, x)
      /\ Silenced(fw, j) <=> Silenced(fw, x)
      /\ Copied(fw, j) <=> Copied(fw, x)
      /\ Granted(fw, j) <=> Granted(fw, x)
      /\ Erased(fw, j) <=> Erased(fw, x)
      /\ Arrived(fw, j) <=> Arrived(fw, x)
  BY <1>3, StageOfRoute
<1>9. PhaseFits(fw, j)
  BY <1>5, <1>7, <1>8 DEF PhaseFits, Staged
<1>10. j.phase \in {"prepared", "imported"} => fw[x.src].role = "source"
  BY <1>5, <1>7, StageReads DEF Staged
<1>11. /\ j.phase = "preparing" /\ ~Recovering(t) => AtSource(fw, x)
       /\ j.phase = "active" => Arrived(fw, x)
  BY <1>1, <1>5, <1>7 DEF Staged
<1> QED
  BY <1>3, <1>9, <1>10, <1>11

\* What a task does with the reconciled transfer.
LEMMA OutcomeFits ==
    ASSUME IInv, OwnerInv, MetaInv, NEW t \in Tasks, NEW x \in Transfer, x = job[t],
           NEW j \in Transfer, AfterReconcile(t, j), Ours(j, x), PhaseFits(fw', j),
           j.phase = "preparing" /\ ~Recovering(t) => AtSource(fw, x),
           j.phase = "active" => Arrived(fw, x),
           UNCHANGED fw
    PROVE  Fitting(t)'
<1>0. j.src = x.src /\ j.dst = x.dst /\ j.id = x.id
  BY DEF Ours
<1>1. /\ Confined(x) /\ (Arrived(fw, x) => Arrived(fw', x))
      /\ Staged(fw', x)
  BY InHand DEF Confined, MoveFits
<1>2. CASE Finished(t) /\ UNCHANGED meta /\ SetPendingTransfer(j)
  <2>1. /\ job' = [job EXCEPT ![t] = None] /\ UNCHANGED meta
        /\ journal' = [journal EXCEPT ![BridgeOf(x.src)] = j]
    BY <1>0, <1>2 DEF Finished, SetPendingTransfer
  <2> QED
    BY <1>1, <2>1, Journals
<1>3. CASE Await(t, j, "exchange") /\ SetPendingTransfer(j)
  <2>1. /\ job' = [job EXCEPT ![t] = j] /\ UNCHANGED meta
        /\ journal' = [journal EXCEPT ![BridgeOf(x.src)] = j]
    BY <1>0, <1>3 DEF Await, Learn, SetPendingTransfer
  <2> QED
    BY <1>1, <2>1, Journals
<1>4. CASE UNCHANGED journal /\ \E stage : Await(t, j, stage)
  <2>1. job' = [job EXCEPT ![t] = j] /\ UNCHANGED <<meta, journal>>
    BY <1>4 DEF Await, Learn
  <2> QED
    BY <1>1, <2>1, Leaves
<1>5. CASE Finish(t, j) /\ j.phase = "active"
  BY <1>5, FinishFits
<1>6. CASE /\ Finished(t) /\ UNCHANGED meta /\ j.phase = "active" /\ MetadataCommitted(j)
           /\ journal' = [journal EXCEPT ![BridgeOf(j.src)] = None]
  <2>1. Arrived(fw', x) /\ [id |-> x.id, at |-> x.dst] \in meta
    BY <1>0, <1>6 DEF MetadataCommitted, RowsOf
  <2>2. Home(fw', [id |-> x.id, at |-> x.dst])
    BY <2>1 DEF Arrived, Home
  <2>3. fw'[x.src].role # "source"
    BY <2>1, StageReads
  <2>4. \E r \in meta : r.id = x.id /\ Home(fw', r)
    BY <2>1, <2>2
  <2> QED
    BY <1>0, <1>1, <1>6, <2>3, <2>4, ClearsHome DEF Finished
<1>7. CASE op[t] = "rollback" /\ j.phase = "preparing" /\ Clear(t, j)
  <2>1. AtSource(fw, x) /\ AtSource(fw', x)
    BY <1>7 DEF Recovering
  <2>2. fw'[x.src].role # "source" /\ ~Arrived(fw, x)
    BY <2>1, StageReads
  <2>3. \E r \in meta : r.id = x.id /\ Home(fw', r)
    BY <2>1, <2>2, InHand, RowAtHome DEF MoveFits
  <2> QED
    BY <1>0, <1>1, <1>7, <2>2, <2>3, ClearsHome DEF Clear, Finished
<1>8. CASE op[t] = "resume" /\ Resume(t, j)
  BY <1>3, <1>5, <1>8 DEF Resume
<1>9. CASE op[t] = "reconcile" /\ Publish(t, j)
  BY <1>2, <1>6, <1>9 DEF Publish
<1>10. CASE op[t] = "rollback" /\ RollBack(t, j)
  BY <1>4, <1>7, <1>10 DEF RollBack
<1> QED
  BY <1>8, <1>9, <1>10 DEF AfterReconcile

-----------------------------------------------------------------------------
(* The steps of a flow, one by one *)

\* A busy task has its transfer.
LEMMA HasJob ==
    ASSUME IInv, NEW t \in Tasks, pc[t] # "idle"
    PROVE  job[t] \in Transfer
  BY DEF IInv, LocalsHeld

\* A prepare archives the source, or finds it archived.
LEMMA PrepareFits ==
    ASSUME IInv, OwnerInv, MetaInv, NEW t \in Tasks, NEW x \in Transfer, x = job[t],
           FwPrepare(x.src)
    PROVE  /\ Confined(x) /\ (Arrived(fw, x) => Arrived(fw', x))
           /\ fw'[x.src].role = "source"
           /\ \A v : Ours(v, x) /\ PhaseFits(fw, v) => PhaseFits(fw', v)
           /\ fw[x.src].role = "source" => UNCHANGED fw
<1>1. Staged(fw, x)
  BY InHand DEF MoveFits
<1>2. CASE fw[x.src].role = "source" /\ UNCHANGED fw
  BY <1>2 DEF Confined
<1>3. CASE Archives(t)
  <2>1. AtSource(fw, x) /\ Silenced(fw', x) /\ Confined(x)
    BY <1>1, <1>3, Advances
  <2> QED
    BY <2>1, JournalKeeps, StageReads
<1> QED
  BY <1>2, <1>3 DEF FwPrepare, Archives

\* A command of the transfer, executed: where it leads, whether its reply comes
\* or not.
LEMMA ExecuteFits ==
    ASSUME IInv, OwnerInv, MetaInv, NEW t \in Tasks, pc[t] = "exchange",
           NEW x \in Transfer, x = job[t], NEW next \in Phases, Execute(x, next)
    PROVE  /\ Confined(x) /\ (Arrived(fw, x) => Arrived(fw', x))
           /\ PhaseFits(fw', x)
           /\ \A v : Ours(v, x) /\ v.phase = next => PhaseFits(fw', v)
           /\ x.phase = "preparing" =>
                 \A v : Ours(v, x) /\ PhaseFits(fw, v) => PhaseFits(fw', v)
<1>1. PhaseFits(fw, x) /\ Staged(fw, x)
  BY InHand, NoRecovery, PhasesAt
<1>0. \A v : Ours(v, x) =>
          /\ Silenced(fw', v) <=> Silenced(fw', x)
          /\ Copied(fw', v) <=> Copied(fw', x)
          /\ Granted(fw', v) <=> Granted(fw', x)
          /\ Erased(fw', v) <=> Erased(fw', x)
          /\ Arrived(fw', v) <=> Arrived(fw', x)
  BY StageOfRoute
<1>2. CASE x.phase = "preparing" /\ next = "prepared" /\ FwPrepare(x.src)
  <2>1. /\ Confined(x) /\ (Arrived(fw, x) => Arrived(fw', x))
        /\ fw'[x.src].role = "source" /\ PhaseFits(fw', x)
        /\ \A v : Ours(v, x) /\ PhaseFits(fw, v) => PhaseFits(fw', v)
    BY <1>1, <1>2, PrepareFits DEF Ours
  <2>2. Silenced(fw', x)
    BY <1>2, <2>1, StageReads DEF PhaseFits
  <2> QED
    BY <1>0, <1>2, <2>1, <2>2 DEF PhaseFits
<1>3. CASE x.phase = "prepared" /\ next = "imported" /\ Imports(t)
  <2>1. Silenced(fw, x) /\ Copied(fw', x) /\ Confined(x)
    BY <1>1, <1>3, Advances
  <2> QED
    BY <1>0, <1>3, <2>1, StageReads DEF PhaseFits
<1>4. CASE x.phase = "imported" /\ next = "activated" /\ Activates(t)
  <2>1. Copied(fw, x) /\ Granted(fw', x) /\ Confined(x)
    BY <1>1, <1>4, Advances
  <2> QED
    BY <1>0, <1>4, <2>1, StageReads DEF PhaseFits
<1>5. CASE x.phase = "activated" /\ next = "committed" /\ Commits(t)
  <2>1. Granted(fw, x) /\ Erased(fw', x) /\ Confined(x)
    BY <1>1, <1>5, Advances
  <2> QED
    BY <1>0, <1>5, <2>1, StageReads DEF PhaseFits
<1>6. CASE x.phase = "committed" /\ next = "active" /\ Finalizes(t)
  <2>1. Erased(fw, x) /\ Arrived(fw', x) /\ Confined(x)
    BY <1>1, <1>6, Advances
  <2> QED
    BY <1>0, <1>6, <2>1, StageReads DEF PhaseFits
<1> QED
  BY <1>2, <1>3, <1>4, <1>5, <1>6
  DEF Execute, Imports, Activates, Commits, Finalizes

\* The copy at the destination is given up, then the source reactivated.
LEMMA UndoFits ==
    ASSUME IInv, OwnerInv, MetaInv, NEW t \in Tasks, NEW x \in Transfer, x = job[t],
           Aborts(t) \/ RollsBack(t)
    PROVE  /\ Confined(x) /\ ~Arrived(fw, x) /\ Staged(fw', x)
           /\ \A v : Ours(v, x) /\ PhaseFits(fw, v) => PhaseFits(fw', v)
           /\ RollsBack(t) => AtSource(fw', x)
           /\ fw[x.src].role = "source"
<1>1. Staged(fw, x)
  BY InHand DEF MoveFits
<1>2. /\ Aborts(t) => Copied(fw, x) /\ Silenced(fw', x) /\ Confined(x)
      /\ RollsBack(t) => Silenced(fw, x) /\ AtSource(fw', x) /\ Confined(x)
  BY <1>1, Advances
<1>3. fw[x.src].role = "source" /\ Staged(fw', x)
  BY <1>2, StageReads DEF Staged
<1> QED
  BY <1>2, <1>3, JournalKeeps, StageReads

\* Steps that send a command.
LEMMA ExchangeFits ==
    ASSUME IInv, OwnerInv, MetaInv, NEW t \in Tasks, Exchange(t)
    PROVE  Fitting(t)'
<1>1. pc[t] = "exchange"
  BY DEF Exchange, At
<1>2. PICK x \in Transfer : x = job[t]
  BY <1>1, HasJob
<1>3. PICK next \in Phases :
         Execute(x, next) /\ Learn(t, Replied(x, next)) /\ SetPendingTransfer(Replied(x, next))
  BY <1>2 DEF Exchange
<1>4. PICK v : v = Replied(x, next)
  OBVIOUS
<1>5. Ours(v, x) /\ v.phase = next
  BY <1>4 DEF Replied, Amend, Ours
<1>6. v \in Transfer
  <2>1. fw' \in [Places -> SlotStates]
    BY <1>3, ExecuteType DEF IInv
  <2>2. x.src \in Places
    BY DEF Transfer
  <2>3. fw'[x.src] \in SlotStates
    BY <2>1, <2>2
  <2> QED
    BY <1>4, <2>3, AmendType DEF Replied, Transfer, SlotStates
<1>7. /\ Confined(x) /\ (Arrived(fw, x) => Arrived(fw', x)) /\ PhaseFits(fw', v)
  BY <1>1, <1>2, <1>3, <1>5, ExecuteFits
<1>8. /\ job' = [job EXCEPT ![t] = v]
      /\ journal' = [journal EXCEPT ![BridgeOf(x.src)] = v]
      /\ UNCHANGED meta
  BY <1>3, <1>4, <1>5 DEF Exchange, Learn, SetPendingTransfer, Ours
<1> QED
  BY <1>2, <1>5, <1>6, <1>7, <1>8, Journals

LEMMA ExchangeLostFits ==
    ASSUME IInv, OwnerInv, MetaInv, NEW t \in Tasks, ExchangeLost(t)
    PROVE  Fitting(t)'
<1>1. /\ pc[t] = "exchange" /\ UNCHANGED <<meta, journal>>
      /\ job' = [job EXCEPT ![t] = None]
  BY DEF ExchangeLost, At, Finished
<1>2. PICK x \in Transfer : x = job[t]
  BY <1>1, HasJob
<1>3. PICK v : v = journal[BridgeOf(x.src)]
  OBVIOUS
<1>4. PICK next \in Phases : Execute(x, next)
  BY <1>2 DEF ExchangeLost
<1>5. /\ v # None /\ (op[t] # "start" => v = x)
  BY <1>1, <1>2, <1>3 DEF MetaInv, FlowsFit, Carried, At
<1>6. op[t] = "start" => x.phase = "preparing"
  BY <1>1, <1>2 DEF IInv, StartPrepares
<1>7. Ours(v, x) /\ PhaseFits(fw, v)
  BY <1>2, <1>3, <1>5, InHand
<1>8. Confined(x) /\ (Arrived(fw, x) => Arrived(fw', x)) /\ PhaseFits(fw', x) /\ PhaseFits(fw', v)
  BY <1>1, <1>2, <1>4, <1>5, <1>6, <1>7, ExecuteFits
<1>9. Staged(fw', x)
  BY <1>8, PhasesAt
<1> QED
  BY <1>1, <1>2, <1>3, <1>5, <1>8, <1>9, Leaves

LEMMA UndoneFits ==
    ASSUME IInv, OwnerInv, MetaInv, NEW t \in Tasks,
           AbortLost(t) \/ RollbackLost(t) \/ Abort(t)
    PROVE  Fitting(t)'
<1>1. pc[t] \in {"abort", "rollback"} /\ UNCHANGED <<meta, journal>>
  BY DEF AbortLost, RollbackLost, Abort, At
<1>2. PICK x \in Transfer : x = job[t]
  BY <1>1, HasJob
<1>3. PICK v : v = journal[BridgeOf(x.src)]
  OBVIOUS
<1>4. Aborts(t) \/ RollsBack(t)
  BY DEF AbortLost, RollbackLost, Abort, Aborts, RollsBack, At
<1>5. /\ Confined(x) /\ ~Arrived(fw, x) /\ Staged(fw', x)
      /\ \A i : Ours(i, x) /\ PhaseFits(fw, i) => PhaseFits(fw', i)
      /\ fw[x.src].role = "source"
  BY <1>2, <1>4, UndoFits
<1>6. v # None
  BY <1>3, <1>5 DEF MetaInv, ArchivedIsJournaled, Transfer
<1>7. PhaseFits(fw', v)
  BY <1>2, <1>3, <1>5, <1>6, InHand
<1>8. PhaseFits(fw', x) /\ Ours(x, x)
  BY <1>1, <1>2, <1>5, InHand, NoRecovery DEF Ours
<1>9. job' = [job EXCEPT ![t] = None] \/ job' = [job EXCEPT ![t] = x]
  BY <1>2 DEF AbortLost, RollbackLost, Abort, Finished, IInv, TypeOK
<1> QED
  BY <1>1, <1>2, <1>3, <1>5, <1>6, <1>7, <1>8, <1>9, Leaves

LEMMA RollbackFits ==
    ASSUME IInv, OwnerInv, MetaInv, NEW t \in Tasks, Rollback(t)
    PROVE  Fitting(t)'
<1>1. pc[t] # "idle"
  BY DEF Rollback, At
<1>2. PICK x \in Transfer : x = job[t]
  BY <1>1, HasJob
<1>3. RollsBack(t)
  BY DEF Rollback, RollsBack, At
<1>4. Confined(x) /\ ~Arrived(fw, x) /\ AtSource(fw', x) /\ Staged(fw', x)
  BY <1>2, <1>3, UndoFits
<1>5. \E r \in meta : r.id = x.id /\ Home(fw', r)
  BY <1>2, <1>4, InHand, RowAtHome DEF MoveFits
<1>6. fw'[x.src].role # "source"
  BY <1>4, StageReads
<1>7. /\ journal' = [journal EXCEPT ![BridgeOf(x.src)] = None]
      /\ UNCHANGED meta /\ job' = [job EXCEPT ![t] = None]
  BY <1>2 DEF Rollback, Clear, Finished
<1> QED
  BY <1>2, <1>4, <1>5, <1>6, <1>7, ClearsHome

\* Steps that write the journal or the options.
LEMMA CheckpointFits ==
    ASSUME IInv, OwnerInv, MetaInv, NEW t \in Tasks, Checkpoint(t)
    PROVE  Fitting(t)'
<1>1. pc[t] = "checkpoint"
  BY DEF Checkpoint, At
<1>2. PICK x \in Transfer : x = job[t]
  BY <1>1, HasJob
<1>3. /\ UNCHANGED <<fw, meta>> /\ job' = [job EXCEPT ![t] = x]
      /\ journal' = [journal EXCEPT ![BridgeOf(x.src)] = x]
  BY <1>2 DEF Checkpoint, SetPendingTransfer, IInv, TypeOK
<1>4. Confined(x) /\ (Arrived(fw, x) => Arrived(fw', x)) /\ Ours(x, x)
  BY <1>3 DEF Confined, Ours
<1>5. PhaseFits(fw', x)
  BY <1>1, <1>2, <1>3, InHand, NoRecovery
<1> QED
  BY <1>2, <1>3, <1>4, <1>5, Journals

LEMMA QueryFits ==
    ASSUME IInv, OwnerInv, MetaInv, NEW t \in Tasks, QueryDestination(t)
    PROVE  Fitting(t)'
<1>1. pc[t] # "idle" /\ UNCHANGED fw
  BY DEF QueryDestination, At
<1>2. PICK x \in Transfer : x = job[t]
  BY <1>1, HasJob
<1>3. PICK j \in Transfer : /\ j = Reconciled(job[t], seen[t], fw[job[t].dst])
                            /\ \/ AfterReconcile(t, j)
                               \/ Await(t, j, "reprepare") /\ UNCHANGED journal
  BY QueryDoes DEF IInv
<1>4. /\ Ours(j, x) /\ PhaseFits(fw', j)
      /\ j.phase = "preparing" /\ ~Recovering(t) => AtSource(fw, x)
      /\ j.phase = "active" => Arrived(fw, x)
  BY <1>1, <1>2, <1>3, ReconciledFits
<1>5. CASE AfterReconcile(t, j)
  BY <1>1, <1>2, <1>4, <1>5, OutcomeFits
<1>6. CASE Await(t, j, "reprepare") /\ UNCHANGED journal
  <2>1. Confined(x) /\ (Arrived(fw, x) => Arrived(fw', x)) /\ Staged(fw', x)
    BY <1>1, <1>2, InHand DEF MoveFits, Confined
  <2>2. UNCHANGED <<meta, journal>> /\ job' = [job EXCEPT ![t] = j]
    BY <1>6 DEF Await, Learn
  <2> QED
    BY <1>1, <1>2, <1>4, <2>1, <2>2, Leaves
<1> QED
  BY <1>3, <1>5, <1>6

\* Whoever repeats a prepare has seen the source archived, and finds it so.
LEMMA RepreparesNothing ==
    ASSUME IInv, OwnerInv, MetaInv, NEW t \in Tasks, pc[t] = "reprepare",
           FwPrepare(job[t].src)
    PROVE  UNCHANGED fw
<1>1. fw[job[t].src].role = "source"
  BY DEF MetaInv, FlowsFit, Carried, At
<1> QED
  BY <1>1, HasJob, PrepareFits

LEMMA ReprepareFits ==
    ASSUME IInv, OwnerInv, MetaInv, NEW t \in Tasks, Reprepare(t)
    PROVE  Fitting(t)'
<1>1. pc[t] = "reprepare" /\ UNCHANGED fw
  BY RepreparesNothing DEF Reprepare, At
<1>2. PICK x \in Transfer : x = job[t]
  BY <1>1, HasJob
<1>3. PICK backup \in {None, fw'[x.src].id} :
         AfterReconcile(t, Amend(x, x.phase, fw'[x.src].token, backup))
  BY <1>2 DEF Reprepare
<1>4. PICK j : j = Amend(x, x.phase, fw'[x.src].token, backup)
  OBVIOUS
<1>5. FwPrepare(x.src) /\ x.phase \in {"prepared", "imported"}
  BY <1>2 DEF Reprepare, At, IInv, OperationFits
<1>6. Ours(j, x) /\ j.phase = x.phase
  BY <1>4 DEF Amend, Ours
<1>7. PhaseFits(fw', j)
  <2>1. PhaseFits(fw', x)
    BY <1>1, <1>2, InHand
  <2> QED
    BY <1>6, <2>1, StageOfRoute DEF PhaseFits
<1>8. j \in Transfer
  <2>1. x.src \in Places
    BY DEF Transfer
  <2>2. PICK s \in Shutters, k \in Tokens : fw'[x.src] = Archived(s, k)
    BY <1>5, <2>1, PrepareShape DEF IInv
  <2>3. fw'[x.src].id \in Shutters /\ fw'[x.src].token \in Tokens
    BY <2>2, Shapes
  <2>4. x.phase \in Phases
    BY DEF Transfer
  <2> QED
    BY <1>4, <2>3, <2>4, AmendType
<1> QED
  BY <1>1, <1>2, <1>3, <1>4, <1>5, <1>6, <1>7, <1>8, OutcomeFits

LEMMA ReprepareLostFits ==
    ASSUME IInv, OwnerInv, MetaInv, NEW t \in Tasks, ReprepareLost(t)
    PROVE  Fitting(t)'
<1>1. /\ pc[t] = "reprepare" /\ UNCHANGED <<fw, meta, journal>>
      /\ job' = [job EXCEPT ![t] = None]
  BY RepreparesNothing DEF ReprepareLost, At, Finished
<1>2. PICK x \in Transfer : x = job[t]
  BY <1>1, HasJob
<1>3. Confined(x) /\ (Arrived(fw, x) => Arrived(fw', x)) /\ Staged(fw', x)
  BY <1>1, <1>2, InHand DEF MoveFits, Confined
<1> QED
  BY <1>1, <1>2, <1>3, Leaves

LEMMA CompleteFits ==
    ASSUME IInv, OwnerInv, MetaInv, NEW t \in Tasks, Complete(t)
    PROVE  Fitting(t)'
<1>1. pc[t] = "finish"
  BY DEF Complete, At
<1>2. PICK x \in Transfer : x = job[t]
  BY <1>1, HasJob
<1>3. x.phase = "active"
  BY <1>1, <1>2 DEF MetaInv, FlowsFit, Carried, At
<1>4. Arrived(fw, x) /\ Ours(x, x)
  BY <1>2, <1>3, InHand DEF MoveFits, Ours
<1>5. Finish(t, x) /\ UNCHANGED fw
  BY <1>2 DEF Complete
<1> QED
  BY <1>2, <1>4, <1>5, FinishFits

\* Steps that wait for a lock or a reply, take one in, or end in an error.
LEMMA WaitFits ==
    ASSUME IInv, OwnerInv, MetaInv, NEW t \in Tasks,
           \/ AcquireStart(t) \/ EnsureDestinationEmpty(t) \/ StopMotor(t)
           \/ ResumeStart(t) \/ AcquireTransfer(t) \/ QuerySource(t) \/ Recover(t)
           \/ Fail(t) \/ RejectStart(t)
    PROVE  Fitting(t)'
<1>1. UNCHANGED <<fw, meta, journal>>
  BY DEF AcquireStart, EnsureDestinationEmpty, StopMotor, ResumeStart, AcquireTransfer,
         QuerySource, Recover, Submit, Fail, RejectStart
<1>2. TypeOK
  BY DEF IInv
<1>3. CASE \/ AcquireStart(t) \/ EnsureDestinationEmpty(t) \/ StopMotor(t)
           \/ ResumeStart(t) \/ AcquireTransfer(t) \/ QuerySource(t)
  <2>1. /\ UNCHANGED job /\ pc'[t] # "reprepare" /\ pc[t] # "idle"
        /\ Recovering(t)' \/ ~Recovering(t)
    BY <1>2, <1>3
    DEF AcquireStart, EnsureDestinationEmpty, StopMotor, ResumeStart, AcquireTransfer,
        QuerySource, EnterTransferLock, GoTo, At, Recovering, TypeOK, IInv, OperationFits
  <2>2. PhaseHeld(t)'
    BY <1>1, <2>1, HasJob, InHand DEF PhaseHeld, At
  <2>3. UnderWay' \subseteq UnderWay
    BY <1>1, <2>1 DEF UnderWay
  <2> QED
    BY <1>1, <2>2, <2>3, QuietStep DEF MetaInv, Fitting
<1>4. ASSUME NEW v \in {None} \cup {journal[b] : b \in Bridges},
             job' = [job EXCEPT ![t] = v]
      PROVE  Fitting(t)'
  <2>1. \A u \in Tasks : job'[u] = IF u = t THEN v ELSE job[u]
    BY <1>2, <1>4 DEF TypeOK
  <2>2. UnderWay' \subseteq UnderWay
    BY <1>1, <2>1 DEF UnderWay
  <2>3. PhaseHeld(t)'
    BY <1>1, <2>1 DEF PhaseHeld, MetaInv, JournalsFit
  <2> QED
    BY <1>1, <2>2, <2>3, QuietStep DEF MetaInv, Fitting
<1>5. CASE Recover(t)
  BY <1>4, <1>5 DEF Recover, Submit
<1>6. CASE Fail(t) \/ RejectStart(t)
  BY <1>4, <1>6 DEF Fail, RejectStart, Finished
<1> QED
  BY <1>3, <1>5, <1>6

\* A new move is of a shutter at home, and its destination is nobody's copy.
LEMMA StartFits ==
    ASSUME IInv, OwnerInv, MetaInv, NEW t \in Tasks, OrderlyStart(t)
    PROVE  Fitting(t)'
<1>1. PICK row \in meta, dst \in Places :
         /\ \A j \in UnderWay : SameRoute(j, row.at, dst) \/ Apart(j, row.at, dst)
         /\ SubmitStart(t, row, dst)
  BY DEF OrderlyStart
<1>2. PICK x : x = [id |-> row.id, src |-> row.at, dst |-> dst,
                    phase |-> "preparing", token |-> None, backup |-> None]
  OBVIOUS
<1>3. /\ x.id = row.id /\ x.src = row.at /\ x.dst = dst /\ x.phase = "preparing"
      /\ row.id \in Shutters /\ row.at \in Places /\ BridgeOf(row.at) \in Bridges
      /\ row = [id |-> row.id, at |-> row.at] /\ row.id # None
  BY <1>2, NoneIsNoValue DEF IInv, TypeOK, Rows, Places, BridgeOf
<1>4. /\ UNCHANGED <<fw, meta, journal>> /\ job' = [job EXCEPT ![t] = x]
      /\ journal[BridgeOf(row.at)] = None
  BY <1>1, <1>2 DEF SubmitStart
<1>5. \A u \in Tasks : job'[u] = IF u = t THEN x ELSE job[u]
  BY <1>4 DEF IInv, TypeOK
<1>6. ASSUME NEW b \in Bridges, journal[b] # None
      PROVE  journal[b] \in UnderWay /\ Apart(journal[b], row.at, dst)
  <2>1. journal[b] \in UnderWay /\ BridgeOf(journal[b].src) = b
    BY <1>6, JournalUnderWay DEF OwnerInv, RoutesFit
  <2>2. journal[b].src # row.at
    BY <1>4, <1>6, <2>1
  <2> QED
    BY <1>1, <2>1, <2>2 DEF SameRoute
<1>7. Home(fw, row)
  <2> SUFFICES ASSUME NEW b \in Bridges, journal[b] # None, journal[b].id = row.id
               PROVE  FALSE
    BY DEF MetaInv, RowsFit
  <2>1. journal[b] \in UnderWay /\ Apart(journal[b], row.at, dst)
    BY <1>6
  <2>2. PICK q \in meta : q.id = row.id /\ q.at \in {journal[b].src, journal[b].dst}
    BY <2>1 DEF MetaInv, MovesFit, MoveFits, RowFits
  <2>3. q = row
    BY <2>2 DEF MetaInv, RowsFit
  <2> QED
    BY <2>1, <2>2, <2>3 DEF Apart
<1>8. fw[dst].role # "destination"
  <2> SUFFICES ASSUME fw[dst].role = "destination" PROVE FALSE
    OBVIOUS
  <2>1. PICK b \in Bridges : journal[b] # None /\ journal[b].dst = dst
    BY DEF OwnerInv, DestinationJournaled
  <2> QED
    BY <1>6, <2>1 DEF Apart
<1>9. AtSource(fw, x)
  BY <1>3, <1>7, <1>8 DEF AtSource, Uncopied, Home
<1>10. PhaseFits(fw, x) /\ MoveFits(fw, meta, x)
  BY <1>3, <1>9 DEF MoveFits, PhaseFits, RowFits, Staged
<1>11. UnderWay' \subseteq UnderWay \cup {x}
  BY <1>4, <1>5 DEF UnderWay
<1>12. MovesFit'
  BY <1>4, <1>10, <1>11 DEF MovesFit, MetaInv
<1>13. RowsFit' /\ JournalsFit' /\ ArchivedIsJournaled'
  BY <1>4 DEF RowsFit, JournalsFit, ArchivedIsJournaled, MetaInv
<1>14. PhaseHeld(t)'
  BY <1>4, <1>5, <1>10 DEF PhaseHeld
<1> QED
  BY <1>12, <1>13, <1>14 DEF Fitting

\* Every step keeps what journals and options tell.
LEMMA MovesStep ==
    ASSUME IInv, OwnerInv, MetaInv, NEW t \in Tasks, OrderlyMove(t)
    PROVE  Fitting(t)'
  BY WaitFits, StartFits, CheckpointFits, ExchangeFits, QueryFits, ReprepareFits,
     ExchangeLostFits, ReprepareLostFits, UndoneFits, RollbackFits, CompleteFits
  DEF OrderlyMove, Progress, Interrupted

-----------------------------------------------------------------------------
(* What a task holds across an await *)

LEMMA CarriedAcross ==
    ASSUME IInv, OwnerInv, MetaInv, NEW t \in Tasks, OrderlyMove(t)
    PROVE  Carried(t)'
<1>0. /\ TypeOK /\ Carried(t) /\ PhaseHeld(t)'
      /\ ~Recovering(t) \/ op[t] = "reconcile"
  BY MovesStep DEF IInv, MetaInv, FlowsFit, Fitting, Recovering
<1>1. CASE Finished(t)
  <2>1. pc'[t] = "idle" /\ job'[t] = None /\ op'[t] = "none"
    BY <1>0, <1>1 DEF Finished, TypeOK
  <2> QED
    BY <2>1 DEF Carried, At, Recovering
<1>2. CASE \/ AcquireStart(t) \/ EnsureDestinationEmpty(t) \/ StopMotor(t)
           \/ OrderlyStart(t)
  <2>1. /\ pc'[t] \in {"acquire_start", "ensure_empty", "stop_motor", "checkpoint"}
        /\ op'[t] = "start"
    BY <1>0, <1>2 DEF AcquireStart, EnsureDestinationEmpty, StopMotor, OrderlyStart,
                      SubmitStart, GoTo, At, TypeOK, IInv, OperationFits
  <2> QED
    BY <1>0, <2>1 DEF Carried, At, Recovering, PhaseHeld
<1>3. CASE Checkpoint(t)
  <2>1. job[t] \in Transfer /\ BridgeOf(job[t].src) \in Bridges /\ job[t] # None
    BY <1>3, NoneIsNoValue DEF Checkpoint, At, IInv, LocalsHeld, Transfer, Places, BridgeOf
  <2>2. /\ pc'[t] = "exchange" /\ job'[t] = job[t] /\ op'[t] = op[t]
        /\ journal'[BridgeOf(job[t].src)] = job[t]
    BY <1>0, <1>3, <2>1 DEF Checkpoint, GoTo, SetPendingTransfer, TypeOK
  <2>3. ~Recovering(t)
    BY <1>3, NoRecovery DEF Checkpoint, At
  <2> QED
    BY <1>0, <2>1, <2>2, <2>3 DEF Carried, At, Recovering, PhaseHeld
<1>4. CASE Exchange(t)
  <2>1. PICK next \in Phases : AfterReply(t, Replied(job[t], next)) /\ Learn(t, Replied(job[t], next))
    BY <1>4 DEF Exchange
  <2>2. PICK v : v = Replied(job[t], next)
    OBVIOUS
  <2>3. /\ pc'[t] \in {"prepared", "finish", "checkpoint"} /\ job'[t] = v
        /\ pc'[t] = "finish" => v.phase = "active"
        /\ op'[t] = op[t]
    BY <1>0, <1>4, <2>1, <2>2 DEF Exchange, AfterReply, Learn, GoTo, TypeOK
  <2>4. ~Recovering(t)
    BY <1>4, NoRecovery DEF Exchange, At
  <2> QED
    BY <1>0, <2>3, <2>4 DEF Carried, At, Recovering, PhaseHeld
<1>5. CASE Recover(t)
  <2>1. pc'[t] \in {"query_source", "acquire_transfer"}
    BY <1>0, <1>5 DEF Recover, Submit, EnterTransferLock, GoTo, TypeOK
  <2> QED
    BY <1>0, <2>1 DEF Carried, At, Recovering, PhaseHeld
<1>6. CASE ResumeStart(t) \/ AcquireTransfer(t) \/ QuerySource(t)
  <2>1. /\ pc'[t] \in {"query_source", "acquire_transfer", "query_destination"}
        /\ pc'[t] = "query_destination" =>
              seen'[t] = fw[job[t].src] /\ UNCHANGED <<fw, job>>
    BY <1>0, <1>6 DEF ResumeStart, AcquireTransfer, QuerySource, EnterTransferLock,
                      GoTo, TypeOK
  <2> QED
    BY <1>0, <2>1 DEF Carried, At, Recovering, PhaseHeld
<1>7. CASE Abort(t)
  <2>1. pc'[t] = "rollback" /\ op'[t] = op[t]
    BY <1>0, <1>7 DEF Abort, GoTo, TypeOK
  <2>2. ~Recovering(t)
    BY <1>7, NoRecovery DEF Abort, At
  <2> QED
    BY <1>0, <2>1, <2>2 DEF Carried, At, Recovering, PhaseHeld
<1>8. ASSUME NEW j \in Transfer, Settles(t, j) PROVE Carried(t)'
  <2>1. CASE Await(t, j, "exchange") /\ op[t] = "resume" /\ SetPendingTransfer(j)
    <3>1. BridgeOf(j.src) \in Bridges /\ j # None
      BY NoneIsNoValue DEF Transfer, Places, BridgeOf
    <3>2. /\ pc'[t] = "exchange" /\ job'[t] = j /\ op'[t] = "resume"
          /\ journal'[BridgeOf(j.src)] = j
      BY <1>0, <2>1, <3>1 DEF Await, Learn, GoTo, SetPendingTransfer, TypeOK
    <3> QED
      BY <1>0, <3>1, <3>2 DEF Carried, At, Recovering, PhaseHeld
  <2>2. CASE (\E stage \in {"rollback", "abort"} : Await(t, j, stage)) /\ op[t] = "rollback"
    <3>1. pc'[t] \in {"rollback", "abort"} /\ op'[t] = "rollback"
      BY <1>0, <2>2 DEF Await, GoTo, TypeOK
    <3> QED
      BY <1>0, <3>1 DEF Carried, At, Recovering, PhaseHeld
  <2> QED
    BY <1>1, <1>8, <2>1, <2>2 DEF Settles
<1>9. CASE QueryDestination(t)
  <2>1. PICK x \in Transfer : x = job[t]
    BY <1>9, HasJob DEF QueryDestination, At
  <2>2. PICK j \in Transfer : /\ j = Reconciled(job[t], seen[t], fw[job[t].dst])
                              /\ UNCHANGED fw
                              /\ \/ AfterReconcile(t, j)
                                 \/ /\ Await(t, j, "reprepare")
                                    /\ j.phase \in {"prepared", "imported"}
    BY <1>9, QueryDoes DEF IInv
  <2>3. CASE AfterReconcile(t, j)
    BY <1>8, <2>3, ReconcileOutcome
  <2>4. CASE Await(t, j, "reprepare") /\ j.phase \in {"prepared", "imported"}
    <3>1. fw'[x.src].role = "source" /\ j.src = x.src
      BY <1>9, <2>1, <2>2, <2>4, ReconciledFits DEF Ours
    <3>2. pc'[t] = "reprepare" /\ job'[t] = j
      BY <1>0, <2>4 DEF Await, Learn, GoTo, TypeOK
    <3> QED
      BY <1>0, <3>1, <3>2 DEF Carried, At, Recovering, PhaseHeld
  <2> QED
    BY <2>2, <2>3, <2>4
<1>10. CASE Reprepare(t)
  <2>1. PICK j \in Transfer : AfterReconcile(t, j)
    BY <1>10, ReprepareDoes DEF IInv, Control
  <2> QED
    BY <1>8, <2>1, ReconcileOutcome
<1>11. CASE \/ Fail(t) \/ RejectStart(t) \/ ExchangeLost(t) \/ ReprepareLost(t)
            \/ AbortLost(t) \/ RollbackLost(t) \/ Rollback(t) \/ Complete(t)
  BY <1>1, <1>11 DEF Fail, RejectStart, ExchangeLost, ReprepareLost, AbortLost,
                     RollbackLost, Rollback, Clear, Complete, Finish
<1> QED
  BY <1>2, <1>3, <1>4, <1>5, <1>6, <1>7, <1>9, <1>10, <1>11
  DEF OrderlyMove, Progress, Interrupted

-----------------------------------------------------------------------------
(* What the other tasks hold: only a recovery may be about the same move *)

\* A recovery sends nothing that has an effect; outside the lock a flow only archives.
LEMMA FirmwareMoves ==
    ASSUME IInv, OwnerInv, MetaInv, NEW t \in Tasks, OrderlyMove(t)
    PROVE  \/ UNCHANGED fw
           \/ /\ job[t] \in Transfer /\ ~Recovering(t) /\ Confined(job[t])
              /\ \/ AtSource(fw, job[t]) /\ Silenced(fw', job[t])
                 \/ transferLock = t
<1>1. UNCHANGED fw \/ Prepares(t) \/ LockedCommand(t)
  BY OrderlyIsStep, FirmwareStep
<1>2. (pc[t] # "idle" /\ ~Recovering(t)) \/ UNCHANGED fw
  BY <1>1, NoRecovery, RepreparesNothing DEF Prepares, LockedCommand
<1>3. CASE pc[t] # "idle" /\ ~Recovering(t)
  <2>1. PICK x \in Transfer : x = job[t]
    BY <1>3, HasJob
  <2>2. Staged(fw, x)
    BY <2>1, InHand DEF MoveFits
  <2>3. CASE Prepares(t)
    <3>1. UNCHANGED fw \/ Archives(t)
      BY <2>3 DEF Prepares, FwPrepare, Archives
    <3>2. Archives(t) => AtSource(fw, x) /\ Silenced(fw', x) /\ Confined(x)
      BY <2>1, <2>2, Advances
    <3> QED
      BY <1>3, <2>1, <3>1, <3>2
  <2>4. CASE LockedCommand(t)
    <3>1. transferLock = t
      BY <2>4, CommandLocked DEF IInv, Control
    <3>2. pc[t] = "exchange" /\ (\E next \in Phases : Execute(x, next)) => Confined(x)
      BY <2>1, ExecuteFits
    <3>3. Aborts(t) \/ RollsBack(t) => Confined(x)
      BY <2>1, UndoFits
    <3>4. Confined(x)
      BY <2>1, <2>4, <3>2, <3>3 DEF LockedCommand, Aborts, RollsBack
    <3> QED
      BY <1>3, <2>1, <3>1, <3>4
  <2> QED
    BY <1>1, <2>3, <2>4
<1> QED
  BY <1>2, <1>3

\* A recovery writes its journal under _transfer_lock, and clears that of a move
\* which has ended.
LEMMA RecoveryWrites ==
    ASSUME IInv, OwnerInv, MetaInv, NEW t \in Tasks, Recovering(t), OrderlyMove(t),
           NEW x \in Transfer, x = job[t]
    PROVE  \/ UNCHANGED journal
           \/ /\ transferLock = t
              /\ \E v : /\ journal' = [journal EXCEPT ![BridgeOf(x.src)] = v]
                        /\ v # None \/ Arrived(fw, x)
<1>1. pc[t] \in {"acquire_transfer", "query_source", "query_destination", "reprepare"}
  BY NoRecovery
<1>2. ASSUME NEW j \in Transfer, AfterReconcile(t, j), j.src = x.src, pc[t] \in Locked,
             j.phase = "active" => Arrived(fw, x)
      PROVE  /\ transferLock = t
             /\ \E v : /\ journal' = [journal EXCEPT ![BridgeOf(x.src)] = v]
                       /\ v # None \/ Arrived(fw, x)
  <2>1. Publish(t, j)
    BY <1>2 DEF AfterReconcile, Recovering
  <2>2. transferLock = t
    BY <1>2 DEF IInv, LockHeld
  <2>3. j # None
    BY NoneIsNoValue
  <2> QED
    BY <1>2, <2>1, <2>2, <2>3 DEF Publish, SetPendingTransfer
<1>3. CASE QueryDestination(t)
  <2>1. PICK j \in Transfer : /\ j = Reconciled(job[t], seen[t], fw[job[t].dst])
                              /\ UNCHANGED fw
                              /\ AfterReconcile(t, j) \/ UNCHANGED journal
    BY <1>3, QueryDoes DEF IInv
  <2>2. Ours(j, x) /\ (j.phase = "active" => Arrived(fw, x))
    BY <1>3, <2>1, ReconciledFits
  <2>3. pc[t] \in Locked
    BY <1>3 DEF QueryDestination, At, Locked
  <2> QED
    BY <1>2, <2>1, <2>2, <2>3 DEF Ours
<1>4. CASE Reprepare(t)
  <2>1. PICK j \in Transfer : /\ j.src = x.src /\ AfterReconcile(t, j)
                              /\ j.phase \in {"prepared", "imported"}
    BY <1>4, ReprepareDoes DEF IInv, Control
  <2>2. pc[t] \in Locked
    BY <1>4 DEF Reprepare, At, Locked
  <2> QED
    BY <1>2, <2>1, <2>2
<1>5. CASE \/ AcquireTransfer(t) \/ QuerySource(t) \/ Fail(t) \/ ReprepareLost(t)
  BY <1>5 DEF AcquireTransfer, QuerySource, Fail, ReprepareLost
<1>6. \/ QueryDestination(t) \/ Reprepare(t)
      \/ AcquireTransfer(t) \/ QuerySource(t) \/ Fail(t) \/ ReprepareLost(t)
  BY <1>1 DEF OrderlyMove, Progress, Interrupted, Recover, Submit, OrderlyStart, SubmitStart,
         AcquireStart, RejectStart, EnsureDestinationEmpty, StopMotor, Checkpoint, Exchange,
         ResumeStart, Abort, Rollback, Complete, ExchangeLost, AbortLost, RollbackLost, At
<1> QED
  BY <1>3, <1>4, <1>5, <1>6

LEMMA OthersHold ==
    ASSUME Alone, IInv, OwnerInv, MetaInv, NEW t \in Tasks, OrderlyMove(t),
           NEW u \in Tasks \ {t}
    PROVE  Carried(u)'
<1>1. Step(t) /\ TypeOK /\ Carried(u)
  BY OrderlyIsStep DEF IInv, MetaInv, FlowsFit
<1>2. pc'[u] = pc[u] /\ job'[u] = job[u] /\ seen'[u] = seen[u] /\ op'[u] = op[u]
  BY <1>1, OthersUnchanged
<1>3. CASE UNCHANGED <<fw, journal>>
  BY <1>1, <1>2, <1>3 DEF Carried, At, Recovering
<1>4. CASE pc[u] = "idle"
  BY <1>1, <1>2, <1>4 DEF Carried, At, Recovering
<1>5. ASSUME NEW x \in Transfer, x = job[t], NEW y \in Transfer, y = job[u]
      PROVE  Carried(u)'
  <2>1. /\ x \in UnderWay /\ y \in UnderWay /\ BridgeOf(x.src) \in Bridges
        /\ x # None /\ y # None /\ y.src \in Places /\ BridgeOf(y.src) \in Bridges
    BY <1>1, <1>5, JobUnderWay, UnderWayTyped, NoneIsNoValue
  <2>2. UNCHANGED journal \/ \E v : journal' = [journal EXCEPT ![BridgeOf(x.src)] = v]
    BY <1>1, <1>5, JournalStep DEF IInv, OwnerInv, Writes, Clears, Control
  <2>3. UNCHANGED fw \/ Confined(x)
    BY <1>5, FirmwareMoves
  <2>4. CASE ~Ours(y, x)
    <3>1. BridgeOf(y.src) # BridgeOf(x.src) /\ y.src \notin {x.src, x.dst}
      BY <1>1, <2>1, <2>4, OthersApart DEF OwnerInv, MetaInv
    <3>2. journal'[BridgeOf(y.src)] = journal[BridgeOf(y.src)]
      BY <1>1, <2>1, <2>2, <3>1 DEF TypeOK
    <3>3. Confined(x)
      BY <2>3 DEF Confined
    <3>4. fw'[y.src] = fw[y.src]
      BY <2>1, <3>1, <3>3 DEF Confined
    <3>5. Stays(y)
      BY <1>1, <2>1, <2>4, <3>3, OthersKept DEF OwnerInv, MetaInv
    <3>6. /\ PhaseFits(fw, y) => PhaseFits(fw', y)
          /\ Silenced(fw, y) => Silenced(fw', y)
      BY <3>5, StaysFit DEF Stays
    <3> QED
      BY <1>1, <1>2, <1>5, <3>2, <3>4, <3>6 DEF Carried, At, Recovering
  <2>5. CASE Ours(y, x) /\ Recovering(t)
    <3>1. UNCHANGED fw
      BY <2>5, FirmwareMoves
    <3>2. CASE UNCHANGED journal
      BY <1>3, <3>1, <3>2
    <3>3. CASE pc[u] # "exchange"
      BY <1>1, <1>2, <1>5, <3>1, <3>3 DEF Carried, At, Recovering
    <3>4. CASE pc[u] = "exchange" /\ ~UNCHANGED journal
      <4>1. /\ transferLock = t
            /\ \E v : /\ journal' = [journal EXCEPT ![BridgeOf(x.src)] = v]
                      /\ v # None \/ Arrived(fw, x)
        BY <1>5, <2>5, <3>4, RecoveryWrites
      <4>2. op[u] = "start"
        BY <3>4, <4>1 DEF IInv, LockHeld, Stepping
      <4>3. y.phase = "preparing" /\ PhaseFits(fw, y)
        BY <1>5, <3>4, <4>2, InHand, NoRecovery DEF IInv, StartPrepares
      <4>4. ~Arrived(fw, y)
        BY <4>3, PhasesAt
      <4>5. ~Arrived(fw, x)
        BY <2>5, <4>4, StageOfRoute
      <4>6. journal'[BridgeOf(y.src)] # None
        BY <1>1, <2>1, <2>5, <4>1, <4>5 DEF TypeOK, Ours
      <4> QED
        BY <1>1, <1>2, <1>5, <3>1, <3>4, <4>2, <4>6 DEF Carried, At, Recovering
    <3> QED
      BY <3>2, <3>3, <3>4
  <2>6. CASE Ours(y, x) /\ ~Recovering(t)
    <3>1. Recovering(u)
      BY <1>5, <2>1, <2>6 DEF Alone, Apart, Ours
    <3>2. pc[u] \in {"acquire_transfer", "query_source", "query_destination", "reprepare"}
      BY <3>1, NoRecovery
    <3>3. CASE UNCHANGED fw
      BY <1>1, <1>2, <1>5, <3>1, <3>2, <3>3 DEF Carried, At, Recovering
    <3>4. CASE pc[u] \in {"acquire_transfer", "query_source"}
      BY <1>1, <1>2, <1>5, <3>1, <3>4 DEF Carried, At, Recovering
    <3>5. CASE ~UNCHANGED fw /\ pc[u] \in {"query_destination", "reprepare"}
      <4>1. transferLock = u
        BY <3>5 DEF IInv, LockHeld, Locked
      <4>2. AtSource(fw, x) /\ Silenced(fw', x)
        BY <1>5, <3>5, <4>1, FirmwareMoves
      <4>3. AtSource(fw, y) /\ Silenced(fw', y)
        BY <2>6, <4>2, StageOfRoute
      <4>4. fw[y.src].role = "none" /\ fw[y.src].phase = "active" /\ ~Silenced(fw, y)
        BY <4>3, StageReads
      <4> QED
        BY <1>1, <1>2, <1>5, <3>1, <3>5, <4>3, <4>4 DEF Carried, At, Recovering
    <3> QED
      BY <3>2, <3>3, <3>4, <3>5
  <2> QED
    BY <2>4, <2>5, <2>6
<1>6. CASE job[t] \notin Transfer
  <2>1. UNCHANGED <<fw, journal>>
    BY <1>1, <1>6, FirmwareMoves, JournalStep DEF IInv, OwnerInv, Control
  <2> QED
    BY <1>3, <2>1
<1> QED
  BY <1>4, <1>5, <1>6, HasJob

-----------------------------------------------------------------------------
(* The theorems *)

LEMMA MetaInit == Init => MetaInv
<1> SUFFICES ASSUME Init PROVE MetaInv
  OBVIOUS
<1>1. PICK home \in [Shutters -> Places] :
         /\ meta = {[id |-> s, at |-> home[s]] : s \in Shutters}
         /\ \A s \in Shutters : fw[home[s]] = Active(s)
         /\ \A p \in Places :
               \/ fw[p] = Empty
               \/ \E s \in Shutters : fw[p] = Active(s) /\ p = home[s]
  BY InitSlots
<1>2. /\ \A b \in Bridges : journal[b] = None
      /\ \A t \in Tasks : job[t] = None /\ pc[t] = "idle" /\ op[t] = "none"
  BY DEF Init
<1>3. UnderWay = {}
  BY <1>2 DEF UnderWay
<1>4. ASSUME NEW s \in Shutters, NEW p \in Places, fw[p].id = s
      PROVE  p = home[s]
  BY <1>1, <1>4, Shapes, NoneIsNoValue
<1>5. ASSUME NEW r \in meta PROVE Home(fw, r)
  <2>1. PICK s \in Shutters : r = [id |-> s, at |-> home[s]]
    BY <1>1
  <2> QED
    BY <1>1, <1>4, <2>1 DEF Home, Nowhere
<1>6. RowsFit
  <2>1. \A s \in Shutters : [id |-> s, at |-> home[s]] \in meta
    BY <1>1
  <2>2. \A s \in Shutters : \E r \in meta : r.id = s
    <3> SUFFICES ASSUME NEW s \in Shutters PROVE \E r \in meta : r.id = s
      OBVIOUS
    <3>1. [id |-> s, at |-> home[s]].id = s
      OBVIOUS
    <3> QED
      BY <2>1, <3>1
  <2>3. ASSUME NEW q \in meta, NEW r \in meta, q.id = r.id PROVE q = r
    <3>1. PICK s1 \in Shutters : q = [id |-> s1, at |-> home[s1]]
      BY <1>1
    <3>2. PICK s2 \in Shutters : r = [id |-> s2, at |-> home[s2]]
      BY <1>1
    <3> QED
      BY <2>3, <3>1, <3>2
  <2> QED
    BY <1>5, <2>2, <2>3 DEF RowsFit
<1>7. ArchivedIsJournaled
  BY <1>1, Shapes DEF ArchivedIsJournaled
<1>8. MovesFit /\ JournalsFit /\ FlowsFit
  BY <1>2, <1>3 DEF MovesFit, JournalsFit, FlowsFit, Carried, At, Recovering
<1> QED
  BY <1>6, <1>7, <1>8 DEF MetaInv

\* What dies with Home Assistant is only what the tasks held.
LEMMA MetaCrash ==
    ASSUME MetaInv, Crash
    PROVE  MetaInv'
<1>1. /\ UNCHANGED <<fw, meta, journal>>
      /\ \A u \in Tasks : job'[u] = None /\ pc'[u] = "idle" /\ op'[u] = "none"
  BY DEF Crash
<1>2. FlowsFit'
  BY <1>1 DEF FlowsFit, Carried, At, Recovering
<1>3. UnderWay' \subseteq UnderWay
  BY <1>1 DEF UnderWay
<1> QED
  BY <1>1, <1>2, <1>3, QuietStep DEF MetaInv

LEMMA MetaStep ==
    ASSUME Alone, IInv, OwnerInv, MetaInv, NEW t \in Tasks, OrderlyMove(t)
    PROVE  MetaInv'
<1>1. FlowsFit'
  BY CarriedAcross, OthersHold DEF FlowsFit
<1> QED
  BY <1>1, MovesStep DEF MetaInv, Fitting

LEMMA MetaStutter ==
    ASSUME MetaInv, UNCHANGED vars
    PROVE  MetaInv'
<1>1. UnderWay' = UnderWay
  BY DEF vars, UnderWay
<1>2. FlowsFit'
  BY DEF vars, MetaInv, FlowsFit, Carried, At, Recovering
<1> QED
  BY <1>1, <1>2, QuietStep DEF vars, MetaInv

LEMMA SoloIsOrderly == SoloSpec => OrderlySpec /\ []Alone
<1>1. Init => Alone
  BY DEF Init, Alone
<1>2. Alone /\ [SoloNext]_vars => Alone'
  BY DEF SoloNext, vars, Alone, Recovering, Apart
<1>3. [SoloNext]_vars => [OrderlyNext]_vars
  BY DEF SoloNext
<1> QED
  BY <1>1, <1>2, <1>3, PTL DEF SoloSpec, OrderlySpec

\* One flow at a time, and the recoveries in between, is never two of one move.
THEOREM OneFlowIsSolo ==
    ASSUME \A t, u \in Tasks : t = u
    PROVE  OrderlySpec => SoloSpec
<1>1. (\A t, u \in Tasks : t = u) /\ [OrderlyNext]_vars => [SoloNext]_vars
  BY DEF SoloNext, Alone
<1>2. (\A t, u \in Tasks : t = u) => [](\A t, u \in Tasks : t = u)
  BY PTL
<1> QED
  BY <1>1, <1>2, PTL DEF SoloSpec, OrderlySpec

\* Journals and options tell where every shutter is, whichever replies are lost,
\* whenever Home Assistant dies and however many recoveries race the flows, as long
\* as a user opens no two flows of one move.
THEOREM MetaInvariance == SoloSpec => [](IInv /\ OwnerInv /\ MetaInv)
<1>1. Init => MetaInv
  BY MetaInit
<1>2. Alone /\ IInv /\ OwnerInv /\ MetaInv /\ [SoloNext]_vars => MetaInv'
  <2> SUFFICES ASSUME Alone, IInv, OwnerInv, MetaInv, [SoloNext]_vars PROVE MetaInv'
    OBVIOUS
  <2>1. CASE UNCHANGED vars
    BY <2>1, MetaStutter
  <2>2. CASE SoloNext
    BY <2>2, OrderlyIsNext, MetaStep, MetaCrash DEF SoloNext
  <2> QED
    BY <2>1, <2>2
<1> QED
  BY <1>1, <1>2, SoloIsOrderly, OwnerInvariance, PTL DEF SoloSpec

\* As long as a user opens no two flows of one move, an archived controller has its
\* journal in its own bridge's store, where the menu looks for it
\* (_async_start_transfer).
THEOREM ArchivedAreJournaled == SoloSpec => []ArchivedIsJournaled
<1>1. IInv /\ OwnerInv /\ MetaInv => ArchivedIsJournaled
  BY DEF MetaInv
<1> QED
  BY <1>1, MetaInvariance, PTL

LEMMA SettledAgrees ==
    ASSUME MetaInv
    PROVE  MetadataAgrees
<1> SUFFICES ASSUME Settled PROVE MetadataAgrees
  BY DEF MetadataAgrees
<1>1. \A r \in meta : fw[r.at] = Active(r.id)
  BY DEF Settled, MetaInv, RowsFit, Home
<1> QED
  BY <1>1 DEF MetadataAgrees, MetaInv, RowsFit

\* As long as a user opens no two flows of one move, the options name the active owner
\* of every shutter whenever nothing is pending (_async_finish_bridge_transfer,
\* transfer_metadata_committed).
THEOREM SettledMetadata == SoloSpec => []MetadataAgrees
<1>1. IInv /\ OwnerInv /\ MetaInv => MetadataAgrees
  BY SettledAgrees
<1> QED
  BY <1>1, MetaInvariance, PTL

LEMMA RejectedIsAtSource ==
    ASSUME IInv, MetaInv
    PROVE  RejectedIsUndone
<1> SUFFICES ASSUME NEW b \in Bridges, NEW x, x = journal[b], x # None,
                    ReconciledPhase(x, fw[x.src], fw[x.dst]) = None
             PROVE  /\ fw[x.src] = Active(x.id)
                    /\ \A p \in Places \ {x.src} : fw[p].id # x.id
  BY DEF RejectedIsUndone
<1>1. PhaseFits(fw, x)
  BY DEF MetaInv, JournalsFit
<1>2. AtSource(fw, x)
  <2>1. ~Silenced(fw, x) /\ ~Copied(fw, x) /\ ~Granted(fw, x) /\ ~Erased(fw, x) /\ ~Arrived(fw, x)
    BY NoneIsNoValue, StageReads DEF ReconciledPhase, Gone, Phases
  <2> QED
    BY <1>1, <2>1 DEF PhaseFits
<1> QED
  BY <1>2 DEF AtSource, Uncopied, Nowhere

\* As long as a user opens no two flows of one move, a journal whose reconciliation is
\* rejected is of a shutter that never left its slot, or is back in it
\* (_async_reconcile_transfer, transfer_journal_missing).
THEOREM RejectionsStrandNothing == SoloSpec => []RejectedIsUndone
<1>1. IInv /\ OwnerInv /\ MetaInv => RejectedIsUndone
  BY RejectedIsAtSource
<1> QED
  BY <1>1, MetaInvariance, PTL

LEMMA RowsStep ==
    ASSUME IInv, OwnerInv, MetaInv, NEW t \in Tasks, OrderlyMove(t),
           NEW r \in meta' \ meta
    PROVE  fw[r.at] = Active(r.id)
<1>1. ASSUME NEW x \in Transfer, x = job[t], Arrived(fw, x), NEW j, Ours(j, x),
             Finish(t, j), UNCHANGED fw
      PROVE  fw[r.at] = Active(r.id)
  <2>1. meta' = {q \in meta : q.id # x.id} \cup {[id |-> x.id, at |-> x.dst]}
    BY <1>1, FinishMoves
  <2>2. r = [id |-> x.id, at |-> x.dst]
    BY <2>1
  <2> QED
    BY <1>1, <2>2 DEF Arrived
<1>2. CASE Complete(t)
  <2>1. PICK x \in Transfer : x = job[t]
    BY <1>2, HasJob DEF Complete, At
  <2>2. x.phase = "active"
    BY <1>2, <2>1 DEF Complete, MetaInv, FlowsFit, Carried
  <2>3. Arrived(fw, x)
    BY <2>1, <2>2, InHand DEF MoveFits
  <2>4. Finish(t, x) /\ UNCHANGED fw
    BY <1>2, <2>1 DEF Complete
  <2>5. Ours(x, x)
    BY DEF Ours
  <2> QED
    BY <1>1, <2>1, <2>3, <2>4, <2>5
<1>3. ASSUME NEW j, AfterReconcile(t, j)
      PROVE  UNCHANGED meta \/ (j.phase = "active" /\ Finish(t, j))
  BY <1>3 DEF AfterReconcile, Resume, Publish, RollBack, Clear, Await
<1>4. CASE QueryDestination(t)
  <2>1. PICK x \in Transfer : x = job[t]
    BY <1>4, HasJob DEF QueryDestination, At
  <2>2. PICK j \in Transfer : /\ j = Reconciled(job[t], seen[t], fw[job[t].dst])
                              /\ \/ AfterReconcile(t, j)
                                 \/ Await(t, j, "reprepare")
    BY <1>4, QueryDoes DEF IInv
  <2>3. UNCHANGED fw
    BY <1>4 DEF QueryDestination
  <2>4. Ours(j, x) /\ (j.phase = "active" => Arrived(fw, x))
    BY <1>4, <2>1, <2>2, <2>3, ReconciledFits
  <2>5. j.phase = "active" /\ Finish(t, j)
    BY <1>3, <2>2 DEF Await
  <2> QED
    BY <1>1, <2>1, <2>3, <2>4, <2>5
<1>5. CASE Reprepare(t)
  <2>1. PICK j \in Transfer : j.phase \in {"prepared", "imported"} /\ AfterReconcile(t, j)
    BY <1>5, ReprepareDoes DEF IInv, Control
  <2> QED
    BY <1>3, <2>1
<1>6. \/ QueryDestination(t) \/ Reprepare(t) \/ Complete(t) \/ UNCHANGED meta
  BY DEF OrderlyMove, Progress, Interrupted, Recover, Submit, OrderlyStart, SubmitStart,
         AcquireStart, RejectStart, EnsureDestinationEmpty, StopMotor, Checkpoint, Exchange,
         ResumeStart, AcquireTransfer, QuerySource, Abort, Rollback, Clear, Fail,
         ExchangeLost, ReprepareLost, AbortLost, RollbackLost
<1> QED
  BY <1>2, <1>4, <1>5, <1>6

\* As long as a user opens no two flows of one move, a row of the options never runs
\* ahead of the firmware: it moves to a slot that is already the active owner
\* (_async_finish_bridge_transfer).
THEOREM RowsWaitForOwner == SoloSpec => RowsFollowOwner
<1>1. IInv /\ OwnerInv /\ MetaInv /\ [SoloNext]_vars
         => [\A r \in meta' \ meta : fw[r.at] = Active(r.id)]_vars
  <2> SUFFICES ASSUME IInv, OwnerInv, MetaInv, SoloNext, NEW r \in meta' \ meta
               PROVE  fw[r.at] = Active(r.id)
    OBVIOUS
  <2>1. CASE Crash
    BY <2>1 DEF Crash
  <2> QED
    BY <2>1, OrderlyIsNext, RowsStep DEF SoloNext
<1> QED
  BY <1>1, MetaInvariance, PTL DEF SoloSpec, RowsFollowOwner

=============================================================================
