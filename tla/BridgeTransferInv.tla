-------------------------- MODULE BridgeTransferInv --------------------------
(***************************************************************************)
(* The inductive invariant behind IdentityHeld, for any number of flows    *)
(* running at the same time.  Its argument: only a commit erases a usable  *)
(* copy; a task commits only under _transfer_lock and after it has seen,   *)
(* under that same lock, the destination activated with its token; and a   *)
(* token never stands for two identities, so what is erased at the source  *)
(* is what the destination holds.  The second part, OwnerInv, adds what    *)
(* SingleOwner and the promise need, and the third, MetaInv, what journals *)
(* and options tell of the firmware as long as a user opens no two flows   *)
(* of one move, whatever recoveries do meanwhile (SoloSpec).               *)
(***************************************************************************)
EXTENDS BridgeTransfer

\* A firmware slot is in one of the five states the service reports.
SlotShape ==
    \A p \in Places :
        \/ fw[p] = Empty
        \/ \E s \in Shutters :
              \/ fw[p] = Active(s)
              \/ \E k \in Tokens : fw[p] \in {Archived(s, k), Imported(s, k),
                                               Activated(s, k)}

\* A busy task has its transfer, and its source reading between the queries.
LocalsHeld ==
    \A t \in Tasks :
        /\ pc[t] # "idle" => job[t] \in Transfer
        /\ pc[t] = "query_destination" => seen[t] \in SlotStates

\* Stages reached only under _transfer_lock, and those a start runs without it.
Locked == {"query_source", "query_destination", "reprepare", "abort",
           "rollback", "finish"}
Stepping == {"checkpoint", "exchange"}

LockHeld ==
    \A t \in Tasks :
        pc[t] \in Locked \/ (pc[t] \in Stepping /\ op[t] # "start")
            => transferLock = t

\* Outside the lock a start prepares and does nothing else.
StartPrepares ==
    \A t \in Tasks :
        op[t] = "start" =>
            /\ pc[t] \in {"idle", "acquire_start", "ensure_empty", "stop_motor",
                          "checkpoint", "exchange", "prepared"}
            /\ pc[t] \in {"acquire_start", "ensure_empty", "stop_motor",
                          "checkpoint", "exchange"} => job[t].phase = "preparing"
            /\ pc[t] = "prepared" => job[t].phase = "prepared"

OperationFits ==
    \A t \in Tasks :
        /\ pc[t] \in {"abort", "rollback"} => op[t] = "rollback"
        /\ pc[t] = "reprepare" => job[t].phase \in {"prepared", "imported"}
        /\ pc[t] \in {"acquire_start", "ensure_empty", "stop_motor", "prepared"}
              => op[t] = "start"

\* Whoever may commit has proof, still valid, that the destination is active.
CommitProved ==
    \A t \in Tasks :
        /\ pc[t] \in Stepping
        /\ job[t].phase = "activated"
        => \E s \in Shutters : fw[job[t].dst] = Activated(s, job[t].token)

Backed(j) == j # None /\ j.backup # None => j.token # None

\* A transfer that has a backup has the token the backup is bound to.
BackupsBacked ==
    /\ \A b \in Bridges : Backed(journal[b])
    /\ \A t \in Tasks : Backed(job[t])

\* Token k stands for identity s in a slot, a journal or a running task.
Names(j, k, s) == j # None /\ j.token = k /\ j.backup = s

Bound(k, s) ==
    \/ \E p \in Places : fw[p].token = k /\ fw[p].id = s
    \/ \E b \in Bridges : Names(journal[b], k, s)
    \/ \E t \in Tasks : Names(job[t], k, s)

TokenBinds ==
    \A k \in Tokens : \A r, s \in Shutters : Bound(k, r) /\ Bound(k, s) => r = s

\* The inductive invariant.
IInv ==
    /\ TypeOK
    /\ SlotShape
    /\ LocalsHeld
    /\ LockHeld
    /\ StartPrepares
    /\ OperationFits
    /\ CommitProved
    /\ BackupsBacked
    /\ TokenBinds
    /\ IdentityHeld

-----------------------------------------------------------------------------
(* What is added for SingleOwner and the promise, which need an orderly user. *)
(* The argument: two slots hold an identity only as the archived source and   *)
(* the destination of one move, so whoever makes a slot active must know that *)
(* the other one is silent or gone.                                           *)

\* A journal is kept by its source's bridge; moves under way at the same time are
\* the same one or do not touch.
RoutesFit ==
    /\ \A b \in Bridges : journal[b] # None => BridgeOf(journal[b].src) = b
    /\ \A i \in UnderWay : BridgeOf(i.src) # BridgeOf(i.dst)
    /\ \A i, j \in UnderWay : SameRoute(i, j.src, j.dst) \/ Apart(i, j.src, j.dst)

\* The journal of a move exists as long as its destination is not final, and
\* names the source that has the same token.
DestinationJournaled ==
    \A q \in Places : fw[q].role = "destination" =>
        \E b \in Bridges :
            /\ journal[b] # None
            /\ journal[b].dst = q
            /\ \A p \in Places : fw[p].role = "source" /\ fw[p].token = fw[q].token
                  => journal[b].src = p

SteppingJournaled ==
    \A t \in Tasks : op[t] # "start" /\ pc[t] \in Stepping
        => journal[BridgeOf(job[t].src)] # None

\* The first reading is still true at the second, but a start may have archived
\* the source in between.
SourceSeen ==
    \A t \in Tasks : pc[t] = "query_destination" =>
        \/ seen[t] = fw[job[t].src]
        \/ seen[t].role = "none" /\ seen[t].phase = "active"

\* Whoever may import has proof, still valid, that the source is archived.
ImportProved ==
    \A t \in Tasks : pc[t] \in Stepping /\ job[t].phase = "prepared"
        => fw[job[t].src].role = "source" /\ fw[job[t].src].token = job[t].token

\* Whoever may finalize has proof, still valid, that the source is erased.
FinalizeProved ==
    \A t \in Tasks : pc[t] \in Stepping /\ job[t].phase = "committed"
        => fw[job[t].src] = Empty

\* Whoever may reactivate the source has proof, still valid, that the destination
\* has no copy.
RollbackProved ==
    \A t \in Tasks :
        pc[t] = "rollback" \/ (pc[t] = "reprepare" /\ job[t].phase = "prepared")
            => fw[job[t].dst].role # "destination"

CopiesFit ==
    \A p, q \in Places : p # q /\ fw[p].id = fw[q].id /\ fw[p].id # None =>
        /\ {fw[p].role, fw[q].role} = {"source", "destination"}
        /\ fw[p].token = fw[q].token

OwnerInv ==
    /\ RoutesFit
    /\ DestinationJournaled
    /\ SteppingJournaled
    /\ SourceSeen
    /\ ImportProved
    /\ FinalizeProved
    /\ RollbackProved
    /\ CopiesFit

-----------------------------------------------------------------------------
(* What is added for what journals and options tell.  The argument: where the  *)
(* copies of a moving shutter are determines the phase its journal can have,   *)
(* but for the one command whose reply may be lost; and the row of a shutter   *)
(* that does not move names its only copy.                                     *)

\* A user opens no two flows of one move; recoveries run whenever they like.
Recovering(t) == op[t] = "reconcile"

Alone ==
    \A t, u \in Tasks :
        t # u /\ ~Recovering(t) /\ ~Recovering(u) /\ job[t] # None /\ job[u] # None
            => Apart(job[t], job[u].src, job[u].dst)

SoloNext == OrderlyNext /\ Alone'
SoloSpec == Init /\ [][SoloNext]_vars

\* Where the copies of the shutter of move j are, in the firmware f.
Nowhere(f, s, places) == \A p \in Places \ places : f[p].id # s

Home(f, r) == f[r.at] = Active(r.id) /\ Nowhere(f, r.id, {r.at})

Uncopied(f, j) == Nowhere(f, j.id, {j.src}) /\ f[j.dst].role # "destination"
Archive(f, j) == f[j.src] = Archived(j.id, f[j.src].token)

AtSource(f, j) == f[j.src] = Active(j.id) /\ Uncopied(f, j)
Silenced(f, j) == Archive(f, j) /\ Uncopied(f, j)
Copied(f, j) ==
    /\ Archive(f, j) /\ Nowhere(f, j.id, {j.src, j.dst})
    /\ f[j.dst] = Imported(j.id, f[j.dst].token)
Granted(f, j) ==
    /\ Archive(f, j) /\ Nowhere(f, j.id, {j.src, j.dst})
    /\ f[j.dst] = Activated(j.id, f[j.dst].token)
Erased(f, j) ==
    /\ f[j.src] = Empty /\ Nowhere(f, j.id, {j.dst})
    /\ f[j.dst] = Activated(j.id, f[j.dst].token)
Arrived(f, j) ==
    /\ f[j.src] = Empty /\ Nowhere(f, j.id, {j.dst})
    /\ f[j.dst] = Active(j.id)

Staged(f, j) ==
    \/ AtSource(f, j) \/ Silenced(f, j) \/ Copied(f, j)
    \/ Granted(f, j) \/ Erased(f, j) \/ Arrived(f, j)

\* The phases that a journal can have: after a rollback, an abort or a command
\* whose reply was lost it is not the one the firmware proves.
PhaseFits(f, j) ==
    \/ j.phase \in {"preparing", "prepared", "imported"} /\ AtSource(f, j)
    \/ j.phase \in {"preparing", "prepared", "imported"} /\ Silenced(f, j)
    \/ j.phase \in {"prepared", "imported"} /\ Copied(f, j)
    \/ j.phase \in {"imported", "activated"} /\ Granted(f, j)
    \/ j.phase \in {"activated", "committed"} /\ Erased(f, j)
    \/ j.phase \in {"committed", "active"} /\ Arrived(f, j)

JournalsFit == \A b \in Bridges : journal[b] # None => PhaseFits(fw, journal[b])

\* The row of a moving shutter names the source until the move has ended.
RowFits(f, m, j) ==
    \/ [id |-> j.id, at |-> j.src] \in m
    \/ Arrived(f, j) /\ [id |-> j.id, at |-> j.dst] \in m

\* What a recovery has captured may be out of date, but a move that has ended has
\* ended for good.
MoveFits(f, m, j) ==
    /\ Staged(f, j)
    /\ j.phase = "active" => Arrived(f, j)
    /\ RowFits(f, m, j)

MovesFit == \A j \in UnderWay : MoveFits(fw, meta, j)

RowsFit ==
    /\ \A s \in Shutters : \E r \in meta : r.id = s
    /\ \A q, r \in meta : q.id = r.id => q = r
    /\ \A r \in meta :
          \/ \E b \in Bridges : journal[b] # None /\ journal[b].id = r.id
          \/ Home(fw, r)

\* What a task holds across an await is still so.  A recovery may have read the
\* source just before a start archived it, and it reads only.
Carried(t) ==
    /\ At(t, "idle") => job[t] = None
    /\ Recovering(t) => pc[t] \in {"acquire_transfer", "query_source",
                                   "query_destination", "reprepare"}
    /\ job[t] # None /\ (~Recovering(t) \/ At(t, "reprepare")) => PhaseFits(fw, job[t])
    /\ At(t, "exchange") =>
          /\ journal[BridgeOf(job[t].src)] # None
          /\ op[t] # "start" => journal[BridgeOf(job[t].src)] = job[t]
    /\ At(t, "query_destination") =>
          \/ seen[t] = fw[job[t].src]
          \/ /\ Recovering(t) /\ Silenced(fw, job[t])
             /\ seen[t].role = "none" /\ seen[t].phase = "active"
    /\ At(t, "reprepare") => fw[job[t].src].role = "source"
    /\ At(t, "finish") => job[t].phase = "active"

FlowsFit == \A t \in Tasks : Carried(t)

MetaInv == MovesFit /\ RowsFit /\ JournalsFit /\ ArchivedIsJournaled /\ FlowsFit

=============================================================================
