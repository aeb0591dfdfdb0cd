---------------------------- MODULE ControlProofs ----------------------------
(***************************************************************************)
(* What is proved of Control for any number of tasks and lost connections: *)
(* nobody waits in a circle for its locks, and the owner of a shutter      *)
(* transmits a command at most once, and the other bridge repeats its      *)
(* frame at most once, whichever calls fail, time out or are answered by a *)
(* stale status.                                                           *)
(***************************************************************************)
EXTENDS Control, SequenceTheorems, TLAPS

-----------------------------------------------------------------------------
(* The locks *)


\* The radio lock is held by a task that waits for nothing but a service lock or
\* an answer.
RadioHeld ==
    rfLock # None => stage[rfLock] \in {"wait_service", "sending", "reply", "guard"}

\* A service lock is held by a task that is making that call.
ServiceHeld ==
    \A b \in Bridges : serviceLock[b] # None =>
        /\ stage[serviceLock[b]] \in {"sending", "reply"}
        /\ call[serviceLock[b]].at = b

\* A task that has a call makes it to a bridge.
Calling ==
    \A t \in Tasks : stage[t] \in {"wait_service", "sending", "reply"}
                        => call[t].at \in Bridges

LockTypes ==
    /\ stage \in [Tasks -> Stages]
    /\ rfLock \in Tokens
    /\ serviceLock \in [Bridges -> Tokens]
    /\ DOMAIN call = Tasks
    /\ \A t \in Tasks : DOMAIN call[t] = {"at", "op", "payload", "before", "got"}

LockInv == LockTypes /\ Calling /\ RadioHeld /\ ServiceHeld

-----------------------------------------------------------------------------
\* Initially both locks are free.
LEMMA LockInit == ASSUME None \notin Tasks, Init PROVE LockInv
BY SMTT(30) DEF Init, LockInv, LockTypes, Calling, RadioHeld, ServiceHeld, Tokens,
    Stages, NoCall, Bridges

\* Task t, which had no call or gives back its service lock, makes another call or
\* waits, and keeps the radio lock only for that.
Continues(t) ==
    /\ DOMAIN call' = Tasks
    /\ \A u \in Tasks \ {t} : call'[u] = call[u]
    /\ DOMAIN call'[t] = {"at", "op", "payload", "before", "got"}
    /\ rfLock' \in {rfLock, None}
    /\ \E s \in Stages :
          /\ stage' = [stage EXCEPT ![t] = s]
          /\ s \in {"wait_service", "sending", "reply"} => call'[t].at \in Bridges
          /\ s \in {"wait_service", "sending", "reply", "guard"} \/ rfLock' # t

\* Such a step keeps the invariant.
LEMMA ContinuesKeeps ==
    ASSUME LockInv, None \notin Tasks, NEW t \in Tasks, Continues(t),
           serviceLock' \in [Bridges -> Tokens],
           \A b \in Bridges : serviceLock'[b] # t,
           \A b \in Bridges : serviceLock'[b] \in {serviceLock[b], None}
    PROVE  LockInv'
BY SMTT(60) DEF LockInv, LockTypes, Calling, RadioHeld, ServiceHeld, Tokens, Continues

\* Another call.
LEMMA InvokeContinues ==
    ASSUME LockInv, NEW t \in Tasks, NEW b \in Bridges, NEW op, NEW payload,
           Invoke(t, b, op, payload)
    PROVE  Continues(t)
BY SMTT(30) DEF LockInv, LockTypes, Invoke, Continues, NoCall, Stages

\* The end of the request.
LEMMA FinishContinues ==
    ASSUME LockInv, None \notin Tasks, NEW t \in Tasks, NEW r, Finish(t, r)
    PROVE  Continues(t)
BY SMTT(30) DEF LockInv, LockTypes, Finish, Continues, NoCall, Stages

\* What follows a call that failed.
LEMMA FailedContinues ==
    ASSUME LockInv, None \notin Tasks, NEW t \in Tasks, Failed(t)
    PROVE  Continues(t)
<1>1. Primary \in Bridges /\ Secondary \in Bridges
  BY DEF Bridges
<1>2. CASE Invoke(t, Primary, "control", None)
  BY <1>1, <1>2, InvokeContinues
<1>3. CASE OfferFailed(t, call[t].payload)
  BY <1>1, <1>3, InvokeContinues DEF OfferFailed
<1>4. CASE \E r : Finish(t, r)
  BY <1>4, FinishContinues
<1>5. QED
  BY <1>2, <1>3, <1>4 DEF Failed

\* What follows a call that was answered.
LEMMA AnsweredContinues ==
    ASSUME LockInv, None \notin Tasks, NEW t \in Tasks, NEW s, Answered(t, s)
    PROVE  Continues(t)
<1>1. Primary \in Bridges /\ Secondary \in Bridges
  BY DEF Bridges
<1>2. CASE \E b \in Bridges : \E op, payload : Invoke(t, b, op, payload)
  BY <1>2, InvokeContinues
<1>3. CASE \E r : Finish(t, r)
  BY <1>3, FinishContinues
<1>4. CASE /\ stage' = [stage EXCEPT ![t] = "guard"]
           /\ call' = [call EXCEPT ![t] = NoCall]
           /\ UNCHANGED <<result, rfLock>>
  BY <1>4, SMTT(30) DEF LockInv, LockTypes, Continues, NoCall, Stages
<1>5. QED
  BY <1>1, <1>2, <1>3, <1>4 DEF Answered, PrimaryAnswered

\* A task that is not making a call holds no service lock.
LEMMA NoServiceLock ==
    ASSUME LockInv, NEW t \in Tasks, None \notin Tasks,
           stage[t] \notin {"sending", "reply"}
    PROVE  \A b \in Bridges : serviceLock[b] # t
BY DEF LockInv, ServiceHeld

-----------------------------------------------------------------------------
\* Every step keeps the invariant.
LEMMA LockStep == ASSUME None \notin Tasks, LockInv, [Next]_vars PROVE LockInv'
<1> USE None \notin Tasks
<1>1. ASSUME NEW t \in Tasks, NEW r \in Requests, Submit(t, r) PROVE LockInv'
  <2>1. \A b \in Bridges : serviceLock[b] # t
    BY <1>1, NoServiceLock DEF Submit
  <2>2. rfLock # t
    BY <1>1 DEF Submit, LockInv, RadioHeld
  <2>3. Continues(t)
    <3>1. CASE r = "alias"
      BY <1>1, <3>1, InvokeContinues DEF Submit
    <3>2. CASE r # "alias"
      BY <1>1, <2>2, <3>2, SMTT(30)
         DEF Submit, LockInv, LockTypes, Continues, Stages
    <3>3. QED BY <3>1, <3>2
  <2>4. QED
    BY <1>1, <2>1, <2>3, ContinuesKeeps DEF Submit, LockInv, LockTypes
<1>2. ASSUME NEW t \in Tasks, AcquireRf(t) PROVE LockInv'
  BY <1>2, SMTT(60) DEF AcquireRf, LockInv, LockTypes, Calling, RadioHeld, ServiceHeld,
     Tokens, Stages, NoCall, Bridges, Owner
<1>3. ASSUME NEW t \in Tasks, Send(t) PROVE LockInv'
  <2>1. call[t].at \in Bridges
    BY <1>3 DEF Send, LockInv, Calling
  <2>2. \A b \in Bridges : serviceLock[b] # t
    BY <1>3, NoServiceLock DEF Send
  <2>3. QED
    BY <1>3, <2>1, <2>2, SMTT(60)
       DEF Send, LockInv, LockTypes, Calling, RadioHeld, ServiceHeld, Tokens, Stages
<1>4. ASSUME NEW t \in Tasks, Sent(t) PROVE LockInv'
  BY <1>4, SMTT(60)
     DEF Sent, LockInv, LockTypes, Calling, RadioHeld, ServiceHeld, Tokens, Stages
<1>5. ASSUME NEW t \in Tasks, Release(t), stage[t] = "reply", Continues(t)
      PROVE  LockInv'
  <2>1. call[t].at \in Bridges
    BY <1>5 DEF LockInv, Calling
  <2>2. /\ serviceLock' \in [Bridges -> Tokens]
        /\ \A b \in Bridges : serviceLock'[b] # t
        /\ \A b \in Bridges : serviceLock'[b] \in {serviceLock[b], None}
    BY <1>5, <2>1, SMTT(30) DEF Release, LockInv, LockTypes, ServiceHeld, Tokens
  <2>3. QED
    BY <1>5, <2>2, ContinuesKeeps
<1>6. ASSUME NEW t \in Tasks, Return(t) PROVE LockInv'
  BY <1>5, <1>6, FailedContinues, AnsweredContinues DEF Return
<1>7. ASSUME NEW t \in Tasks, Timeout(t) PROVE LockInv'
  BY <1>5, <1>7, FailedContinues DEF Timeout
<1>8. ASSUME NEW t \in Tasks, Unavailable(t) PROVE LockInv'
  <2>1. \A b \in Bridges : serviceLock[b] # t
    BY <1>8, NoServiceLock DEF Unavailable
  <2>2. Continues(t)
    BY <1>8, FailedContinues DEF Unavailable
  <2>3. QED
    BY <1>8, <2>1, <2>2, ContinuesKeeps DEF Unavailable, LockInv, LockTypes
<1>9. ASSUME NEW t \in Tasks, GuardEnds(t) PROVE LockInv'
  <2>1. \A b \in Bridges : serviceLock[b] # t
    BY <1>9, NoServiceLock DEF GuardEnds
  <2>2. Continues(t)
    BY <1>9, FinishContinues DEF GuardEnds
  <2>3. QED
    BY <1>9, <2>1, <2>2, ContinuesKeeps DEF GuardEnds, LockInv, LockTypes
<1>10. ASSUME NEW b \in Bridges, Deliver(b) PROVE LockInv'
  <2>1. /\ DOMAIN call' = Tasks
        /\ \A t \in Tasks : /\ DOMAIN call'[t] = DOMAIN call[t]
                            /\ call'[t].at = call[t].at
    BY <1>10, SMTT(30) DEF Deliver, Notice, LockInv, LockTypes
  <2>2. UNCHANGED <<stage, rfLock, serviceLock>>
    BY <1>10 DEF Deliver
  <2>3. QED
    BY <2>1, <2>2, SMTT(30) DEF LockInv, LockTypes, Calling, RadioHeld, ServiceHeld, Tokens
<1>11. ASSUME UNCHANGED home PROVE LockInv'
  BY <1>11 DEF home, LockInv, LockTypes, Calling, RadioHeld, ServiceHeld
<1>12. ASSUME NEW b \in Bridges, Firmware(b) \/ Disconnect(b) \/ Reconnect(b)
       PROVE  UNCHANGED home
  BY <1>12 DEF Firmware, Transmit, Transmitted, Arm, Acknowledge, Refuse, Ignore, Takes,
     Disconnect, Reconnect
<1>13. CASE UNCHANGED vars
  BY <1>11, <1>13 DEF vars
<1>14. QED
  BY <1>1, <1>2, <1>3, <1>4, <1>6, <1>7, <1>8, <1>9, <1>10, <1>11, <1>12, <1>13
     DEF Next, TaskStep

\* The invariant contains LocksServe.
LEMMA LockConsequence == LockInv => LocksServe
BY DEF LockInv, RadioHeld, ServiceHeld, LocksServe

\* Nobody waits in a circle: the holder of a service lock is making that call and
\* waits for no lock, the holder of the radio lock for no second radio lock, in
\* every reachable state and for any number of tasks.
THEOREM NoCircle == Spec => []LocksServe
<1>1. None \notin Tasks
  BY ControlAssumption
<1>2. Init => LockInv
  BY <1>1, LockInit
<1>3. LockInv /\ [Next]_vars => LockInv'
  BY <1>1, LockStep
<1>4. LockInv => LocksServe
  BY LockConsequence
<1>5. QED
  BY <1>2, <1>3, <1>4, PTL DEF Spec

-----------------------------------------------------------------------------
(***************************************************************************)
(* A command is transmitted once.  The argument is a budget: as long as a  *)
(* task may still command its owner, nothing of it is queued or            *)
(* transmitted; afterwards at most one command is queued or has been       *)
(* transmitted.  What a secondary repeats is the frame of a task whose     *)
(* owner is the primary.                                                   *)
(***************************************************************************)


\* The owner may still be told to transmit the command of u.
Unissued(u) ==
    \/ stage[u] \in {"new", "wait_rf"}
    \/ stage[u] \in {"wait_service", "sending", "reply"} /\ call[u].op = "arm"
    \/ stage[u] = "wait_service" /\ call[u].op \in {"control", "redundant_control"}

\* Tasks whose frame a secondary may have.
Offered == {u \in Tasks : ~Unissued(u) /\ request[u] # "other"}

Mine(c, u) == c.task = u /\ c.op \in {"control", "redundant_control"}

Queued(u, b) == \E i \in DOMAIN inbox[b] : Mine(inbox[b][i], u)

Budget(u) ==
    /\ Unissued(u) => \A b \in Bridges : sent[u][b] = 0 /\ ~Queued(u, b)
    /\ sent[u][Owner(u)] <= 1
    /\ Queued(u, Owner(u)) => sent[u][Owner(u)] = 0
    /\ \A i, j \in DOMAIN inbox[Owner(u)] :
          Mine(inbox[Owner(u)][i], u) /\ Mine(inbox[Owner(u)][j], u) => i = j

Budgets == \A u \in Tasks : Budget(u)

\* Statuses, commands and calls carry the frames of tasks in G only.
StatusFits(s, G) ==
    /\ s.action = "arm" => s.payload \in Tokens
    /\ s.action = "redundant_control" =>
          s.payload = None \/ (s.payload \in Envelopes /\ s.payload[2] \in G)

CommandFits(b, c, G) ==
    /\ c.op = "redundant_control" => c.payload \in Tokens /\ c.task \in G
    /\ c.op = "send" => b = Secondary /\ c.payload \in Envelopes /\ c.payload[2] \in G

CallFits(t, G) ==
    /\ stage[t] \in {"new", "wait_rf"} => call[t].op = "control"
    /\ call[t].op \in {"arm", "redundant_control"} => request[t] # "other"
    /\ call[t].op = "redundant_control" => call[t].payload \in Tokens
    /\ call[t].op = "send" => /\ call[t].at = Secondary
                              /\ call[t].payload \in Envelopes
                              /\ call[t].payload[2] \in G
    /\ call[t].got # None => /\ StatusFits(call[t].got, G)
                             /\ call[t].got.action \in {call[t].op, "error"}

CallsFit == \A t \in Tasks : CallFits(t, Offered)

EntityFits ==
    \A b \in Bridges :
        /\ status[b] # None => StatusFits(status[b], Offered)
        /\ StatusFits(last[b], Offered)
        /\ \A i \in DOMAIN wire[b] : StatusFits(wire[b][i], Offered)

NodeFits ==
    \A b \in Bridges :
        /\ radio[b] # None => CommandFits(b, radio[b], Offered)
        /\ \A i \in DOMAIN inbox[b] : CommandFits(b, inbox[b][i], Offered)

HomeTypes ==
    /\ request \in [Tasks -> Requests]
    /\ stage \in [Tasks -> Stages]
    /\ call \in [Tasks -> Calls]
    /\ status \in [Bridges -> Statuses \cup {None}]

NodeTypes ==
    /\ inbox \in [Bridges -> Seq(Commands)]
    /\ radio \in [Bridges -> Commands \cup {None}]
    /\ wire \in [Bridges -> Seq(Statuses)]
    /\ last \in [Bridges -> Statuses]
    /\ counter \in [Bridges -> Nat]
    /\ sent \in [Tasks -> [Bridges -> Nat]]

OnceInv ==
    /\ LockInv /\ HomeTypes /\ NodeTypes
    /\ CallsFit /\ EntityFits /\ NodeFits /\ Budgets

-----------------------------------------------------------------------------
(* Lemmas *)

\* The two bridges are bridges.
LEMMA Ends == Primary \in Bridges /\ Secondary \in Bridges
BY DEF Bridges

\* What fits goes on fitting when more frames are offered.
LEMMA MoreFits ==
    ASSUME NEW G, NEW H, G \subseteq H
    PROVE  /\ \A s : StatusFits(s, G) => StatusFits(s, H)
           /\ \A b, c : CommandFits(b, c, G) => CommandFits(b, c, H)
BY DEF StatusFits, CommandFits

\* A step of Home Assistant that sends nothing, and after which no more tasks are
\* unissued than before.
Quiet ==
    /\ UNCHANGED <<node, status>>
    /\ \A u \in Tasks : /\ Unissued(u)' => Unissued(u)
                        /\ request'[u] # request[u] => Unissued(u)

\* A quiet step withdraws no frame.
LEMMA QuietOffers ==
    ASSUME Quiet PROVE Offered \subseteq Offered'
BY DEF Quiet, Offered

\* A quiet step keeps what the invariant says of the bridges and the budgets.
LEMMA QuietKeeps ==
    ASSUME NodeTypes, EntityFits, NodeFits, Budgets, Quiet
    PROVE  NodeTypes' /\ EntityFits' /\ NodeFits' /\ Budgets'
<1>1. UNCHANGED <<inbox, radio, wire, last, counter, sent, status>>
  BY DEF Quiet, node
<1>2. NodeTypes'
  BY <1>1 DEF NodeTypes
<1>3. EntityFits' /\ NodeFits'
  BY <1>1, QuietOffers, MoreFits DEF EntityFits, NodeFits
<1>4. ASSUME NEW u \in Tasks PROVE Budget(u)'
  <2>1. Budget(u) /\ (Unissued(u)' => Unissued(u))
    BY DEF Budgets, Quiet
  <2>2. \A b \in Bridges : Queued(u, b)' <=> Queued(u, b)
    BY <1>1 DEF Queued
  <2>3. CASE Unissued(u)
    <3>1. \A b \in Bridges : sent[u][b] = 0 /\ ~Queued(u, b)
      BY <2>1, <2>3 DEF Budget
    <3>2. Owner(u)' \in Bridges
      BY Ends DEF Owner
    <3> QED BY <1>1, <2>2, <3>1, <3>2 DEF Budget, Queued
  <2>4. CASE ~Unissued(u)
    <3>1. Owner(u)' = Owner(u)
      BY <2>4 DEF Quiet, Owner
    <3>2. Owner(u) \in Bridges
      BY Ends DEF Owner
    <3> QED BY <1>1, <2>1, <2>2, <2>4, <3>1, <3>2 DEF Budget
  <2> QED BY <2>3, <2>4
<1> QED BY <1>2, <1>3, <1>4 DEF Budgets

-----------------------------------------------------------------------------
(* A task goes on after its call *)

\* t has no call any more.
StopsCalling(t) ==
    \E s \in {"done", "guard"} :
        stage' = [stage EXCEPT ![t] = s] /\ call' = [call EXCEPT ![t] = NoCall]

\* What t may call next.
CallsNext(t, b, op, payload) ==
    /\ stage[t] \in {"wait_service", "reply"}
    /\ stage' = [stage EXCEPT ![t] = "wait_service"]
    /\ call' = [call EXCEPT ![t] =
                  [NoCall EXCEPT !.at = b, !.op = op, !.payload = payload]]
    /\ \/ /\ op \in {"control", "redundant_control"} /\ call[t].op = "arm"
          /\ payload \in Tokens
       \/ /\ op = "send" /\ call[t].op = "redundant_control" /\ b = Secondary
          /\ payload \in Envelopes /\ payload[2] \in Offered
       \/ op = "cancel" /\ call[t].op = "redundant_control"

Proceeds(t) ==
    \/ StopsCalling(t)
    \/ \E b \in Bridges, op \in Operations, payload \in Payloads :
          CallsNext(t, b, op, payload)

\* A failed call is followed by what Proceeds allows.
LEMMA FailedProceeds ==
    ASSUME OnceInv, NEW t \in Tasks, stage[t] \in {"wait_service", "reply"}, Failed(t)
    PROVE  Proceeds(t)
<1>1. call[t].payload \in Payloads /\ None \in Tokens /\ None \in Payloads
  BY DEF OnceInv, HomeTypes, Calls, Tokens, Payloads
<1>2. CASE call[t].op = "arm" /\ Invoke(t, Primary, "control", None)
  BY <1>1, <1>2, Ends DEF Invoke, Proceeds, CallsNext, Operations
<1>3. CASE call[t].op = "redundant_control" /\ OfferFailed(t, call[t].payload)
  BY <1>1, <1>3, Ends DEF OfferFailed, Invoke, Proceeds, CallsNext, Operations
<1>4. CASE \E r : Finish(t, r)
  BY <1>4 DEF Finish, Proceeds, StopsCalling
<1> QED BY <1>2, <1>3, <1>4 DEF Failed

\* So is a call that was answered.
LEMMA AnsweredProceeds ==
    ASSUME OnceInv, NEW t \in Tasks, stage[t] = "reply", call[t].got # None,
           call[t].got.action # "error", Answered(t, call[t].got)
    PROVE  Proceeds(t)
<1> DEFINE s == call[t].got
<1>1. s.action = call[t].op /\ StatusFits(s, Offered)
  BY DEF OnceInv, CallsFit, CallFits
<1>2. call[t].payload \in Payloads /\ s.payload \in Payloads /\ Tokens \subseteq Payloads
  BY DEF OnceInv, HomeTypes, Calls, Statuses, Payloads
<1>3. CASE call[t].op = "arm" /\ Invoke(t, Primary, "redundant_control", s.payload)
  <2>1. s.payload \in Tokens
    BY <1>1, <1>3 DEF StatusFits
  <2> QED BY <1>2, <1>3, <2>1, Ends DEF Invoke, Proceeds, CallsNext, Operations
<1>4. CASE /\ call[t].op = "redundant_control" /\ s.payload # None
           /\ Invoke(t, Secondary, "send", s.payload)
  <2>1. s.payload \in Envelopes /\ s.payload[2] \in Offered
    BY <1>1, <1>4 DEF StatusFits
  <2> QED BY <1>2, <1>4, <2>1, Ends DEF Invoke, Proceeds, CallsNext, Operations
<1>5. CASE /\ call[t].op = "redundant_control"
           /\ Invoke(t, Secondary, "cancel", call[t].payload)
  BY <1>2, <1>5, Ends DEF Invoke, Proceeds, CallsNext, Operations
<1>6. CASE \E r : Finish(t, r)
  BY <1>6 DEF Finish, Proceeds, StopsCalling
<1>7. CASE /\ stage' = [stage EXCEPT ![t] = "guard"]
           /\ call' = [call EXCEPT ![t] = NoCall]
  BY <1>7 DEF Proceeds, StopsCalling
<1> QED BY <1>3, <1>4, <1>5, <1>6, <1>7 DEF Answered, PrimaryAnswered

\* Going on keeps the budget: another command for the owner follows only an `arm`.
LEMMA ProceedsKeeps ==
    ASSUME OnceInv, NEW t \in Tasks, Proceeds(t),
           stage[t] \in {"wait_service", "reply", "guard"},
           UNCHANGED <<request, node, status>>
    PROVE  /\ HomeTypes' /\ NodeTypes' /\ CallsFit' /\ EntityFits' /\ NodeFits'
           /\ Budgets'
<1> USE DEF OnceInv
<1>1. \A u \in Tasks \ {t} : stage'[u] = stage[u] /\ call'[u] = call[u]
  BY DEF Proceeds, StopsCalling, CallsNext, HomeTypes
<1>2. NoCall \in Calls /\ NoCall.op = "control" /\ NoCall.got = None
  BY DEF NoCall, Calls, Operations, Payloads, Tokens
<1>3. CASE StopsCalling(t)
  <2>1. stage'[t] \in {"done", "guard"} /\ call'[t] = NoCall
    BY <1>3 DEF HomeTypes, StopsCalling
  <2>2. HomeTypes'
    BY <1>2, <1>3 DEF HomeTypes, Stages, StopsCalling
  <2>3. ~Unissued(t)'
    BY <2>1 DEF Unissued
  <2>4. Quiet
    BY <1>1, <2>3 DEF Quiet, Unissued
  <2>5. ASSUME NEW u \in Tasks PROVE CallFits(u, Offered)'
    <3>1. CASE u = t
      BY <1>2, <2>1, <3>1 DEF CallFits
    <3>2. CASE u # t
      BY <1>1, <2>4, <3>2, QuietOffers, MoreFits DEF CallFits, CallsFit
    <3> QED BY <3>1, <3>2
  <2>6. CallsFit'
    BY <2>5 DEF CallsFit
  <2> QED BY <2>2, <2>4, <2>6, QuietKeeps
<1>4. ASSUME NEW b \in Bridges, NEW op \in Operations, NEW payload \in Payloads,
             CallsNext(t, b, op, payload)
      PROVE  /\ HomeTypes' /\ NodeTypes' /\ CallsFit' /\ EntityFits' /\ NodeFits'
             /\ Budgets'
  <2>1. /\ stage'[t] = "wait_service"
        /\ call'[t] = [at |-> b, op |-> op, payload |-> payload, before |-> None,
                       got |-> None]
    BY <1>4 DEF HomeTypes, NoCall, CallsNext
  <2>2. call'[t] \in Calls
    BY <2>1 DEF Calls
  <2>3. HomeTypes'
    BY <1>4, <2>1, <2>2 DEF HomeTypes, Stages, CallsNext
  <2>4. Unissued(t)' => Unissued(t)
    BY <1>4, <2>1 DEF Unissued, CallsNext
  <2>5. Quiet
    BY <1>1, <2>4 DEF Quiet, Unissued
  <2>6. ASSUME NEW u \in Tasks PROVE CallFits(u, Offered)'
    <3>1. CASE u = t
      <4>1. /\ request'[t] # "other"
            /\ op \in {"control", "redundant_control", "send", "cancel"}
        BY <1>4 DEF CallsFit, CallFits, CallsNext
      <4>2. op = "redundant_control" => payload \in Tokens
        BY <1>4 DEF CallsNext
      <4>3. op = "send" => b = Secondary /\ payload \in Envelopes /\ payload[2] \in Offered'
        BY <1>4, <2>5, QuietOffers DEF CallsNext
      <4>4. /\ stage'[u] = "wait_service" /\ call'[u].op = op /\ call'[u].at = b
            /\ call'[u].payload = payload /\ call'[u].got = None
        BY <2>1, <3>1
      <4> QED BY <3>1, <4>1, <4>2, <4>3, <4>4 DEF CallFits
    <3>2. CASE u # t
      BY <1>1, <2>5, <3>2, QuietOffers, MoreFits DEF CallFits, CallsFit
    <3> QED BY <3>1, <3>2
  <2>7. CallsFit'
    BY <2>6 DEF CallsFit
  <2> QED BY <2>3, <2>5, <2>7, QuietKeeps
<1> QED BY <1>3, <1>4 DEF Proceeds

-----------------------------------------------------------------------------
(* The steps of a task *)

\* A step of t alone that is quiet and leaves it with a fitting call.
LEMMA OwnStep ==
    ASSUME OnceInv, NEW t \in Tasks, NEW s \in Stages, NEW c \in Calls, Quiet,
           stage' = [stage EXCEPT ![t] = s], call' = [call EXCEPT ![t] = c],
           request' \in [Tasks -> Requests],
           \A u \in Tasks \ {t} : request'[u] = request[u],
           CallFits(t, Offered)'
    PROVE  /\ HomeTypes' /\ NodeTypes' /\ CallsFit' /\ EntityFits' /\ NodeFits'
           /\ Budgets'
<1> USE DEF OnceInv
<1>1. \A u \in Tasks \ {t} : stage'[u] = stage[u] /\ call'[u] = call[u]
  BY DEF HomeTypes
<1>2. HomeTypes'
  BY DEF HomeTypes, Quiet
<1>3. ASSUME NEW u \in Tasks \ {t} PROVE CallFits(u, Offered)'
  <2>1. CallFits(u, Offered) /\ request'[u] = request[u]
    BY DEF CallsFit
  <2>2. stage'[u] = stage[u] /\ call'[u] = call[u]
    BY <1>1
  <2> QED BY <2>1, <2>2, QuietOffers, MoreFits DEF CallFits
<1>4. CallsFit'
  BY <1>3 DEF CallsFit
<1> QED BY <1>2, <1>4, QuietKeeps

\* A new request is quiet.
LEMMA SubmitKeeps ==
    ASSUME OnceInv, NEW t \in Tasks, NEW r \in Requests, Submit(t, r)
    PROVE  /\ HomeTypes' /\ NodeTypes' /\ CallsFit' /\ EntityFits' /\ NodeFits'
           /\ Budgets'
<1>1. /\ request' \in [Tasks -> Requests]
      /\ \A u \in Tasks \ {t} : request'[u] = request[u]
  BY DEF Submit, OnceInv, HomeTypes
<1>2. Unissued(t) /\ call[t].op = "control" /\ call[t] \in Calls
  BY DEF Submit, Unissued, OnceInv, CallsFit, CallFits, HomeTypes
<1>3. UNCHANGED <<node, status>>
  BY DEF Submit, link
<1>4. CASE r = "alias"
  <2>1. PICK b \in Bridges : Invoke(t, b, "remote_alias", None)
    BY <1>4 DEF Submit
  <2> DEFINE c == [NoCall EXCEPT !.at = b, !.op = "remote_alias", !.payload = None]
  <2>2. /\ c \in Calls /\ c.op = "remote_alias" /\ c.got = None
    BY DEF NoCall, Calls, Operations, Payloads, Tokens
  <2>3. stage' = [stage EXCEPT ![t] = "wait_service"] /\ call' = [call EXCEPT ![t] = c]
    BY <2>1 DEF Invoke
  <2>4. stage'[t] = "wait_service" /\ call'[t] = c
    BY <2>3 DEF OnceInv, HomeTypes
  <2>5. \A u \in Tasks \ {t} : stage'[u] = stage[u] /\ call'[u] = call[u]
    BY <2>3 DEF OnceInv, HomeTypes
  <2>6. Quiet
    BY <1>1, <1>2, <1>3, <2>5 DEF Quiet, Unissued
  <2>7. CallFits(t, Offered)'
    BY <2>2, <2>4 DEF CallFits
  <2>8. "wait_service" \in Stages
    BY DEF Stages
  <2> HIDE DEF c
  <2> QED BY <1>1, <2>2, <2>3, <2>6, <2>7, <2>8, OwnStep
<1>5. CASE r # "alias"
  <2>1. stage' = [stage EXCEPT ![t] = "wait_rf"] /\ call' = [call EXCEPT ![t] = call[t]]
    BY <1>5 DEF Submit, OnceInv, HomeTypes
  <2>2. stage'[t] = "wait_rf" /\ call' = call
    BY <1>5 DEF Submit, OnceInv, HomeTypes
  <2>3. \A u \in Tasks \ {t} : stage'[u] = stage[u]
    BY <2>1 DEF OnceInv, HomeTypes
  <2>4. Quiet
    BY <1>1, <1>2, <1>3, <2>2, <2>3 DEF Quiet, Unissued
  <2>5. stage[t] = "new" /\ CallFits(t, Offered)
    BY DEF Submit, OnceInv, CallsFit
  <2>6. CallFits(t, Offered)'
    BY <1>2, <2>2, <2>4, <2>5, QuietOffers, MoreFits DEF CallFits
  <2>7. "wait_rf" \in Stages
    BY DEF Stages
  <2> QED BY <1>1, <1>2, <2>1, <2>4, <2>6, <2>7, OwnStep
<1> QED BY <1>4, <1>5

\* So is taking the radio lock: the task stays unissued.
LEMMA AcquireRfKeeps ==
    ASSUME OnceInv, NEW t \in Tasks, AcquireRf(t)
    PROVE  /\ HomeTypes' /\ NodeTypes' /\ CallsFit' /\ EntityFits' /\ NodeFits'
           /\ Budgets'
<1> DEFINE relay == request[t] = "open" /\ relayed /\ status[Secondary] # None
           c == [NoCall EXCEPT !.at = IF relay THEN Secondary ELSE Owner(t),
                               !.op = IF relay THEN "arm" ELSE "control"]
<1>1. /\ stage' = [stage EXCEPT ![t] = "wait_service"]
      /\ call' = [call EXCEPT ![t] = c]
      /\ request' = request
      /\ UNCHANGED <<node, status>>
  BY DEF AcquireRf, link
<1>2. c.at \in Bridges /\ c.op \in {"arm", "control"} /\ c.got = None
  BY Ends DEF NoCall, Owner
<1>3. c \in Calls
  BY Ends DEF NoCall, Calls, Owner, Operations, Payloads, Tokens
<1>4. stage'[t] = "wait_service" /\ call'[t] = c
  BY <1>1 DEF OnceInv, HomeTypes
<1>5. \A u \in Tasks \ {t} : stage'[u] = stage[u] /\ call'[u] = call[u]
  BY <1>1 DEF OnceInv, HomeTypes
<1>6. Unissued(t)
  BY DEF AcquireRf, Unissued
<1>7. Quiet
  BY <1>1, <1>5, <1>6 DEF Quiet, Unissued
<1>8. c.op = "arm" => request[t] # "other"
  BY DEF NoCall
<1> HIDE DEF c
<1>9. CallFits(t, Offered)'
  BY <1>1, <1>2, <1>4, <1>8 DEF CallFits
<1>10. request \in [Tasks -> Requests] /\ "wait_service" \in Stages
  BY DEF OnceInv, HomeTypes, Stages
<1> QED BY <1>1, <1>3, <1>7, <1>9, <1>10, OwnStep

\* So is the return of the service call.
LEMMA SentKeeps ==
    ASSUME OnceInv, NEW t \in Tasks, Sent(t)
    PROVE  /\ HomeTypes' /\ NodeTypes' /\ CallsFit' /\ EntityFits' /\ NodeFits'
           /\ Budgets'
<1> DEFINE b == call[t].at
           taken == call[t].got = None /\ Answers(call[t], status[b])
           c == IF taken THEN [call[t] EXCEPT !.got = status[b]] ELSE call[t]
<1>1. /\ stage' = [stage EXCEPT ![t] = "reply"]
      /\ request' = request
      /\ UNCHANGED <<node, status>>
  BY DEF Sent, link
<1>2. b \in Bridges /\ call[t] \in Calls /\ status[b] \in Statuses \cup {None}
  BY DEF OnceInv, LockInv, Calling, HomeTypes, Sent
<1>3. call' = [call EXCEPT ![t] = c]
  BY DEF Sent, OnceInv, HomeTypes
<1>4. c \in Calls /\ c.op = call[t].op /\ c.at = call[t].at /\ c.payload = call[t].payload
  BY <1>2 DEF Calls
<1>5. taken => /\ c.got = status[b] /\ status[b] # None
               /\ status[b].action \in {c.op, "error"}
  BY <1>2 DEF Calls, Answers, IsNew
<1>6. ~taken => c = call[t]
  OBVIOUS
<1>7. stage'[t] = "reply" /\ call'[t] = c
  BY <1>1, <1>3 DEF OnceInv, HomeTypes
<1>8. \A u \in Tasks \ {t} : stage'[u] = stage[u] /\ call'[u] = call[u]
  BY <1>1, <1>3 DEF OnceInv, HomeTypes
<1>9. stage[t] = "sending" /\ CallFits(t, Offered)
  BY DEF Sent, OnceInv, CallsFit
<1>10. status[b] # None => StatusFits(status[b], Offered)
  BY <1>2 DEF OnceInv, EntityFits
<1> HIDE DEF c, taken
<1>11. Quiet
  BY <1>1, <1>4, <1>7, <1>8, <1>9 DEF Quiet, Unissued
<1>12. CallFits(t, Offered)'
  BY <1>1, <1>4, <1>5, <1>6, <1>7, <1>9, <1>10, <1>11, QuietOffers, MoreFits DEF CallFits
<1>13. request \in [Tasks -> Requests] /\ "reply" \in Stages
  BY DEF OnceInv, HomeTypes, Stages
<1> QED BY <1>1, <1>3, <1>4, <1>11, <1>12, <1>13, OwnStep

\* The end of a call or of the guard time keeps the invariant.
LEMMA EndOfCallKeeps ==
    ASSUME OnceInv, NEW t \in Tasks,
           Return(t) \/ Timeout(t) \/ Unavailable(t) \/ GuardEnds(t)
    PROVE  /\ HomeTypes' /\ NodeTypes' /\ CallsFit' /\ EntityFits' /\ NodeFits'
           /\ Budgets'
<1>1. UNCHANGED <<request, node, status>>
  BY DEF Return, Timeout, Unavailable, GuardEnds, link
<1>2. CASE Return(t)
  BY <1>1, <1>2, FailedProceeds, AnsweredProceeds, ProceedsKeeps DEF Return
<1>3. CASE Timeout(t)
  BY <1>1, <1>3, FailedProceeds, ProceedsKeeps DEF Timeout
<1>4. CASE Unavailable(t)
  BY <1>1, <1>4, FailedProceeds, ProceedsKeeps DEF Unavailable
<1>5. CASE GuardEnds(t)
  <2>1. Proceeds(t) /\ stage[t] = "guard"
    BY <1>5 DEF GuardEnds, Finish, Proceeds, StopsCalling
  <2> QED BY <1>1, <2>1, ProceedsKeeps
<1> QED BY <1>2, <1>3, <1>4, <1>5

-----------------------------------------------------------------------------
(* Sending the command *)

\* What a queue holds after a command is appended.
LEMMA Appended ==
    ASSUME NodeTypes, NEW b \in Bridges, NEW c \in Commands,
           inbox' = [inbox EXCEPT ![b] = Append(@, c)]
    PROVE  /\ inbox' \in [Bridges -> Seq(Commands)]
           /\ \A d \in Bridges : \A i \in DOMAIN inbox'[d] :
                 \/ i \in DOMAIN inbox[d] /\ inbox'[d][i] = inbox[d][i]
                 \/ d = b /\ i = Len(inbox[b]) + 1 /\ inbox'[d][i] = c
<1>1. inbox[b] \in Seq(Commands)
  BY DEF NodeTypes
<1>2. /\ Append(inbox[b], c) \in Seq(Commands)
      /\ Len(Append(inbox[b], c)) = Len(inbox[b]) + 1
      /\ \A i \in 1 .. Len(inbox[b]) : Append(inbox[b], c)[i] = inbox[b][i]
      /\ Append(inbox[b], c)[Len(inbox[b]) + 1] = c
  BY <1>1, AppendProperties
<1>3. inbox'[b] = Append(inbox[b], c) /\ \A d \in Bridges \ {b} : inbox'[d] = inbox[d]
  BY DEF NodeTypes
<1>4. inbox' \in [Bridges -> Seq(Commands)]
  BY <1>2 DEF NodeTypes
<1>5. \A i \in DOMAIN inbox'[b] : i \in 1 .. Len(inbox[b]) + 1
  BY <1>2, <1>3
<1>6. DOMAIN inbox[b] = 1 .. Len(inbox[b]) /\ Len(inbox[b]) \in Nat
  BY <1>1
<1>7. ASSUME NEW i \in DOMAIN inbox'[b]
      PROVE  \/ i \in DOMAIN inbox[b] /\ inbox'[b][i] = inbox[b][i]
             \/ i = Len(inbox[b]) + 1 /\ inbox'[b][i] = c
  <2>1. i \in 1 .. Len(inbox[b]) \/ i = Len(inbox[b]) + 1
    BY <1>5, <1>6
  <2> QED BY <1>2, <1>3, <1>6, <2>1
<1> QED BY <1>3, <1>4, <1>7

\* Sending a command for the owner uses the budget up.
LEMMA SendKeeps ==
    ASSUME OnceInv, NEW t \in Tasks, Send(t)
    PROVE  /\ HomeTypes' /\ NodeTypes' /\ CallsFit' /\ EntityFits' /\ NodeFits'
           /\ Budgets'
<1>b. PICK b \in Bridges : b = call[t].at
  BY DEF Send, OnceInv, LockInv, Calling
<1>c. PICK c \in Commands :
         c = [task |-> t, op |-> call[t].op, payload |-> call[t].payload]
  BY DEF OnceInv, HomeTypes, Calls, Commands
<1> DEFINE new == [call[t] EXCEPT !.before = status[b]]
<1>1. /\ stage[t] = "wait_service" /\ stage' = [stage EXCEPT ![t] = "sending"]
      /\ inbox' = [inbox EXCEPT ![b] = Append(@, c)]
      /\ UNCHANGED <<request, radio, wire, last, counter, sent, status>>
  BY <1>b, <1>c DEF Send, link
<1>2. b \in Bridges /\ call[t] \in Calls /\ status[b] \in Statuses \cup {None}
  BY DEF OnceInv, HomeTypes
<1>3. call' = [call EXCEPT ![t] = new]
  BY <1>b DEF Send, OnceInv, HomeTypes
<1>4. /\ new \in Calls /\ new.op = call[t].op /\ new.at = call[t].at
      /\ new.payload = call[t].payload /\ new.got = call[t].got
  BY <1>2 DEF Calls
<1>5. stage'[t] = "sending" /\ call'[t] = new
  BY <1>1, <1>3 DEF OnceInv, HomeTypes
<1>6. \A u \in Tasks \ {t} : stage'[u] = stage[u] /\ call'[u] = call[u]
  BY <1>1, <1>3 DEF OnceInv, HomeTypes
<1> HIDE DEF new
<1>7. HomeTypes'
  BY <1>1, <1>3, <1>4 DEF OnceInv, HomeTypes, Stages
<1>8. /\ \A u \in Tasks : Unissued(u)' => Unissued(u)
      /\ Unissued(t)' => call[t].op = "arm"
  BY <1>1, <1>4, <1>5, <1>6 DEF Unissued
<1>9. Offered \subseteq Offered'
  BY <1>1, <1>8 DEF Offered
<1>10. CallFits(t, Offered) /\ EntityFits /\ NodeFits /\ NodeTypes /\ Budgets
  BY DEF OnceInv, CallsFit
<1>11. c.task = t /\ c.op = call[t].op /\ c.payload = call[t].payload
  BY <1>c
<1>12. /\ inbox' \in [Bridges -> Seq(Commands)]
       /\ \A d \in Bridges : \A i \in DOMAIN inbox'[d] :
             \/ i \in DOMAIN inbox[d] /\ inbox'[d][i] = inbox[d][i]
             \/ d = b /\ i = Len(inbox[b]) + 1 /\ inbox'[d][i] = c
  BY <1>1, <1>10, Appended
<1>13. NodeTypes'
  BY <1>1, <1>10, <1>12 DEF NodeTypes
<1>14. EntityFits'
  BY <1>1, <1>9, <1>10, MoreFits DEF EntityFits
<1>15. ASSUME NEW u \in Tasks PROVE CallFits(u, Offered)'
  <2>1. CASE u = t
    BY <1>1, <1>4, <1>5, <1>9, <1>10, <2>1, MoreFits DEF CallFits
  <2>2. CASE u # t
    <3>1. CallFits(u, Offered)
      BY DEF OnceInv, CallsFit
    <3> QED BY <1>1, <1>6, <1>9, <2>2, <3>1, MoreFits DEF CallFits
  <2> QED BY <2>1, <2>2
<1>16. CommandFits(b, c, Offered')
  <2>1. CASE call[t].op = "redundant_control"
    <3>1. t \in Offered'
      BY <1>1, <1>8, <1>10, <2>1 DEF Offered, CallFits
    <3> QED BY <1>10, <1>11, <2>1, <3>1 DEF CommandFits, CallFits
  <2>2. CASE call[t].op # "redundant_control"
    BY <1>b, <1>9, <1>10, <1>11, <2>2 DEF CommandFits, CallFits
  <2> QED BY <2>1, <2>2
<1>17. NodeFits'
  <2>1. ASSUME NEW d \in Bridges, NEW i \in DOMAIN inbox'[d]
        PROVE  CommandFits(d, inbox'[d][i], Offered')
    BY <1>9, <1>10, <1>12, <1>16, MoreFits DEF NodeFits
  <2>2. \A d \in Bridges : radio[d] # None => CommandFits(d, radio[d], Offered')
    BY <1>9, <1>10, MoreFits DEF NodeFits
  <2> QED BY <1>1, <2>1, <2>2 DEF NodeFits
<1>18. ASSUME NEW u \in Tasks PROVE Budget(u)'
  <2>1. /\ Budget(u) /\ Owner(u)' = Owner(u) /\ Owner(u) \in Bridges
        /\ \A d \in Bridges : sent'[u][d] = sent[u][d]
    BY <1>1, <1>10, Ends DEF Budgets, Owner
  <2>2. CASE Mine(c, u)
    <3>1. u = t /\ call[t].op \in {"control", "redundant_control"}
      BY <1>11, <2>2 DEF Mine
    <3>2. ~Unissued(u)' /\ Unissued(u)
      BY <1>1, <1>8, <3>1 DEF Unissued
    <3>3. \A d \in Bridges : sent[u][d] = 0 /\ ~Queued(u, d)
      BY <2>1, <3>2 DEF Budget
    <3>4. \A d \in Bridges : \A i \in DOMAIN inbox'[d] :
             Mine(inbox'[d][i], u) => i = Len(inbox[b]) + 1
      BY <1>12, <3>3 DEF Queued
    <3> QED BY <2>1, <3>2, <3>3, <3>4 DEF Budget
  <2>3. CASE ~Mine(c, u)
    <3>1. \A d \in Bridges : \A i \in DOMAIN inbox'[d] :
             Mine(inbox'[d][i], u) => /\ i \in DOMAIN inbox[d]
                                      /\ inbox'[d][i] = inbox[d][i]
      BY <1>12, <2>3
    <3>2. \A d \in Bridges : Queued(u, d)' => Queued(u, d)
      BY <3>1 DEF Queued
    <3>3. /\ Unissued(u)' => \A d \in Bridges : sent'[u][d] = 0 /\ ~Queued(u, d)'
          /\ sent'[u][Owner(u)] <= 1
          /\ Queued(u, Owner(u))' => sent'[u][Owner(u)] = 0
      BY <1>8, <2>1, <3>2 DEF Budget
    <3>4. \A i, j \in DOMAIN inbox'[Owner(u)] :
             Mine(inbox'[Owner(u)][i], u) /\ Mine(inbox'[Owner(u)][j], u) => i = j
      BY <2>1, <3>1 DEF Budget
    <3> QED BY <1>1, <2>1, <3>3, <3>4 DEF Budget, Queued
  <2> QED BY <2>2, <2>3
<1> QED BY <1>7, <1>13, <1>14, <1>15, <1>17, <1>18 DEF CallsFit, Budgets

-----------------------------------------------------------------------------
(* The firmware *)

\* The first command in a queue.
LEMMA FirstInQueue ==
    ASSUME NodeTypes, NEW b \in Bridges, inbox[b] # <<>>
    PROVE  /\ Head(inbox[b]) \in Commands
           /\ 1 \in DOMAIN inbox[b] /\ Head(inbox[b]) = inbox[b][1]
<1>1. inbox[b] \in Seq(Commands) /\ DOMAIN inbox[b] = 1 .. Len(inbox[b])
  BY DEF NodeTypes
<1>2. Head(inbox[b]) \in Commands
  BY <1>1, HeadTailProperties
<1>3. Len(inbox[b]) \in Nat \ {0} /\ Head(inbox[b]) = inbox[b][1]
  BY <1>1, EmptySeq
<1> QED BY <1>1, <1>2, <1>3

\* What a queue holds after its head is taken.
LEMMA Taken ==
    ASSUME NodeTypes, NEW b \in Bridges, inbox[b] # <<>>,
           inbox' = [inbox EXCEPT ![b] = Tail(@)]
    PROVE  /\ Head(inbox[b]) \in Commands
           /\ 1 \in DOMAIN inbox[b] /\ Head(inbox[b]) = inbox[b][1]
           /\ inbox' \in [Bridges -> Seq(Commands)]
           /\ \A d \in Bridges \ {b} : inbox'[d] = inbox[d]
           /\ \A i \in DOMAIN inbox'[b] :
                 /\ i \in Nat /\ i + 1 \in DOMAIN inbox[b] /\ i + 1 # 1
                 /\ inbox'[b][i] = inbox[b][i + 1]
<1>1. inbox[b] \in Seq(Commands) /\ DOMAIN inbox[b] = 1 .. Len(inbox[b])
  BY DEF NodeTypes
<1>2. /\ Head(inbox[b]) \in Commands /\ Tail(inbox[b]) \in Seq(Commands)
      /\ Len(Tail(inbox[b])) = Len(inbox[b]) - 1
      /\ \A i \in 1 .. Len(Tail(inbox[b])) : Tail(inbox[b])[i] = inbox[b][i + 1]
  BY <1>1, HeadTailProperties
<1>3. Len(inbox[b]) \in Nat \ {0} /\ Head(inbox[b]) = inbox[b][1]
  BY <1>1, EmptySeq
<1>4. inbox'[b] = Tail(inbox[b]) /\ \A d \in Bridges \ {b} : inbox'[d] = inbox[d]
  BY DEF NodeTypes
<1>5. inbox' \in [Bridges -> Seq(Commands)]
  BY <1>2 DEF NodeTypes
<1>6. DOMAIN inbox'[b] = 1 .. Len(inbox[b]) - 1
  <2>1. inbox'[b] \in Seq(Commands) /\ Len(inbox'[b]) = Len(inbox[b]) - 1
    BY <1>2, <1>4
  <2> QED BY <2>1, LenProperties
<1>7. ASSUME NEW i \in DOMAIN inbox'[b]
      PROVE  /\ i \in Nat /\ i + 1 \in DOMAIN inbox[b] /\ i + 1 # 1
             /\ inbox'[b][i] = inbox[b][i + 1]
  BY <1>1, <1>2, <1>3, <1>4, <1>6
<1> QED BY <1>1, <1>2, <1>3, <1>4, <1>5, <1>7

\* b transmits nothing, or the frame f of its command c.
Emits(b, c) ==
    \/ UNCHANGED sent
    \/ \E f \in Tasks :
          /\ sent' = [sent EXCEPT ![f][b] = @ + 1]
          /\ Mine(c, f) \/ (b = Secondary /\ f \in Offered)

\* Taking a command keeps the budget: what is transmitted is not queued any more.
LEMMA TakingKeeps ==
    ASSUME NodeTypes, NodeFits, Budgets, NEW b \in Bridges, inbox[b] # <<>>,
           inbox' = [inbox EXCEPT ![b] = Tail(@)], UNCHANGED home,
           Emits(b, Head(inbox[b]))
    PROVE  /\ sent' \in [Tasks -> [Bridges -> Nat]]
           /\ Budgets'
           /\ \A d \in Bridges : \A i \in DOMAIN inbox'[d] :
                 CommandFits(d, inbox'[d][i], Offered)
<1> DEFINE c == Head(inbox[b])
<1>1. /\ 1 \in DOMAIN inbox[b] /\ c = inbox[b][1]
      /\ \A d \in Bridges \ {b} : inbox'[d] = inbox[d]
      /\ \A i \in DOMAIN inbox'[b] :
            /\ i \in Nat /\ i + 1 \in DOMAIN inbox[b] /\ i + 1 # 1
            /\ inbox'[b][i] = inbox[b][i + 1]
  BY Taken
<1> HIDE DEF c
<1>2. sent \in [Tasks -> [Bridges -> Nat]]
  BY DEF NodeTypes
<1>3. sent' \in [Tasks -> [Bridges -> Nat]]
  <2>1. ASSUME NEW f \in Tasks, sent' = [sent EXCEPT ![f][b] = @ + 1]
        PROVE  sent' \in [Tasks -> [Bridges -> Nat]]
    <3>1. [sent[f] EXCEPT ![b] = sent[f][b] + 1] \in [Bridges -> Nat]
      BY <1>2
    <3> QED BY <1>2, <2>1, <3>1
  <2> QED BY <1>2, <2>1 DEF Emits
<1>4. \A d \in Bridges : \A i \in DOMAIN inbox'[d] :
         CommandFits(d, inbox'[d][i], Offered)
  BY <1>1 DEF NodeFits
<1>5. ASSUME NEW u \in Tasks PROVE Budget(u)'
  <2>1. /\ Budget(u) /\ Owner(u)' = Owner(u) /\ Owner(u) \in Bridges
        /\ Unissued(u)' <=> Unissued(u)
    BY Ends DEF Budgets, Owner, home, Unissued
  <2>2. \A d \in Bridges : Queued(u, d)' => Queued(u, d)
    BY <1>1 DEF Queued
  <2>3. ASSUME NEW i \in DOMAIN inbox'[Owner(u)], NEW j \in DOMAIN inbox'[Owner(u)],
               Mine(inbox'[Owner(u)][i], u), Mine(inbox'[Owner(u)][j], u)
        PROVE  i = j
    <3>1. CASE Owner(u) = b
      <4>1. i + 1 = j + 1 /\ i \in Nat /\ j \in Nat
        BY <1>1, <2>1, <2>3, <3>1 DEF Budget
      <4> QED BY <4>1
    <3>2. CASE Owner(u) # b
      BY <1>1, <2>1, <2>3, <3>2 DEF Budget
    <3> QED BY <3>1, <3>2
  <2>4. CASE sent'[u] = sent[u]
    BY <2>1, <2>2, <2>3, <2>4 DEF Budget, Queued
  <2>5. CASE sent'[u] # sent[u]
    <3>1. /\ sent' = [sent EXCEPT ![u][b] = @ + 1]
          /\ Mine(c, u) \/ (b = Secondary /\ u \in Offered)
      BY <1>2, <2>5 DEF Emits, c
    <3>2. /\ sent'[u][b] = sent[u][b] + 1
          /\ \A d \in Bridges \ {b} : sent'[u][d] = sent[u][d]
      BY <1>2, <3>1
    <3>3. CASE Mine(c, u)
      <4>1. Queued(u, b) /\ ~Unissued(u)
        BY <1>1, <2>1, <3>3 DEF Queued, Budget
      <4>2. CASE Owner(u) = b
        <5>1. sent'[u][b] = 1
          BY <2>1, <3>2, <4>1, <4>2 DEF Budget
        <5>2. ~Queued(u, b)'
          BY <1>1, <2>1, <3>3, <4>2 DEF Budget, Queued
        <5> QED BY <2>1, <2>3, <4>1, <4>2, <5>1, <5>2 DEF Budget
      <4>3. CASE Owner(u) # b
        BY <2>1, <2>2, <2>3, <3>2, <4>1, <4>3 DEF Budget
      <4> QED BY <4>2, <4>3
    <3>4. CASE b = Secondary /\ u \in Offered
      <4>1. ~Unissued(u) /\ Owner(u) # b
        BY <3>4, ControlAssumption DEF Offered, Owner
      <4> QED BY <2>1, <2>2, <2>3, <3>2, <4>1 DEF Budget
    <3> QED BY <3>1, <3>3, <3>4
  <2> QED BY <2>4, <2>5
<1> QED BY <1>3, <1>4, <1>5 DEF Budgets

\* The statuses that are typed and carry only offered frames.
Shown ==
    /\ wire \in [Bridges -> Seq(Statuses)]
    /\ last \in [Bridges -> Statuses]
    /\ counter \in [Bridges -> Nat]
    /\ EntityFits

\* Publishing a status with no frame, or with an offered one, keeps Shown.
LEMMA PublishKeeps ==
    ASSUME Shown, NEW b \in Bridges, NEW action \in Operations \cup {"error"},
           NEW payload \in Payloads, NEW t \in Tasks, Publish(b, action, payload, t),
           action = "arm" => payload \in Tokens,
           action = "redundant_control" =>
               payload = None \/ (payload \in Envelopes /\ payload[2] \in Offered),
           UNCHANGED <<home, status>>
    PROVE  Shown'
<1>1. PICK s \in Statuses :
         /\ StatusFits(s, Offered)
         /\ last' = [last EXCEPT ![b] = s]
         /\ wire' = IF connected[b] THEN [wire EXCEPT ![b] = Append(@, s)] ELSE wire
  <2> DEFINE s == [action |-> action, payload |-> payload, answers |-> t,
                   event |-> IF action = "redundant_control" THEN None
                             ELSE counter[b] + 1]
  <2>1. s \in Statuses
    BY DEF Statuses, Tokens, Shown
  <2>2. StatusFits(s, Offered)
    BY DEF StatusFits
  <2>3. /\ last' = [last EXCEPT ![b] = s]
        /\ wire' = IF connected[b] THEN [wire EXCEPT ![b] = Append(@, s)] ELSE wire
    BY DEF Publish
  <2> HIDE DEF s
  <2> QED BY <2>1, <2>2, <2>3
<1>2. counter' = [counter EXCEPT ![b] = @ + 1]
  BY DEF Publish
<1>3. counter' \in [Bridges -> Nat] /\ last' \in [Bridges -> Statuses]
  BY <1>1, <1>2 DEF Shown
<1>4. wire[b] \in Seq(Statuses) /\ DOMAIN wire[b] = 1 .. Len(wire[b])
  BY DEF Shown
<1>5. /\ Append(wire[b], s) \in Seq(Statuses)
      /\ Len(Append(wire[b], s)) = Len(wire[b]) + 1
      /\ \A i \in 1 .. Len(wire[b]) : Append(wire[b], s)[i] = wire[b][i]
      /\ Append(wire[b], s)[Len(wire[b]) + 1] = s
  BY <1>4, AppendProperties
<1>6. wire' \in [Bridges -> Seq(Statuses)]
  BY <1>1, <1>5 DEF Shown
<1>7. Offered' = Offered
  BY DEF Offered, Unissued, home
<1>8. \A i \in DOMAIN Append(wire[b], s) :
         i \in 1 .. Len(wire[b]) \/ i = Len(wire[b]) + 1
  BY <1>4, <1>5, LenProperties
<1>9. ASSUME NEW i \in DOMAIN wire'[b] PROVE StatusFits(wire'[b][i], Offered)
  <2>1. CASE wire'[b] = wire[b]
    BY <2>1 DEF Shown, EntityFits
  <2>2. CASE wire'[b] = Append(wire[b], s)
    BY <1>1, <1>4, <1>5, <1>8, <2>2 DEF Shown, EntityFits
  <2> QED BY <1>1, <2>1, <2>2 DEF Shown
<1>10. \A d \in Bridges \ {b} : wire'[d] = wire[d] /\ last'[d] = last[d]
  BY <1>1 DEF Shown
<1>11. last'[b] = s
  BY <1>1 DEF Shown
<1>12. EntityFits'
  BY <1>1, <1>7, <1>9, <1>10, <1>11 DEF Shown, EntityFits
<1> QED BY <1>3, <1>6, <1>12 DEF Shown

\* Every step of the firmware keeps the invariant.
LEMMA FirmwareKeeps ==
    ASSUME OnceInv, NEW b \in Bridges, Firmware(b)
    PROVE  /\ HomeTypes' /\ NodeTypes' /\ CallsFit' /\ EntityFits' /\ NodeFits'
           /\ Budgets'
<1>1. UNCHANGED <<home, status>>
  BY DEF Firmware, Transmit, Transmitted, Arm, Acknowledge, Refuse, Ignore, Takes, link
<1>2. Offered' = Offered
  BY <1>1 DEF Offered, Unissued, home
<1>3. HomeTypes' /\ CallsFit'
  BY <1>1, <1>2 DEF OnceInv, HomeTypes, CallsFit, CallFits, home
<1>4. NodeTypes /\ EntityFits /\ NodeFits /\ Budgets /\ Shown
  BY DEF OnceInv, NodeTypes, Shown
<1>5. None \in Tokens /\ None \in Payloads /\ Tokens \subseteq Payloads
      /\ Envelopes \subseteq Payloads
  BY DEF Tokens, Payloads
<1>6. Silent => Shown'
  BY <1>1, <1>2, <1>4 DEF Silent, Shown, EntityFits
<1>7. CASE Transmitted(b)
  <2>1. PICK c \in Commands : c = radio[b] /\ CommandFits(b, c, Offered)
    BY <1>4, <1>7 DEF Transmitted, NodeTypes, NodeFits
  <2>2. radio' = [radio EXCEPT ![b] = None] /\ UNCHANGED <<inbox, sent>>
    BY <1>7 DEF Transmitted
  <2>3. c.op \in Operations /\ c.task \in Tasks
    BY DEF Commands
  <2>4. c.op = "redundant_control" =>
           /\ <<c.payload, c.task>> \in Envelopes
           /\ <<c.payload, c.task>>[2] \in Offered
    BY <2>1, <2>3 DEF CommandFits, Envelopes
  <2>5. \/ Silent
        \/ Publish(b, c.op, None, c.task)
        \/ /\ c.op = "redundant_control"
           /\ Publish(b, c.op, <<c.payload, c.task>>, c.task)
    BY <1>7, <2>1 DEF Transmitted
  <2>6. Shown'
    <3>1. CASE Publish(b, c.op, None, c.task)
      BY <1>1, <1>4, <1>5, <2>3, <3>1, PublishKeeps
    <3>2. CASE /\ c.op = "redundant_control"
               /\ Publish(b, c.op, <<c.payload, c.task>>, c.task)
      BY <1>1, <1>4, <1>5, <2>3, <2>4, <3>2, PublishKeeps
    <3> QED BY <1>6, <2>5, <3>1, <3>2
  <2>7. NodeTypes'
    BY <1>4, <2>2, <2>6 DEF NodeTypes, Shown
  <2>8. NodeFits'
    BY <1>2, <1>4, <2>2 DEF NodeFits, NodeTypes
  <2>9. Budgets'
    BY <1>1, <1>4, <2>2 DEF Budgets, Budget, Unissued, Queued, Owner, home
  <2> QED BY <1>3, <2>6, <2>7, <2>8, <2>9 DEF Shown
<1>8. ASSUME inbox[b] # <<>>, NEW c \in Commands, c = Head(inbox[b]),
             \/ Transmit(b, c) \/ Arm(b, c) \/ Acknowledge(b, c)
             \/ Refuse(b, c) \/ Ignore(b, c)
      PROVE  NodeTypes' /\ EntityFits' /\ NodeFits' /\ Budgets'
  <2>1. inbox' = [inbox EXCEPT ![b] = Tail(@)]
    BY <1>8 DEF Transmit, Arm, Acknowledge, Refuse, Ignore, Takes
  <2>2. CommandFits(b, c, Offered)
    BY <1>4, <1>8, FirstInQueue DEF NodeFits
  <2>3. /\ c.op \in Operations /\ c.task \in Tasks
    BY DEF Commands
  <2>4. Shown'
    <3>1. CASE Silent
      BY <1>6, <3>1
    <3>2. CASE c.op \in {"control", "redundant_control", "send"}
               /\ Publish(b, c.op, None, c.task)
      BY <1>1, <1>4, <1>5, <2>3, <3>2, PublishKeeps
    <3>3. CASE Publish(b, "arm", c.task, c.task)
      <4>1. c.task \in Tokens /\ "arm" \in Operations
        BY <2>3 DEF Tokens, Operations
      <4> QED BY <1>1, <1>4, <1>5, <2>3, <3>3, <4>1, PublishKeeps
    <3>4. CASE c.op \in {"cancel", "remote_alias"} /\ Publish(b, c.op, None, c.task)
      BY <1>1, <1>4, <1>5, <2>3, <3>4, PublishKeeps
    <3>5. CASE Publish(b, "error", None, c.task)
      BY <1>1, <1>4, <1>5, <2>3, <3>5, PublishKeeps
    <3> QED BY <1>8, <3>1, <3>2, <3>3, <3>4, <3>5
            DEF Transmit, Arm, Acknowledge, Refuse, Ignore
  <2>5. radio' = radio \/ radio' = [radio EXCEPT ![b] = c]
    BY <1>8 DEF Transmit, Arm, Acknowledge, Refuse, Ignore
  <2>6. Emits(b, c)
    <3>1. CASE Transmit(b, c)
      <4>1. CASE c.op = "send"
        <5>1. c.payload[2] \in Offered /\ b = Secondary
          BY <2>2, <4>1 DEF CommandFits
        <5>2. sent' = [sent EXCEPT ![c.payload[2]][b] = @ + 1]
          BY <3>1, <4>1 DEF Transmit
        <5> QED BY <5>1, <5>2 DEF Emits, Offered
      <4>2. CASE c.op # "send"
        <5>1. Mine(c, c.task)
          BY <3>1, <4>2 DEF Transmit, Mine
        <5>2. sent' = [sent EXCEPT ![c.task][b] = @ + 1]
          BY <3>1, <4>2 DEF Transmit
        <5> QED BY <2>3, <5>1, <5>2 DEF Emits
      <4> QED BY <4>1, <4>2
    <3>2. CASE ~Transmit(b, c)
      BY <1>8, <3>2 DEF Arm, Acknowledge, Refuse, Ignore, Emits
    <3> QED BY <3>1, <3>2
  <2>7. /\ sent' \in [Tasks -> [Bridges -> Nat]]
        /\ Budgets'
        /\ \A d \in Bridges : \A i \in DOMAIN inbox'[d] :
              CommandFits(d, inbox'[d][i], Offered)
    BY <1>1, <1>4, <1>8, <2>1, <2>6, TakingKeeps
  <2>8. inbox' \in [Bridges -> Seq(Commands)]
    BY <1>4, <1>8, <2>1, Taken
  <2>9. NodeTypes'
    BY <1>4, <2>4, <2>5, <2>7, <2>8 DEF NodeTypes, Shown
  <2>10. NodeFits'
    BY <1>2, <1>4, <2>2, <2>5, <2>7 DEF NodeFits, NodeTypes
  <2> QED BY <2>4, <2>7, <2>9, <2>10 DEF Shown
<1>9. CASE inbox[b] # <<>> /\ ~Transmitted(b)
  <2>1. PICK c \in Commands : c = Head(inbox[b])
    BY <1>4, <1>9, HeadTailProperties DEF NodeTypes
  <2> QED BY <1>3, <1>8, <1>9, <2>1 DEF Firmware
<1> QED BY <1>7, <1>9 DEF Firmware

-----------------------------------------------------------------------------
(* The connection *)

\* A delivered status changes what calls were answered, never what they are.
LEMMA DeliverKeeps ==
    ASSUME OnceInv, NEW b \in Bridges, Deliver(b)
    PROVE  /\ HomeTypes' /\ NodeTypes' /\ CallsFit' /\ EntityFits' /\ NodeFits'
           /\ Budgets'
<1>1. /\ UNCHANGED <<request, stage, inbox, radio, last, counter, sent>>
      /\ wire[b] # <<>>
      /\ wire' = [wire EXCEPT ![b] = Tail(@)]
      /\ status' = [status EXCEPT ![b] = Head(wire[b])]
  BY DEF Deliver
<1>2. HomeTypes /\ NodeTypes /\ CallsFit /\ EntityFits /\ NodeFits /\ Budgets
  BY DEF OnceInv
<1>3. wire[b] \in Seq(Statuses)
  BY <1>2 DEF NodeTypes
<1>4. /\ Head(wire[b]) \in Statuses /\ Tail(wire[b]) \in Seq(Statuses)
      /\ Len(Tail(wire[b])) = Len(wire[b]) - 1
      /\ \A i \in 1 .. Len(Tail(wire[b])) : Tail(wire[b])[i] = wire[b][i + 1]
  BY <1>1, <1>3, HeadTailProperties
<1>5. Len(wire[b]) \in Nat \ {0} /\ Head(wire[b]) = wire[b][1]
      /\ DOMAIN wire[b] = 1 .. Len(wire[b])
      /\ DOMAIN Tail(wire[b]) = 1 .. Len(wire[b]) - 1
  BY <1>1, <1>3, <1>4, EmptySeq, LenProperties
<1>6. PICK s \in Statuses : s = Head(wire[b]) /\ StatusFits(s, Offered)
  BY <1>2, <1>4, <1>5 DEF EntityFits
<1>7. call' = call \/ Notice(b, s)
  BY <1>6 DEF Deliver
<1>8. \A t \in Tasks :
         \/ call'[t] = call[t]
         \/ /\ call'[t] = [call[t] EXCEPT !.got = s]
            /\ stage[t] \in {"sending", "reply"}
            /\ s.action \in {call[t].op, "error"}
  BY <1>7 DEF Notice, Answers
<1>9. \A t \in Tasks : call'[t] \in Calls /\ call[t] \in Calls
  BY <1>2, <1>8, ZenonT(30) DEF HomeTypes, Calls
<1>10. \A t \in Tasks : /\ call'[t].op = call[t].op /\ call'[t].at = call[t].at
                        /\ call'[t].payload = call[t].payload
  BY <1>8, <1>9 DEF Calls
<1>11. \A t \in Tasks : \/ call'[t].got = call[t].got
                        \/ call'[t].got = s /\ s.action \in {call[t].op, "error"}
  BY <1>8, <1>9 DEF Calls
<1>12. \A t \in Tasks : Unissued(t)' <=> Unissued(t)
  BY <1>1, <1>10 DEF Unissued
<1>13. Offered' = Offered
  BY <1>1, <1>12 DEF Offered
<1>14. call' \in [Tasks -> Calls]
  <2>1. DOMAIN call' = Tasks /\ call' = [t \in Tasks |-> call'[t]]
    BY <1>2, <1>7 DEF Notice, HomeTypes
  <2> QED BY <1>9, <2>1
<1>15. HomeTypes'
  BY <1>1, <1>2, <1>4, <1>14 DEF HomeTypes
<1>16. NodeTypes'
  BY <1>1, <1>2, <1>4 DEF NodeTypes
<1>17. CallsFit'
  BY <1>1, <1>2, <1>6, <1>10, <1>11, <1>13 DEF CallsFit, CallFits
<1>18. EntityFits'
  <2>1. ASSUME NEW d \in Bridges
        PROVE  /\ status'[d] # None => StatusFits(status'[d], Offered)
               /\ \A i \in DOMAIN wire'[d] : StatusFits(wire'[d][i], Offered)
    <3>1. CASE d = b
      <4>1. status'[d] = s /\ wire'[d] = Tail(wire[b])
        BY <1>1, <1>2, <1>6, <3>1 DEF HomeTypes, NodeTypes
      <4>2. ASSUME NEW i \in 1 .. Len(wire[b]) - 1
            PROVE  Tail(wire[b])[i] = wire[b][i + 1] /\ i + 1 \in DOMAIN wire[b]
        BY <1>4, <1>5
      <4> QED BY <1>2, <1>5, <1>6, <4>1, <4>2 DEF EntityFits
    <3>2. CASE d # b
      BY <1>1, <1>2, <3>2 DEF EntityFits, HomeTypes, NodeTypes
    <3> QED BY <3>1, <3>2
  <2> QED BY <1>1, <1>2, <1>13, <2>1 DEF EntityFits
<1>19. NodeFits'
  BY <1>1, <1>2, <1>13 DEF NodeFits
<1>20. Budgets'
  BY <1>1, <1>2, <1>12 DEF Budgets, Budget, Queued, Owner
<1> QED BY <1>15, <1>16, <1>17, <1>18, <1>19, <1>20

\* One bridge gets another value.
LEMMA Updated ==
    \A S : \A f \in [Bridges -> S], b \in Bridges, x \in S :
        [f EXCEPT ![b] = x] \in [Bridges -> S]
OBVIOUS

\* A lost or restored connection only takes commands away.
LEMMA LinkKeeps ==
    ASSUME OnceInv, NEW b \in Bridges, Disconnect(b) \/ Reconnect(b)
    PROVE  /\ HomeTypes' /\ NodeTypes' /\ CallsFit' /\ EntityFits' /\ NodeFits'
           /\ Budgets'
<1>1. UNCHANGED <<home, sent>>
  BY DEF Disconnect, Reconnect
<1>2. HomeTypes /\ NodeTypes /\ CallsFit /\ EntityFits /\ NodeFits /\ Budgets
  BY DEF OnceInv
<1>3. Offered' = Offered /\ \A t \in Tasks : Unissued(t)' <=> Unissued(t)
  BY <1>1 DEF Offered, Unissued, home
<1>4. HomeTypes' /\ CallsFit'
  <2>1. status' = status \/ status' = [status EXCEPT ![b] = None]
    BY DEF Disconnect, Reconnect
  <2> QED BY <1>1, <1>2, <1>3, <2>1 DEF HomeTypes, CallsFit, CallFits, home
<1>5. /\ [action |-> "ready", event |-> 0, payload |-> None, answers |-> None] \in Statuses
      /\ \A s \in Statuses : s.action = "ready" => StatusFits(s, Offered)
  BY DEF Statuses, StatusFits, Payloads, Tokens
<1>6. PICK ready \in Statuses :
         /\ ready = [action |-> "ready", event |-> 0, payload |-> None, answers |-> None]
         /\ StatusFits(ready, Offered)
  BY <1>5
<1>7. /\ last' = last \/ last' = [last EXCEPT ![b] = ready]
      /\ inbox' = inbox \/ inbox' = [inbox EXCEPT ![b] = <<>>]
      /\ radio' = radio \/ radio' = [radio EXCEPT ![b] = None]
      /\ counter' = counter \/ counter' = [counter EXCEPT ![b] = 0]
      /\ wire' = [wire EXCEPT ![b] = <<>>] \/ wire' = [wire EXCEPT ![b] = <<last[b]>>]
      /\ status' = status \/ status' = [status EXCEPT ![b] = None]
  BY <1>6 DEF Disconnect, Reconnect
<1>8. last[b] \in Statuses /\ StatusFits(last[b], Offered)
  BY <1>2 DEF NodeTypes, EntityFits
<1>9. /\ <<>> \in Seq(Statuses) /\ <<last[b]>> \in Seq(Statuses) /\ <<>> \in Seq(Commands)
  BY <1>8
<1>10. NodeTypes'
  <2>1. wire' \in [Bridges -> Seq(Statuses)]
    <3>1. PICK q \in Seq(Statuses) : wire' = [wire EXCEPT ![b] = q]
      BY <1>7, <1>9
    <3>2. wire \in [Bridges -> Seq(Statuses)]
      BY <1>2 DEF NodeTypes
    <3> QED BY <3>1, <3>2, Updated
  <2>2. inbox' \in [Bridges -> Seq(Commands)]
    BY <1>2, <1>7, <1>9, Updated, ZenonT(30) DEF NodeTypes
  <2>3. last' \in [Bridges -> Statuses]
    <3>1. last \in [Bridges -> Statuses]
      BY <1>2 DEF NodeTypes
    <3>2. last' = last \/ last' = [last EXCEPT ![b] = ready]
      BY <1>7
    <3> QED BY <3>1, <3>2, Updated
  <2>4. counter' \in [Bridges -> Nat]
    BY <1>2, <1>7, Updated DEF NodeTypes
  <2>5. radio' \in [Bridges -> Commands \cup {None}]
    BY <1>2, <1>7, Updated DEF NodeTypes
  <2> QED BY <1>1, <1>2, <2>1, <2>2, <2>3, <2>4, <2>5 DEF NodeTypes
<1>11. EntityFits'
  <2>1. ASSUME NEW d \in Bridges
        PROVE  /\ status'[d] # None => StatusFits(status'[d], Offered)
               /\ StatusFits(last'[d], Offered)
    BY <1>2, <1>6, <1>7 DEF EntityFits, NodeTypes, HomeTypes
  <2>2. ASSUME NEW d \in Bridges, NEW i \in DOMAIN wire'[d]
        PROVE  StatusFits(wire'[d][i], Offered)
    <3>1. CASE d = b
      BY <1>2, <1>7, <1>8, <3>1 DEF NodeTypes
    <3>2. CASE d # b
      BY <1>2, <1>7, <3>2 DEF NodeTypes, EntityFits
    <3> QED BY <3>1, <3>2
  <2> QED BY <1>3, <2>1, <2>2 DEF EntityFits
<1>12. /\ \A d \in Bridges : inbox'[d] = inbox[d] \/ inbox'[d] = <<>>
       /\ \A d \in Bridges : radio'[d] = radio[d] \/ radio'[d] = None
  BY <1>2, <1>7 DEF NodeTypes
<1>13. NodeFits'
  BY <1>2, <1>3, <1>12 DEF NodeFits
<1>14. ASSUME NEW u \in Tasks PROVE Budget(u)'
  <2>1. /\ Budget(u) /\ Owner(u)' = Owner(u) /\ Owner(u) \in Bridges
        /\ sent'[u] = sent[u]
    BY <1>1, <1>2, Ends DEF Budgets, Owner, home
  <2>2. \A d \in Bridges : Queued(u, d)' => Queued(u, d)
    BY <1>12 DEF Queued
  <2> QED BY <1>3, <1>12, <2>1, <2>2 DEF Budget, Queued
<1> QED BY <1>4, <1>10, <1>11, <1>13, <1>14 DEF Budgets

-----------------------------------------------------------------------------
(* The theorem *)

\* The invariant holds initially.
LEMMA OnceInit == Init => OnceInv
<1> SUFFICES ASSUME Init PROVE OnceInv
  OBVIOUS
<1>1. LockInv
  BY ControlAssumption, LockInit
<1>2. NoCall \in Calls /\ NoCall.op = "control" /\ NoCall.got = None
  BY DEF NoCall, Calls, Operations, Payloads, Tokens
<1>3. /\ [action |-> "ready", event |-> 0, payload |-> None, answers |-> None] \in Statuses
      /\ \A s \in Statuses : s.action = "ready" => StatusFits(s, Offered)
  BY DEF Statuses, StatusFits, Payloads, Tokens
<1>4. /\ request = [t \in Tasks |-> "open"] /\ stage = [t \in Tasks |-> "new"]
      /\ call = [t \in Tasks |-> NoCall]
      /\ last = [b \in Bridges |-> [action |-> "ready", event |-> 0, payload |-> None,
                                    answers |-> None]]
      /\ status = last
      /\ inbox = [b \in Bridges |-> <<>>] /\ wire = [b \in Bridges |-> <<>>]
      /\ radio = [b \in Bridges |-> None] /\ counter = [b \in Bridges |-> 0]
      /\ sent = [t \in Tasks |-> [b \in Bridges |-> 0]]
  BY DEF Init
<1>5. HomeTypes
  BY <1>2, <1>3, <1>4 DEF HomeTypes, Requests, Stages
<1>6. NodeTypes
  <2>1. inbox \in [Bridges -> Seq(Commands)] /\ wire \in [Bridges -> Seq(Statuses)]
    BY <1>4
  <2> QED BY <1>3, <1>4, <2>1 DEF NodeTypes
<1>7. CallsFit
  BY <1>2, <1>4 DEF CallsFit, CallFits
<1>8. EntityFits /\ NodeFits
  BY <1>3, <1>4 DEF EntityFits, NodeFits
<1>9. Budgets
  <2>1. ASSUME NEW u \in Tasks PROVE Budget(u)
    BY <1>4, Ends DEF Budget, Queued, Owner
  <2> QED BY <2>1 DEF Budgets
<1> QED BY <1>1, <1>5, <1>6, <1>7, <1>8, <1>9 DEF OnceInv

\* Every step keeps it.
LEMMA OnceStep == OnceInv /\ [Next]_vars => OnceInv'
<1> SUFFICES ASSUME OnceInv, [Next]_vars PROVE OnceInv'
  OBVIOUS
<1>1. LockInv'
  BY ControlAssumption, LockStep DEF OnceInv
<1>2. CASE UNCHANGED vars
  BY <1>1, <1>2, ZenonT(30)
     DEF OnceInv, vars, home, node, link, HomeTypes, NodeTypes, CallsFit, CallFits,
         EntityFits, NodeFits, Budgets, Budget, Offered, Unissued, Queued, Owner
<1>3. ASSUME NEW t \in Tasks, TaskStep(t) \/ \E r \in Requests : Submit(t, r)
      PROVE  OnceInv'
  BY <1>1, <1>3, SubmitKeeps, AcquireRfKeeps, SendKeeps, SentKeeps, EndOfCallKeeps
     DEF TaskStep, OnceInv
<1>4. ASSUME NEW b \in Bridges,
             Firmware(b) \/ Deliver(b) \/ Disconnect(b) \/ Reconnect(b)
      PROVE  OnceInv'
  BY <1>1, <1>4, FirmwareKeeps, DeliverKeeps, LinkKeeps DEF OnceInv
<1> QED BY <1>2, <1>3, <1>4 DEF Next

\* The owner of a shutter transmits a command at most once, in every reachable
\* state, for any number of tasks and lost connections: a failed `arm`, a lost
\* answer or a failed repetition never makes the coordinator issue it afresh.
THEOREM OnlyOnce == Spec => []PrimaryOnce
<1>1. OnceInv => PrimaryOnce
  BY DEF OnceInv, Budgets, Budget, PrimaryOnce
<1> QED BY <1>1, OnceInit, OnceStep, PTL DEF Spec

-----------------------------------------------------------------------------
(* RelayExact: the secondary bridge repeats a frame at most once, and only *)
(* after the primary has transmitted it, however many envelopes, stale     *)
(* answers and cancelled tokens are about.  The argument follows the relay *)
(* token.  A frame is offered with one token (tok below), whatever call,   *)
(* command or status carries the envelope; a token is armed once; and the  *)
(* repetition that uses the token up leaves it spent for ever.             *)


\* The tasks whose frame the primary has transmitted.
Out == {f \in Tasks : sent[f][Primary] >= 1}

\* The envelope p holds a frame of O and the token it was offered with.
Bound(p, tok, O) == p[2] \in O /\ p[1] = tok[p[2]]

StatusRelays(s, tok, O) ==
    /\ s.action = "arm" => s.payload \in Tasks
    /\ s.action = "redundant_control" /\ s.payload # None => Bound(s.payload, tok, O)

CommandRelays(c, tok, O) ==
    /\ c.op = "redundant_control" => c.payload = tok[c.task]
    /\ c.op = "send" => Bound(c.payload, tok, O)

CallRelays(t, tok, O) ==
    /\ call[t].op = "redundant_control" => call[t].payload = tok[t]
    /\ call[t].op = "send" => Bound(call[t].payload, tok, O)
    /\ call[t].got # None => StatusRelays(call[t].got, tok, O)

\* Envelopes are carried with the token they were made for.
EntityRelays(tok) ==
    \A b \in Bridges :
        /\ status[b] # None => StatusRelays(status[b], tok, Out)
        /\ StatusRelays(last[b], tok, Out)
        /\ \A i \in DOMAIN wire[b] : StatusRelays(wire[b][i], tok, Out)

NodeRelays(tok) ==
    \A b \in Bridges :
        /\ radio[b] # None => CommandRelays(radio[b], tok, Out)
        /\ \A i \in DOMAIN inbox[b] : CommandRelays(inbox[b][i], tok, Out)

Carried(tok) ==
    /\ \A t \in Tasks : CallRelays(t, tok, Out)
    /\ EntityRelays(tok)
    /\ NodeRelays(tok)

\* Commands for the owner go to the owner, and an `arm` to the secondary.
CallPlaced(t) ==
    stage[t] = "wait_service" =>
        /\ call[t].op \in {"control", "redundant_control"} => call[t].at = Owner(t)
        /\ call[t].op = "arm" => call[t].at = Secondary

CommandPlaced(b, c) ==
    /\ c.op \in {"control", "redundant_control"} => b = Owner(c.task)
    /\ c.op = "arm" => b = Secondary

\* What a bridge transmits is a command, and of an offer the frame is out.
OnAir(c, O) ==
    /\ c.op # "arm"
    /\ c.op = "redundant_control" => c.task \in O

Placed ==
    /\ \A t \in Tasks : CallPlaced(t)
    /\ \A b \in Bridges :
          /\ \A i \in DOMAIN inbox[b] : CommandPlaced(b, inbox[b][i])
          /\ radio[b] # None => OnAir(radio[b], Out)

\* The token of task k may still be armed.
ArmUnsent(k) ==
    \/ stage[k] \in {"new", "wait_rf"}
    \/ stage[k] = "wait_service" /\ call[k].op = "arm"

ArmAt(i, k) == inbox[Secondary][i].op = "arm" /\ inbox[Secondary][i].task = k

ArmQueued(k) == \E i \in DOMAIN inbox[Secondary] : ArmAt(i, k)

Spent(k) == ~ArmUnsent(k) /\ ~ArmQueued(k) /\ armed[Secondary] # k

\* The token of k is armed once.
Arming(k) ==
    /\ ArmUnsent(k) => ~ArmQueued(k) /\ armed[Secondary] # k
    /\ ArmQueued(k) => armed[Secondary] # k
    /\ \A i, j \in DOMAIN inbox[Secondary] : ArmAt(i, k) /\ ArmAt(j, k) => i = j

Arms == armed \in [Bridges -> Tokens] /\ \A k \in Tasks : Arming(k)

\* A frame that was repeated has been transmitted, and its token is spent.
Repeats(f, tok) ==
    request[f] # "other" =>
        /\ sent[f][Secondary] <= 1
        /\ sent[f][Secondary] = 1 => f \in Out /\ Spent(tok[f])

Relay(tok) == /\ Placed /\ Arms /\ Carried(tok)
              /\ \A f \in Tasks : Repeats(f, tok)

RelayInv == OnceInv /\ \E tok \in [Tasks -> Tasks] : Relay(tok)

-----------------------------------------------------------------------------
(* Lemmas *)

\* What is carried stays so when more frames have been transmitted, and when only
\* frames that are not offered yet get another token.
LEMMA MoreRelays ==
    ASSUME NEW tok, NEW new, NEW O, NEW P, NEW G, O \subseteq P,
           \A f \in G : new[f] = tok[f]
    PROVE  /\ \A s : StatusFits(s, G) /\ StatusRelays(s, tok, O) => StatusRelays(s, new, P)
           /\ \A b, c : CommandFits(b, c, G) /\ CommandRelays(c, tok, O)
                           => CommandRelays(c, new, P)
BY DEF StatusFits, StatusRelays, CommandFits, CommandRelays, Bound

\* A step of task t alone that sends nothing.  Its frame may get a token while it
\* is unissued.
LEMMA TaskRelays ==
    ASSUME OnceInv, NEW tok \in [Tasks -> Tasks], Relay(tok), NEW t \in Tasks,
           NEW new \in [Tasks -> Tasks],
           UNCHANGED <<node, status>>,
           \A u \in Tasks \ {t} : /\ stage'[u] = stage[u] /\ call'[u] = call[u]
                                  /\ request'[u] = request[u],
           request'[t] # request[t] => Unissued(t),
           ArmUnsent(t)' => ArmUnsent(t),
           \A f \in Tasks \ {t} : new[f] = tok[f],
           new[t] # tok[t] => Unissued(t),
           CallRelays(t, new, Out)', CallPlaced(t)'
    PROVE  Relay(new)'
<1>1. /\ UNCHANGED <<inbox, radio, armed, wire, last, counter, sent, status>>
      /\ Out' = Out
  BY DEF node, Out
<1>2. /\ NodeTypes /\ CallsFit /\ EntityFits /\ NodeFits /\ Budgets
      /\ Placed /\ Arms /\ Carried(tok) /\ \A f \in Tasks : Repeats(f, tok)
  BY DEF OnceInv, Relay
<1>3. \A f \in Offered : new[f] = tok[f]
  BY DEF Offered
<1>4. /\ \A s : StatusFits(s, Offered) /\ StatusRelays(s, tok, Out)
                   => StatusRelays(s, new, Out)
      /\ \A b, c : CommandFits(b, c, Offered) /\ CommandRelays(c, tok, Out)
                      => CommandRelays(c, new, Out)
  BY <1>3, MoreRelays
<1>5. EntityRelays(new)'
  BY <1>1, <1>2, <1>4 DEF Carried, EntityRelays, EntityFits
<1>6. NodeRelays(new)'
  BY <1>1, <1>2, <1>4 DEF Carried, NodeRelays, NodeFits
<1>7. ASSUME NEW u \in Tasks PROVE CallRelays(u, new, Out)'
  <2>1. CASE u = t
    BY <2>1
  <2>2. CASE u # t
    <3>1. CallFits(u, Offered) /\ CallRelays(u, tok, Out) /\ new[u] = tok[u]
      BY <1>2, <2>2 DEF CallsFit, Carried
    <3>2. call'[u] = call[u]
      BY <2>2
    <3>3. call[u].got # None => StatusRelays(call[u].got, new, Out)
      BY <1>4, <3>1 DEF CallFits, CallRelays
    <3>4. call[u].op = "send" => Bound(call[u].payload, new, Out)
      BY <1>3, <3>1 DEF CallFits, CallRelays, Bound
    <3> QED BY <1>1, <3>1, <3>2, <3>3, <3>4 DEF CallRelays
  <2> QED BY <2>1, <2>2
<1>8. Placed'
  <2>1. ASSUME NEW u \in Tasks PROVE CallPlaced(u)'
    BY <1>2 DEF Placed, CallPlaced, Owner
  <2>2. ASSUME NEW b \in Bridges, NEW i \in DOMAIN inbox[b]
        PROVE  CommandPlaced(b, inbox[b][i])'
    <3> DEFINE c == inbox[b][i]
    <3>1. CommandPlaced(b, c) /\ c \in Commands
      BY <1>2 DEF Placed, NodeTypes
    <3>2. CASE c.op \in {"control", "redundant_control"}
      <4>1. c.task \in Tasks
        BY <3>1 DEF Commands
      <4>2. Mine(c, c.task)
        BY <3>2 DEF Mine
      <4>3. ~Unissued(c.task)
        BY <1>2, <4>1, <4>2 DEF Budgets, Budget, Queued
      <4>4. request'[c.task] = request[c.task]
        BY <4>1, <4>3
      <4> QED BY <1>1, <3>1, <4>4 DEF CommandPlaced, Owner
    <3>3. CASE c.op \notin {"control", "redundant_control"}
      BY <1>1, <3>1, <3>3 DEF CommandPlaced
    <3> QED BY <3>2, <3>3
  <2> QED BY <1>1, <1>2, <2>1, <2>2 DEF Placed
<1>9. \A k \in Tasks : /\ ArmUnsent(k)' => ArmUnsent(k)
                       /\ ArmQueued(k)' <=> ArmQueued(k)
                       /\ Spent(k) => Spent(k)'
  BY <1>1 DEF ArmUnsent, ArmQueued, ArmAt, Spent
<1>10. Arms'
  BY <1>1, <1>2, <1>9 DEF Arms, Arming, ArmAt
<1>11. ASSUME NEW f \in Tasks PROVE Repeats(f, new)'
  <2>1. CASE Unissued(f)
    <3>1. sent[f][Secondary] = 0
      BY <1>2, <2>1, Ends DEF Budgets, Budget
    <3> QED BY <1>1, <3>1 DEF Repeats
  <2>2. CASE ~Unissued(f)
    <3>1. request'[f] = request[f] /\ new[f] = tok[f] /\ tok[f] \in Tasks
      BY <2>2
    <3> QED BY <1>1, <1>2, <1>9, <3>1 DEF Repeats
  <2> QED BY <2>1, <2>2
<1> QED BY <1>5, <1>6, <1>7, <1>8, <1>10, <1>11 DEF Relay, Carried


-----------------------------------------------------------------------------
(* The steps of a task *)

\* A new request moves no frame.
LEMMA SubmitRelays ==
    ASSUME OnceInv, NEW tok \in [Tasks -> Tasks], Relay(tok), NEW t \in Tasks,
           NEW r \in Requests, Submit(t, r)
    PROVE  Relay(tok)'
<1>1. /\ HomeTypes /\ CallFits(t, Offered) /\ CallRelays(t, tok, Out)
  BY DEF OnceInv, CallsFit, Relay, Carried
<1>2. /\ stage[t] = "new" /\ Unissued(t) /\ ArmUnsent(t) /\ call[t].op = "control"
  BY <1>1 DEF Submit, Unissued, ArmUnsent, CallFits
<1>3. UNCHANGED <<node, status>> /\ Out' = Out
  BY DEF Submit, link, node, Out
<1>4. \A u \in Tasks \ {t} : request'[u] = request[u]
  BY <1>1 DEF Submit, HomeTypes
<1>5. CASE r = "alias"
  <2>1. PICK b \in Bridges : Invoke(t, b, "remote_alias", None)
    BY <1>5 DEF Submit
  <2>2. /\ \A u \in Tasks \ {t} : stage'[u] = stage[u] /\ call'[u] = call[u]
        /\ call'[t].op = "remote_alias" /\ call'[t].got = None
    BY <1>1, <2>1 DEF Invoke, HomeTypes, NoCall
  <2>3. CallRelays(t, tok, Out)' /\ CallPlaced(t)'
    BY <2>2 DEF CallRelays, CallPlaced
  <2> QED BY <1>2, <1>3, <1>4, <2>2, <2>3, TaskRelays
<1>6. CASE r # "alias"
  <2>1. /\ \A u \in Tasks \ {t} : stage'[u] = stage[u]
        /\ call' = call /\ stage'[t] = "wait_rf"
    BY <1>1, <1>6 DEF Submit, HomeTypes
  <2>2. CallRelays(t, tok, Out)' /\ CallPlaced(t)'
    BY <1>1, <1>3, <2>1 DEF CallRelays, CallPlaced
  <2> QED BY <1>2, <1>3, <1>4, <2>1, <2>2, TaskRelays
<1> QED BY <1>5, <1>6

\* Under the radio lock the task calls its owner, or arms the secondary.
LEMMA AcquireRfRelays ==
    ASSUME OnceInv, NEW tok \in [Tasks -> Tasks], Relay(tok), NEW t \in Tasks,
           AcquireRf(t)
    PROVE  Relay(tok)'
<1>1. HomeTypes
  BY DEF OnceInv
<1>2. UNCHANGED <<node, status, request>> /\ ArmUnsent(t)
  BY DEF AcquireRf, link, ArmUnsent
<1>3. \A u \in Tasks \ {t} : stage'[u] = stage[u] /\ call'[u] = call[u]
  BY <1>1 DEF AcquireRf, HomeTypes
<1>4. /\ call'[t].got = None
      /\ \/ call'[t].op = "arm" /\ call'[t].at = Secondary
         \/ call'[t].op = "control" /\ call'[t].at = Owner(t)
  BY <1>1 DEF AcquireRf, HomeTypes, NoCall
<1>5. CallRelays(t, tok, Out)' /\ CallPlaced(t)'
  BY <1>2, <1>4 DEF CallRelays, CallPlaced, Owner
<1> QED BY <1>2, <1>3, <1>5, TaskRelays

\* The status entity may hold the answer when the service call returns.
LEMMA SentRelays ==
    ASSUME OnceInv, NEW tok \in [Tasks -> Tasks], Relay(tok), NEW t \in Tasks, Sent(t)
    PROVE  Relay(tok)'
<1>1. HomeTypes /\ Calling
  BY DEF OnceInv, LockInv
<1>2. /\ UNCHANGED <<node, status, request>> /\ Out' = Out /\ stage[t] = "sending"
      /\ stage' = [stage EXCEPT ![t] = "reply"]
  BY DEF Sent, link, node, Out
<1>3. \A u \in Tasks \ {t} : stage'[u] = stage[u] /\ call'[u] = call[u]
  BY <1>1 DEF Sent, HomeTypes
<1>4. PICK b \in Bridges : b = call[t].at
  BY <1>1, <1>2 DEF Calling
<1>5. /\ call'[t].op = call[t].op /\ call'[t].payload = call[t].payload
      /\ \/ call'[t].got = call[t].got
         \/ call'[t].got = status[b] /\ status[b] # None
  BY <1>1, <1>4 DEF Sent, HomeTypes, Calls, Answers, IsNew
<1>6. CallRelays(t, tok, Out) /\ (status[b] # None => StatusRelays(status[b], tok, Out))
  BY DEF Relay, Carried, EntityRelays
<1>7. CallRelays(t, tok, Out)'
  BY <1>2, <1>5, <1>6 DEF CallRelays
<1>8. stage'[t] = "reply"
  BY <1>1, <1>2 DEF HomeTypes
<1>9. CallPlaced(t)' /\ ~ArmUnsent(t)'
  BY <1>8 DEF CallPlaced, ArmUnsent
<1> QED BY <1>2, <1>3, <1>7, <1>9, TaskRelays

\* A task makes no call any more, or one that carries no frame.
LEMMA IdleRelays ==
    ASSUME OnceInv, NEW tok \in [Tasks -> Tasks], Relay(tok), NEW t \in Tasks,
           UNCHANGED <<node, status, request>>,
           \/ StopsCalling(t)
           \/ \E b \in Bridges : \E payload : Invoke(t, b, "cancel", payload)
           \/ request[t] # "other" /\ Invoke(t, Primary, "control", None)
    PROVE  Relay(tok)'
<1>1. HomeTypes
  BY DEF OnceInv
<1>2. \A u \in Tasks \ {t} : stage'[u] = stage[u] /\ call'[u] = call[u]
  BY <1>1, ZenonT(30) DEF StopsCalling, Invoke, HomeTypes
<1>3. /\ stage'[t] \in {"done", "guard", "wait_service"} /\ call'[t].got = None
      /\ call'[t].op \in {"control", "cancel"}
      /\ stage'[t] = "wait_service" /\ call'[t].op = "control" =>
            call'[t].at = Primary /\ request[t] # "other"
  <2>1. CASE StopsCalling(t)
    <3>1. call'[t] = NoCall /\ stage'[t] \in {"done", "guard"}
      BY <1>1, <2>1 DEF StopsCalling, HomeTypes
    <3> QED BY <3>1 DEF NoCall
  <2>2. CASE \E b \in Bridges : \E payload : Invoke(t, b, "cancel", payload)
    <3>1. PICK b \in Bridges : \E payload : Invoke(t, b, "cancel", payload)
      BY <2>2
    <3>2. PICK payload : Invoke(t, b, "cancel", payload)
      BY <3>1
    <3> QED BY <1>1, <3>2 DEF Invoke, HomeTypes, NoCall
  <2>3. CASE request[t] # "other" /\ Invoke(t, Primary, "control", None)
    BY <1>1, <2>3 DEF Invoke, HomeTypes, NoCall
  <2> QED BY <2>1, <2>2, <2>3
<1>4. CallRelays(t, tok, Out)' /\ CallPlaced(t)' /\ ~ArmUnsent(t)'
  BY <1>3 DEF CallRelays, CallPlaced, ArmUnsent, Owner
<1> QED BY <1>2, <1>4, TaskRelays

\* The token of an `arm` that was answered is bound to the frame that is offered
\* with it; the repetition uses the envelope the primary has answered with.
LEMMA OfferRelays ==
    ASSUME OnceInv, NEW tok \in [Tasks -> Tasks], Relay(tok), NEW t \in Tasks,
           stage[t] = "reply", call[t].got # None, call[t].got.action # "error",
           Answered(t, call[t].got), UNCHANGED <<node, status, request>>
    PROVE  \E new \in [Tasks -> Tasks] : Relay(new)'
<1> DEFINE s == call[t].got
<1>1. /\ HomeTypes /\ CallFits(t, Offered) /\ CallRelays(t, tok, Out) /\ Out' = Out
  BY DEF OnceInv, CallsFit, Relay, Carried, node, Out
<1>2. s.action = call[t].op /\ StatusRelays(s, tok, Out) /\ StatusFits(s, Offered)
  BY <1>1 DEF CallFits, CallRelays
<1>3. CASE call[t].op = "arm" /\ Invoke(t, Primary, "redundant_control", s.payload)
  <2>1. s.payload \in Tasks /\ request[t] # "other" /\ Unissued(t)
    BY <1>1, <1>2, <1>3 DEF StatusRelays, CallFits, Unissued
  <2>2. PICK new \in [Tasks -> Tasks] :
           /\ new[t] = s.payload
           /\ \A f \in Tasks \ {t} : new[f] = tok[f]
    <3>1. [tok EXCEPT ![t] = s.payload] \in [Tasks -> Tasks]
      BY <2>1
    <3> QED BY <3>1
  <2>3. \A u \in Tasks \ {t} : stage'[u] = stage[u] /\ call'[u] = call[u]
    BY <1>1, <1>3 DEF Invoke, HomeTypes
  <2>4. /\ stage'[t] = "wait_service" /\ call'[t].got = None /\ call'[t].at = Primary
        /\ call'[t].op = "redundant_control" /\ call'[t].payload = s.payload
    BY <1>1, <1>3 DEF Invoke, HomeTypes, NoCall
  <2>5. CallRelays(t, new, Out)' /\ CallPlaced(t)' /\ ~ArmUnsent(t)'
    BY <2>1, <2>2, <2>4 DEF CallRelays, CallPlaced, ArmUnsent, Owner
  <2>6. Relay(new)'
    BY <2>1, <2>2, <2>3, <2>5, TaskRelays
  <2> QED BY <2>2, <2>6
<1>4. CASE /\ call[t].op = "redundant_control" /\ s.payload # None
           /\ Invoke(t, Secondary, "send", s.payload)
  <2>1. Bound(s.payload, tok, Out)
    BY <1>2, <1>4 DEF StatusRelays
  <2>2. \A u \in Tasks \ {t} : stage'[u] = stage[u] /\ call'[u] = call[u]
    BY <1>1, <1>4 DEF Invoke, HomeTypes
  <2>3. /\ stage'[t] = "wait_service" /\ call'[t].got = None
        /\ call'[t].op = "send" /\ call'[t].payload = s.payload
    BY <1>1, <1>4 DEF Invoke, HomeTypes, NoCall
  <2>4. CallRelays(t, tok, Out)' /\ CallPlaced(t)' /\ ~ArmUnsent(t)'
    BY <1>1, <2>1, <2>3 DEF CallRelays, CallPlaced, ArmUnsent
  <2> QED BY <2>2, <2>4, TaskRelays
<1>5. CASE Invoke(t, Secondary, "cancel", call[t].payload)
  BY <1>5, IdleRelays, Ends
<1>6. CASE (\E r : Finish(t, r)) \/ (/\ stage' = [stage EXCEPT ![t] = "guard"]
                                     /\ call' = [call EXCEPT ![t] = NoCall])
  <2>1. StopsCalling(t)
    BY <1>6 DEF Finish, StopsCalling
  <2> QED BY <2>1, IdleRelays
<1> QED BY <1>3, <1>4, <1>5, <1>6 DEF Answered, PrimaryAnswered

\* A failed call is followed by a command of the primary alone, by the return of
\* the token, or by nothing.
LEMMA FailureRelays ==
    ASSUME OnceInv, NEW tok \in [Tasks -> Tasks], Relay(tok), NEW t \in Tasks,
           Failed(t), UNCHANGED <<node, status, request>>
    PROVE  Relay(tok)'
<1>1. CASE call[t].op = "arm" /\ Invoke(t, Primary, "control", None)
  <2>1. request[t] # "other"
    BY <1>1 DEF OnceInv, CallsFit, CallFits
  <2> QED BY <1>1, <2>1, IdleRelays
<1>2. CASE Invoke(t, Secondary, "cancel", call[t].payload)
  BY <1>2, IdleRelays, Ends
<1>3. CASE \E r : Finish(t, r)
  <2>1. StopsCalling(t)
    BY <1>3 DEF Finish, StopsCalling
  <2> QED BY <2>1, IdleRelays
<1> QED BY <1>1, <1>2, <1>3 DEF Failed, OfferFailed

\* The end of a call, or of the guard time.
LEMMA EndOfCallRelays ==
    ASSUME OnceInv, NEW tok \in [Tasks -> Tasks], Relay(tok), NEW t \in Tasks,
           Return(t) \/ Timeout(t) \/ Unavailable(t) \/ GuardEnds(t)
    PROVE  \E new \in [Tasks -> Tasks] : Relay(new)'
<1>1. UNCHANGED <<node, status, request>>
  BY DEF Return, Timeout, Unavailable, GuardEnds, link
<1>2. CASE Failed(t)
  BY <1>1, <1>2, FailureRelays
<1>3. CASE GuardEnds(t)
  <2>1. StopsCalling(t)
    BY <1>3 DEF GuardEnds, Finish, StopsCalling
  <2> QED BY <1>1, <2>1, IdleRelays
<1>4. CASE Return(t) /\ ~Failed(t)
  BY <1>1, <1>4, OfferRelays DEF Return
<1> QED BY <1>2, <1>3, <1>4 DEF Return, Timeout, Unavailable


-----------------------------------------------------------------------------
(* Sending the command *)

\* The command carries what the call did; an `arm` is sent by its own task.
LEMMA SendRelays ==
    ASSUME OnceInv, NEW tok \in [Tasks -> Tasks], Relay(tok), NEW t \in Tasks, Send(t)
    PROVE  Relay(tok)'
<1>b. PICK b \in Bridges : b = call[t].at
  BY DEF Send, OnceInv, LockInv, Calling
<1>c. PICK c \in Commands :
         c = [task |-> t, op |-> call[t].op, payload |-> call[t].payload]
  BY DEF OnceInv, HomeTypes, Calls, Commands
<1>1. /\ stage[t] = "wait_service" /\ stage' = [stage EXCEPT ![t] = "sending"]
      /\ inbox' = [inbox EXCEPT ![b] = Append(@, c)]
      /\ UNCHANGED <<request, radio, armed, wire, last, counter, sent, status>>
  BY <1>b, <1>c DEF Send, link
<1>2. /\ HomeTypes /\ NodeTypes /\ Placed /\ Arms
      /\ \A u \in Tasks : CallRelays(u, tok, Out) /\ CallPlaced(u) /\ Repeats(u, tok)
      /\ EntityRelays(tok) /\ NodeRelays(tok) /\ Out' = Out
  BY <1>1 DEF OnceInv, Relay, Carried, Placed, Out
<1>3. /\ stage'[t] = "sending" /\ call'[t].op = call[t].op
      /\ call'[t].payload = call[t].payload /\ call'[t].got = call[t].got
      /\ \A u \in Tasks \ {t} : stage'[u] = stage[u] /\ call'[u] = call[u]
  BY <1>1, <1>2 DEF Send, HomeTypes, Calls
<1>4. c.task = t /\ c.op = call[t].op /\ c.payload = call[t].payload
  BY <1>c
<1>5. /\ inbox' \in [Bridges -> Seq(Commands)]
      /\ \A d \in Bridges : \A i \in DOMAIN inbox'[d] :
            \/ i \in DOMAIN inbox[d] /\ inbox'[d][i] = inbox[d][i]
            \/ d = b /\ i = Len(inbox[b]) + 1 /\ inbox'[d][i] = c
  BY <1>1, <1>2, Appended
<1>6. \A u \in Tasks : CallRelays(u, tok, Out)'
  BY <1>2, <1>3 DEF CallRelays
<1>7. EntityRelays(tok)'
  BY <1>1, <1>2 DEF EntityRelays
<1>8. NodeRelays(tok)'
  <2>1. CommandRelays(c, tok, Out)
    BY <1>2, <1>4 DEF CallRelays, CommandRelays
  <2> QED BY <1>1, <1>2, <1>5, <2>1 DEF NodeRelays
<1>9. Placed'
  <2>1. CommandPlaced(b, c)
    BY <1>b, <1>1, <1>2, <1>4 DEF CallPlaced, CommandPlaced
  <2>2. \A u \in Tasks : CallPlaced(u)'
    BY <1>1, <1>2, <1>3 DEF CallPlaced, Owner
  <2>3. \A d \in Bridges : \A x : CommandPlaced(d, x)' <=> CommandPlaced(d, x)
    BY <1>1 DEF CommandPlaced, Owner
  <2> QED BY <1>1, <1>2, <1>5, <2>1, <2>2, <2>3 DEF Placed
<1>10. ASSUME NEW k \in Tasks PROVE Arming(k)' /\ (Spent(k) => Spent(k)')
  <2>1. Arming(k)
    BY <1>2 DEF Arms
  <2>2. ArmUnsent(k)' => ArmUnsent(k) /\ k # t
    BY <1>1, <1>2, <1>3 DEF ArmUnsent
  <2>3. CASE k = t /\ c.op = "arm"
    <3>1. ArmUnsent(k)
      BY <1>1, <1>4, <2>3 DEF ArmUnsent
    <3>2. ~ArmQueued(k) /\ armed[Secondary] # k
      BY <2>1, <3>1 DEF Arming
    <3>3. \A i \in DOMAIN inbox'[Secondary] : ArmAt(i, k)' => i = Len(inbox[b]) + 1
      BY <1>5, <3>2, Ends DEF ArmAt, ArmQueued
    <3> QED BY <1>1, <2>2, <2>3, <3>1, <3>2, <3>3 DEF Arming, Spent
  <2>4. CASE ~(k = t /\ c.op = "arm")
    <3>1. \A i \in DOMAIN inbox'[Secondary] :
             ArmAt(i, k)' => i \in DOMAIN inbox[Secondary] /\ ArmAt(i, k)
      BY <1>4, <1>5, <2>4, Ends DEF ArmAt
    <3>2. ArmQueued(k)' => ArmQueued(k)
      BY <3>1 DEF ArmQueued
    <3> QED BY <1>1, <2>1, <2>2, <3>1, <3>2 DEF Arming, Spent
  <2> QED BY <2>3, <2>4
<1>11. Arms'
  BY <1>1, <1>2, <1>10 DEF Arms
<1>12. ASSUME NEW f \in Tasks PROVE Repeats(f, tok)'
  BY <1>1, <1>2, <1>10 DEF Repeats
<1> QED BY <1>6, <1>7, <1>8, <1>9, <1>11, <1>12 DEF Relay, Carried

-----------------------------------------------------------------------------
(* The firmware *)

\* A published status carries a frame only if the primary has transmitted it.
LEMMA PublishRelays ==
    ASSUME NodeTypes, NEW tok, EntityRelays(tok), NEW b \in Bridges, NEW action,
           NEW payload, NEW t, Publish(b, action, payload, t),
           action = "arm" => payload \in Tasks,
           action = "redundant_control" /\ payload # None => Bound(payload, tok, Out),
           UNCHANGED status, Out \subseteq Out'
    PROVE  EntityRelays(tok)'
<1> DEFINE s == [action |-> action, payload |-> payload, answers |-> t,
                 event |-> IF action = "redundant_control" THEN None
                           ELSE counter[b] + 1]
<1>1. /\ last' = [last EXCEPT ![b] = s]
      /\ wire' = IF connected[b] THEN [wire EXCEPT ![b] = Append(@, s)] ELSE wire
  BY DEF Publish
<1>2. StatusRelays(s, tok, Out)
  BY DEF StatusRelays
<1> HIDE DEF s
<1>3. \A x : StatusRelays(x, tok, Out) => StatusRelays(x, tok, Out')
  BY DEF StatusRelays, Bound
<1>4. wire \in [Bridges -> Seq(Statuses)] /\ last \in [Bridges -> Statuses]
  BY DEF NodeTypes
<1>5. \A d \in Bridges : last'[d] = last[d] \/ last'[d] = s
  BY <1>1, <1>4
<1>6. ASSUME NEW d \in Bridges, NEW i \in DOMAIN wire'[d]
      PROVE  StatusRelays(wire'[d][i], tok, Out)
  <2>1. CASE wire'[d] = wire[d]
    BY <2>1 DEF EntityRelays
  <2>2. CASE wire'[d] # wire[d]
    <3>1. d = b /\ wire'[d] = Append(wire[b], s) /\ wire[b] \in Seq(Statuses)
      BY <1>1, <1>4, <2>2
    <3>2. wire'[d][i] = s \/ (i \in DOMAIN wire[b] /\ wire'[d][i] = wire[b][i])
      BY <3>1, SMT
    <3> QED BY <1>2, <3>2 DEF EntityRelays
  <2> QED BY <2>1, <2>2
<1> QED BY <1>2, <1>3, <1>5, <1>6 DEF EntityRelays

\* Taking a command, and perhaps arming its token, keeps what is armed once.
LEMMA TakingArms ==
    ASSUME NodeTypes, Arms, NEW b \in Bridges, inbox[b] # <<>>,
           inbox' = [inbox EXCEPT ![b] = Tail(@)], UNCHANGED home,
           \/ UNCHANGED armed
           \/ armed' = [armed EXCEPT ![b] = None]
           \/ /\ Head(inbox[b]).op = "arm"
              /\ armed' = [armed EXCEPT ![b] = Head(inbox[b]).task]
    PROVE  Arms' /\ \A k \in Tasks : Spent(k) => Spent(k)'
<1> DEFINE c == Head(inbox[b])
<1>1. /\ c \in Commands
      /\ 1 \in DOMAIN inbox[b] /\ c = inbox[b][1]
      /\ \A d \in Bridges \ {b} : inbox'[d] = inbox[d]
      /\ \A i \in DOMAIN inbox'[b] :
            /\ i \in Nat /\ i + 1 \in DOMAIN inbox[b] /\ i + 1 # 1
            /\ inbox'[b][i] = inbox[b][i + 1]
  BY Taken
<1> HIDE DEF c
<1>2. armed \in [Bridges -> Tokens] /\ c.task \in Tasks
  BY <1>1 DEF Arms, Commands
<1>3. armed' \in [Bridges -> Tokens]
  BY <1>2 DEF Tokens, c
<1>4. ASSUME NEW k \in Tasks PROVE Arming(k)' /\ (Spent(k) => Spent(k)')
  <2>1. Arming(k) /\ (ArmUnsent(k)' <=> ArmUnsent(k))
    BY DEF Arms, ArmUnsent, home
  <2>2. CASE b # Secondary
    <3>1. inbox'[Secondary] = inbox[Secondary] /\ armed'[Secondary] = armed[Secondary]
      BY <1>1, <1>2, <2>2, Ends
    <3>2. /\ \A i : ArmAt(i, k)' <=> ArmAt(i, k)
          /\ ArmQueued(k)' <=> ArmQueued(k)
      BY <3>1 DEF ArmQueued, ArmAt
    <3> QED BY <2>1, <3>1, <3>2 DEF Arming, Spent
  <2>3. CASE b = Secondary
    <3>1. \A i \in DOMAIN inbox'[b] : ArmAt(i, k)' => ArmAt(i + 1, k)
      BY <1>1, <2>3 DEF ArmAt
    <3>2. ArmQueued(k)' => ArmQueued(k)
      BY <1>1, <2>3, <3>1 DEF ArmQueued
    <3>3. ASSUME NEW i \in DOMAIN inbox'[b], NEW j \in DOMAIN inbox'[b],
                 ArmAt(i, k)', ArmAt(j, k)'
          PROVE  i = j
      <4>1. i + 1 = j + 1 /\ i \in Nat /\ j \in Nat
        BY <1>1, <2>1, <2>3, <3>1, <3>3 DEF Arming
      <4> QED BY <4>1
    <3>4. CASE armed'[b] # k
      BY <2>1, <2>3, <3>2, <3>3, <3>4 DEF Arming, Spent
    <3>5. CASE armed'[b] = k /\ armed[b] = k
      BY <2>1, <2>3, <3>2, <3>3, <3>5 DEF Arming, Spent
    <3>6. CASE armed'[b] = k /\ armed[b] # k
      <4>1. c.op = "arm" /\ c.task = k
        BY <1>2, <3>6, ControlAssumption DEF c
      <4>2. ArmAt(1, k) /\ ArmQueued(k)
        BY <1>1, <2>3, <4>1 DEF ArmAt, ArmQueued
      <4>3. ~ArmQueued(k)'
        BY <1>1, <2>1, <2>3, <3>1, <4>2 DEF Arming, ArmQueued
      <4> QED BY <2>1, <2>3, <3>3, <4>2, <4>3 DEF Arming, Spent
    <3> QED BY <3>4, <3>5, <3>6
  <2> QED BY <2>2, <2>3
<1> QED BY <1>3, <1>4 DEF Arms


\* What one transmission more does to what was transmitted.
LEMMA SentMore ==
    ASSUME sent \in [Tasks -> [Bridges -> Nat]], NEW f \in Tasks, NEW b \in Bridges,
           sent' = [sent EXCEPT ![f][b] = @ + 1]
    PROVE  /\ Out \subseteq Out' /\ (b = Primary => f \in Out')
           /\ sent'[f][Secondary] =
                 IF b = Secondary THEN sent[f][Secondary] + 1 ELSE sent[f][Secondary]
           /\ \A g \in Tasks \ {f} : sent'[g][Secondary] = sent[g][Secondary]
<1>1. /\ sent'[f] = [sent[f] EXCEPT ![b] = @ + 1]
      /\ \A g \in Tasks \ {f} : sent'[g] = sent[g]
  OBVIOUS
<1>2. \A g \in Tasks : sent[g][Primary] \in Nat /\ sent[g][Secondary] \in Nat
  BY Ends
<1>3. /\ sent'[f][b] = sent[f][b] + 1
      /\ \A d \in Bridges \ {b} : sent'[f][d] = sent[f][d]
  BY <1>1
<1> QED BY <1>1, <1>2, <1>3, Ends DEF Out

\* A command that is taken leaves the queues with older commands.
LEMMA TakingRelays ==
    ASSUME NodeTypes, NEW tok, Placed, NodeRelays(tok), NEW b \in Bridges,
           inbox[b] # <<>>, inbox' = [inbox EXCEPT ![b] = Tail(@)], UNCHANGED home,
           Out \subseteq Out', NEW c, c = Head(inbox[b]),
           \/ UNCHANGED radio
           \/ radio' = [radio EXCEPT ![b] = c] /\ OnAir(c, Out')
    PROVE  Placed' /\ NodeRelays(tok)'
<1>1. /\ 1 \in DOMAIN inbox[b] /\ c = inbox[b][1]
      /\ \A d \in Bridges \ {b} : inbox'[d] = inbox[d]
      /\ \A i \in DOMAIN inbox'[b] :
            i + 1 \in DOMAIN inbox[b] /\ inbox'[b][i] = inbox[b][i + 1]
  BY Taken
<1>2. \A d \in Bridges : \A i \in DOMAIN inbox'[d] :
         \E j \in DOMAIN inbox[d] : inbox'[d][i] = inbox[d][j]
  BY <1>1
<1>3. \A x : /\ CommandRelays(x, tok, Out) => CommandRelays(x, tok, Out')
             /\ \A d \in Bridges : CommandPlaced(d, x)' <=> CommandPlaced(d, x)
  BY DEF CommandRelays, Bound, CommandPlaced, Owner, home
<1>4. CommandRelays(c, tok, Out)
  BY <1>1 DEF NodeRelays
<1>5. \A d \in Bridges :
         \/ radio'[d] = radio[d]
         \/ radio'[d] = c /\ OnAir(c, Out')
  BY DEF NodeTypes
<1>6. \A t \in Tasks : CallPlaced(t)'
  BY DEF Placed, CallPlaced, Owner, home
<1>7. NodeRelays(tok)'
  BY <1>2, <1>3, <1>4, <1>5 DEF NodeRelays
<1>8. Placed'
  <2>1. ASSUME NEW d \in Bridges, NEW i \in DOMAIN inbox'[d]
        PROVE  CommandPlaced(d, inbox[d][i])'
    <3>1. PICK j \in DOMAIN inbox[d] : inbox'[d][i] = inbox[d][j]
      BY <1>2
    <3>2. CommandPlaced(d, inbox[d][j])
      BY DEF Placed
    <3> QED BY <3>1, <3>2 DEF CommandPlaced, Owner, home
  <2>2. ASSUME NEW d \in Bridges, radio'[d] # None PROVE OnAir(radio'[d], Out')
    BY <1>5, <2>2 DEF Placed, OnAir
  <2> QED BY <1>6, <2>1, <2>2 DEF Placed
<1> QED BY <1>7, <1>8

\* A transmission keeps what is repeated: the owner transmits for itself, and a
\* repetition uses the token of its frame up.
LEMMA TransmitRelays ==
    ASSUME OnceInv, NEW tok \in [Tasks -> Tasks], Relay(tok), NEW b \in Bridges,
           inbox[b] # <<>>, NEW c, c = Head(inbox[b]), Transmit(b, c)
    PROVE  Relay(tok)'
<1>1. /\ inbox' = [inbox EXCEPT ![b] = Tail(@)]
      /\ radio' = [radio EXCEPT ![b] = c]
      /\ UNCHANGED <<home, status>>
  BY DEF Transmit, Takes, link
<1>2. /\ NodeTypes /\ NodeFits /\ Placed /\ Arms /\ NodeRelays(tok) /\ EntityRelays(tok)
      /\ \A u \in Tasks : CallRelays(u, tok, Out) /\ Repeats(u, tok)
  BY DEF OnceInv, Relay, Carried
<1>3. /\ c \in Commands /\ 1 \in DOMAIN inbox[b] /\ c = inbox[b][1]
  BY <1>1, <1>2, Taken
<1>4. /\ CommandFits(b, c, Offered) /\ CommandRelays(c, tok, Out) /\ CommandPlaced(b, c)
      /\ c.task \in Tasks
  BY <1>2, <1>3 DEF NodeFits, NodeRelays, Placed, Commands
<1>5. sent \in [Tasks -> [Bridges -> Nat]] /\ armed \in [Bridges -> Tokens]
  BY <1>2 DEF NodeTypes, Arms
<1>6. Arms' /\ \A k \in Tasks : Spent(k) => Spent(k)'
  <2>1. UNCHANGED armed \/ armed' = [armed EXCEPT ![b] = None]
    BY DEF Transmit
  <2> QED BY <1>1, <1>2, <2>1, TakingArms
<1>7. PICK f \in Tasks :
         /\ sent' = [sent EXCEPT ![f][b] = @ + 1]
         /\ \/ /\ c.op \in {"control", "redundant_control"} /\ f = c.task
               /\ b = Owner(f)
            \/ /\ c.op = "send" /\ b = Secondary /\ f \in Out /\ f = c.payload[2]
               /\ armed[b] = tok[f] /\ armed' = [armed EXCEPT ![b] = None]
  <2>1. CASE c.op = "send"
    <3>1. b = Secondary /\ Bound(c.payload, tok, Out)
      BY <1>4, <2>1 DEF CommandFits, CommandRelays
    <3> QED BY <2>1, <3>1 DEF Transmit, Bound, Out
  <2>2. CASE c.op # "send"
    <3>1. c.op \in {"control", "redundant_control"} /\ b = Owner(c.task)
      BY <1>4, <2>2 DEF Transmit, CommandPlaced
    <3> QED BY <1>4, <2>2, <3>1 DEF Transmit
  <2> QED BY <2>1, <2>2
<1>8. /\ Out \subseteq Out' /\ (b = Primary => f \in Out')
      /\ sent'[f][Secondary] =
            IF b = Secondary THEN sent[f][Secondary] + 1 ELSE sent[f][Secondary]
      /\ \A g \in Tasks \ {f} : sent'[g][Secondary] = sent[g][Secondary]
  BY <1>5, <1>7, SentMore
<1>9. OnAir(c, Out')
  <2>1. ASSUME c.op = "redundant_control" PROVE b = Primary /\ f = c.task
    BY <1>4, <1>7, <2>1 DEF CommandFits, Offered, Owner
  <2> QED BY <1>7, <1>8, <2>1 DEF OnAir
<1>10. Placed' /\ NodeRelays(tok)'
  BY <1>1, <1>2, <1>8, <1>9, TakingRelays
<1>11. EntityRelays(tok)'
  <2>1. CASE Publish(b, c.op, None, c.task)
    <3>1. c.op # "arm"
      BY <1>7
    <3> QED BY <1>1, <1>2, <1>8, <2>1, <3>1, PublishRelays
  <2>2. CASE Silent
    BY <1>1, <1>2, <1>8, <2>2 DEF Silent, EntityRelays, StatusRelays, Bound
  <2> QED BY <2>1, <2>2 DEF Transmit
<1>12. \A u \in Tasks : CallRelays(u, tok, Out)'
  BY <1>1, <1>2, <1>8 DEF CallRelays, StatusRelays, Bound, home
<1>13. ASSUME NEW g \in Tasks PROVE Repeats(g, tok)'
  <2>1. Repeats(g, tok) /\ request'[g] = request[g]
    BY <1>1, <1>2 DEF home
  <2>2. CASE sent'[g][Secondary] = sent[g][Secondary]
    BY <1>6, <1>8, <2>1, <2>2 DEF Repeats
  <2>3. CASE sent'[g][Secondary] # sent[g][Secondary] /\ c.op = "send"
    <3>1. g = f /\ b = Secondary /\ armed[b] = tok[f] /\ f \in Out
      BY <1>7, <1>8, <2>3
    <3>2. armed'[b] = None
      BY <1>5, <1>7, <2>3
    <3>3. Arming(tok[f]) /\ tok[f] \in Tasks /\ ~Spent(tok[f])
      BY <1>2, <3>1 DEF Arms, Spent
    <3>4. ~ArmUnsent(tok[f]) /\ ~ArmQueued(tok[f])
      BY <3>1, <3>3 DEF Arming
    <3>5. ~ArmUnsent(tok[f])' /\ ~ArmQueued(tok[f])'
      <4>1. ~ArmUnsent(tok[f])'
        BY <1>1, <3>4 DEF ArmUnsent, home
      <4>2. \A i \in DOMAIN inbox'[b] :
               i + 1 \in DOMAIN inbox[b] /\ inbox'[b][i] = inbox[b][i + 1]
        BY <1>1, <1>2, Taken
      <4>3. ~ArmQueued(tok[f])'
        BY <3>1, <3>4, <4>2 DEF ArmQueued, ArmAt
      <4> QED BY <4>1, <4>3
    <3>6. Spent(tok[f])'
      BY <3>1, <3>2, <3>3, <3>5, ControlAssumption DEF Spent
    <3>7. request[g] # "other" => sent[g][Secondary] = 0
      <4>1. sent[g][Secondary] \in Nat
        BY <1>5, Ends
      <4> QED BY <2>1, <3>1, <3>3, <4>1 DEF Repeats
    <3> QED BY <1>8, <2>1, <3>1, <3>6, <3>7 DEF Repeats
  <2>4. CASE sent'[g][Secondary] # sent[g][Secondary] /\ c.op # "send"
    <3>1. g = f /\ b = Secondary /\ b = Owner(f)
      BY <1>7, <1>8, <2>4
    <3> QED BY <2>1, <3>1, ControlAssumption DEF Repeats, Owner
  <2> QED BY <2>2, <2>3, <2>4
<1> QED BY <1>6, <1>10, <1>11, <1>12, <1>13 DEF Relay, Carried


\* So do the other steps of the firmware, which transmit nothing: the envelope of
\* an offer is made when the frame is out.
LEMMA FirmwareRelays ==
    ASSUME OnceInv, NEW tok \in [Tasks -> Tasks], Relay(tok), NEW b \in Bridges,
           Firmware(b)
    PROVE  Relay(tok)'
<1>1. /\ NodeTypes /\ NodeFits /\ Placed /\ Arms /\ NodeRelays(tok) /\ EntityRelays(tok)
      /\ \A u \in Tasks : CallRelays(u, tok, Out) /\ Repeats(u, tok)
  BY DEF OnceInv, Relay, Carried
<1>2. ASSUME UNCHANGED <<home, sent>>
      PROVE  /\ Out' = Out
             /\ \A u \in Tasks : CallRelays(u, tok, Out)'
             /\ \A u \in Tasks : (\A k \in Tasks : Spent(k) => Spent(k)')
                                    => Repeats(u, tok)'
  <2>1. Out' = Out
    BY <1>2 DEF Out
  <2> QED BY <1>1, <1>2, <2>1 DEF CallRelays, Repeats, home
<1>3. CASE Transmitted(b)
  <2>1. /\ UNCHANGED <<home, sent, inbox, armed, status>> /\ radio[b] # None
        /\ radio' = [radio EXCEPT ![b] = None]
    BY <1>3 DEF Transmitted, link
  <2>2. PICK c : c = radio[b]
    OBVIOUS
  <2>3. /\ c.op = "redundant_control" => Bound(<<c.payload, c.task>>, tok, Out)
        /\ c.op # "arm"
    BY <1>1, <2>1, <2>2 DEF NodeRelays, Placed, OnAir, CommandRelays, Bound
  <2>4. \/ Silent
        \/ Publish(b, c.op, None, c.task)
        \/ c.op = "redundant_control" /\ Publish(b, c.op, <<c.payload, c.task>>, c.task)
    BY <1>3, <2>2 DEF Transmitted
  <2>6. EntityRelays(tok)'
    <3>1. CASE Silent
      BY <1>1, <1>2, <2>1, <3>1 DEF Silent, EntityRelays
    <3>2. CASE Publish(b, c.op, None, c.task)
      BY <1>1, <1>2, <2>1, <2>3, <3>2, PublishRelays
    <3>3. CASE /\ c.op = "redundant_control"
               /\ Publish(b, c.op, <<c.payload, c.task>>, c.task)
      BY <1>1, <1>2, <2>1, <2>3, <3>3, PublishRelays
    <3> QED BY <2>4, <3>1, <3>2, <3>3
  <2>7. NodeRelays(tok)' /\ Placed'
    <3>1. \A d \in Bridges : radio'[d] = radio[d] \/ radio'[d] = None
      BY <1>1, <2>1 DEF NodeTypes
    <3>2. NodeRelays(tok)'
      BY <1>1, <1>2, <2>1, <3>1 DEF NodeRelays
    <3>3. Placed'
      BY <1>1, <1>2, <2>1, <3>1 DEF Placed, CallPlaced, CommandPlaced, Owner, home
    <3> QED BY <3>2, <3>3
  <2>8. Arms' /\ \A k \in Tasks : Spent(k) => Spent(k)'
    <3>1. \A k : /\ ArmUnsent(k)' <=> ArmUnsent(k)
                 /\ \A i : ArmAt(i, k)' <=> ArmAt(i, k)
      BY <2>1 DEF ArmUnsent, ArmAt, home
    <3> QED BY <1>1, <2>1, <3>1 DEF Arms, Arming, Spent, ArmQueued
  <2> QED BY <1>2, <2>1, <2>6, <2>7, <2>8 DEF Relay, Carried
<1>4. ASSUME inbox[b] # <<>>, NEW c, c = Head(inbox[b]),
             Arm(b, c) \/ Acknowledge(b, c) \/ Refuse(b, c) \/ Ignore(b, c)
      PROVE  Relay(tok)'
  <2>1. /\ inbox' = [inbox EXCEPT ![b] = Tail(@)]
        /\ UNCHANGED <<home, sent, radio, status>>
    BY <1>4 DEF Arm, Acknowledge, Refuse, Ignore, Takes, link
  <2>2. c \in Commands
    BY <1>1, <1>4, <2>1, Taken
  <2>3. Placed' /\ NodeRelays(tok)'
    BY <1>1, <1>2, <1>4, <2>1, TakingRelays
  <2>4. Arms' /\ \A k \in Tasks : Spent(k) => Spent(k)'
    <3>1. \/ UNCHANGED armed
          \/ armed' = [armed EXCEPT ![b] = None]
          \/ /\ Head(inbox[b]).op = "arm"
             /\ armed' = [armed EXCEPT ![b] = Head(inbox[b]).task]
      BY <1>4 DEF Arm, Acknowledge, Refuse, Ignore
    <3> QED BY <1>1, <1>4, <2>1, <3>1, TakingArms
  <2>5. EntityRelays(tok)'
    <3>1. CASE Publish(b, "arm", c.task, c.task)
      <4>1. c.task \in Tasks
        BY <2>2 DEF Commands
      <4> QED BY <1>1, <1>2, <2>1, <3>1, <4>1, PublishRelays
    <3>2. CASE c.op \in {"cancel", "remote_alias"} /\ Publish(b, c.op, None, c.task)
      BY <1>1, <1>2, <2>1, <3>2, PublishRelays
    <3>3. CASE Publish(b, "error", None, c.task)
      BY <1>1, <1>2, <2>1, <3>3, PublishRelays
    <3>4. CASE Silent
      BY <1>1, <1>2, <2>1, <3>4 DEF Silent, EntityRelays
    <3> QED BY <1>4, <3>1, <3>2, <3>3, <3>4 DEF Arm, Acknowledge, Refuse, Ignore
  <2> QED BY <1>2, <2>1, <2>3, <2>4, <2>5 DEF Relay, Carried
<1> QED BY <1>3, <1>4, TransmitRelays DEF Firmware

-----------------------------------------------------------------------------
(* The connection *)

\* A call is answered with a status that was on the wire.
LEMMA DeliverRelays ==
    ASSUME OnceInv, NEW tok \in [Tasks -> Tasks], Relay(tok), NEW b \in Bridges,
           Deliver(b)
    PROVE  Relay(tok)'
<1>1. /\ UNCHANGED <<request, stage, inbox, radio, armed, last, counter, sent>>
      /\ wire[b] # <<>>
      /\ wire' = [wire EXCEPT ![b] = Tail(@)]
      /\ status' = [status EXCEPT ![b] = Head(wire[b])]
  BY DEF Deliver
<1>2. /\ HomeTypes /\ NodeTypes /\ Placed /\ Arms /\ NodeRelays(tok) /\ EntityRelays(tok)
      /\ \A u \in Tasks : CallRelays(u, tok, Out) /\ Repeats(u, tok)
  BY DEF OnceInv, Relay, Carried
<1>3. wire[b] \in Seq(Statuses)
  BY <1>2 DEF NodeTypes
<1>4. /\ Head(wire[b]) = wire[b][1] /\ 1 \in DOMAIN wire[b]
      /\ \A i \in DOMAIN Tail(wire[b]) :
            i + 1 \in DOMAIN wire[b] /\ Tail(wire[b])[i] = wire[b][i + 1]
  BY <1>1, <1>3, SMT
<1>5. PICK s : s = Head(wire[b]) /\ StatusRelays(s, tok, Out)
  BY <1>2, <1>4 DEF EntityRelays
<1>6. call' = call \/ Notice(b, s)
  BY <1>5 DEF Deliver
<1>7. \A t \in Tasks : /\ call'[t].op = call[t].op /\ call'[t].at = call[t].at
                       /\ call'[t].payload = call[t].payload
                       /\ call'[t].got = call[t].got \/ call'[t].got = s
  BY <1>2, <1>6 DEF Notice, HomeTypes, Calls
<1>8. Out' = Out
  BY <1>1 DEF Out
<1>9. \A t \in Tasks : CallRelays(t, tok, Out)'
  BY <1>2, <1>5, <1>7, <1>8 DEF CallRelays
<1>10. EntityRelays(tok)'
  <2>1. ASSUME NEW d \in Bridges
        PROVE  /\ status'[d] # None => StatusRelays(status'[d], tok, Out)
               /\ \A i \in DOMAIN wire'[d] : StatusRelays(wire'[d][i], tok, Out)
    <3>1. CASE d = b
      <4>1. status'[d] = s /\ wire'[d] = Tail(wire[b])
        BY <1>1, <1>2, <1>5, <3>1 DEF HomeTypes, NodeTypes
      <4> QED BY <1>2, <1>4, <1>5, <4>1 DEF EntityRelays
    <3>2. CASE d # b
      BY <1>1, <1>2, <3>2 DEF EntityRelays, HomeTypes, NodeTypes
    <3> QED BY <3>1, <3>2
  <2> QED BY <1>1, <1>2, <1>8, <2>1 DEF EntityRelays
<1>11. NodeRelays(tok)' /\ Placed'
  BY <1>1, <1>2, <1>7, <1>8 DEF NodeRelays, Placed, CallPlaced, CommandPlaced, Owner
<1>12. \A k \in Tasks : /\ ArmUnsent(k)' <=> ArmUnsent(k)
                        /\ \A i : ArmAt(i, k)' <=> ArmAt(i, k)
                        /\ ArmQueued(k)' <=> ArmQueued(k)
  BY <1>1, <1>7 DEF ArmUnsent, ArmAt, ArmQueued
<1>13. Arms' /\ \A f \in Tasks : Repeats(f, tok)'
  BY <1>1, <1>2, <1>8, <1>12 DEF Arms, Arming, Repeats, Spent
<1> QED BY <1>9, <1>10, <1>11, <1>13 DEF Relay, Carried

\* A lost connection, or a restart, only takes commands, statuses and tokens away.
LEMMA LinkRelays ==
    ASSUME OnceInv, NEW tok \in [Tasks -> Tasks], Relay(tok), NEW b \in Bridges,
           Disconnect(b) \/ Reconnect(b)
    PROVE  Relay(tok)'
<1>1. UNCHANGED <<home, sent>> /\ Out' = Out
  BY DEF Disconnect, Reconnect, Out
<1>2. /\ HomeTypes /\ NodeTypes /\ Placed /\ Arms /\ NodeRelays(tok) /\ EntityRelays(tok)
      /\ \A u \in Tasks : CallRelays(u, tok, Out) /\ Repeats(u, tok)
  BY DEF OnceInv, Relay, Carried
<1>3. PICK ready : /\ ready = [action |-> "ready", event |-> 0, payload |-> None,
                               answers |-> None]
                   /\ StatusRelays(ready, tok, Out)
  <2> DEFINE r == [action |-> "ready", event |-> 0, payload |-> None, answers |-> None]
  <2>1. StatusRelays(r, tok, Out)
    BY DEF StatusRelays
  <2> QED BY <2>1
<1>4. /\ last' = last \/ last' = [last EXCEPT ![b] = ready]
      /\ inbox' = inbox \/ inbox' = [inbox EXCEPT ![b] = <<>>]
      /\ radio' = radio \/ radio' = [radio EXCEPT ![b] = None]
      /\ armed' = armed \/ armed' = [armed EXCEPT ![b] = None]
      /\ wire' = [wire EXCEPT ![b] = <<>>] \/ wire' = [wire EXCEPT ![b] = <<last[b]>>]
      /\ status' = status \/ status' = [status EXCEPT ![b] = None]
  BY <1>3 DEF Disconnect, Reconnect
<1>5. \A d \in Bridges :
         /\ last'[d] = last[d] \/ last'[d] = ready
         /\ inbox'[d] = inbox[d] \/ inbox'[d] = <<>>
         /\ radio'[d] = radio[d] \/ radio'[d] = None
         /\ armed'[d] = armed[d] \/ armed'[d] = None
         /\ wire'[d] = wire[d] \/ wire'[d] = <<>> \/ wire'[d] = <<last[d]>>
         /\ status'[d] = status[d] \/ status'[d] = None
  BY <1>2, <1>4 DEF HomeTypes, NodeTypes, Arms
<1>6. \A t \in Tasks : CallRelays(t, tok, Out)'
  BY <1>1, <1>2 DEF CallRelays, home
<1>7. EntityRelays(tok)'
  <2>1. ASSUME NEW d \in Bridges, NEW i \in DOMAIN wire'[d]
        PROVE  StatusRelays(wire'[d][i], tok, Out)
    <3>1. CASE wire'[d] = <<last[d]>>
      <4>1. wire'[d][i] = last[d]
        BY <2>1, <3>1
      <4> QED BY <1>2, <4>1 DEF EntityRelays
    <3>2. CASE wire'[d] = wire[d] \/ wire'[d] = <<>>
      BY <1>2, <2>1, <3>2 DEF EntityRelays
    <3> QED BY <1>5, <3>1, <3>2
  <2>2. \A d \in Bridges : /\ status'[d] # None => StatusRelays(status'[d], tok, Out)
                           /\ StatusRelays(last'[d], tok, Out)
    BY <1>2, <1>3, <1>5 DEF EntityRelays
  <2> QED BY <1>1, <2>1, <2>2 DEF EntityRelays
<1>8. NodeRelays(tok)'
  BY <1>1, <1>2, <1>5 DEF NodeRelays
<1>9. Placed'
  <2>1. \A t \in Tasks : CallPlaced(t)'
    BY <1>1, <1>2 DEF Placed, CallPlaced, Owner, home
  <2>2. ASSUME NEW d \in Bridges, NEW i \in DOMAIN inbox'[d]
        PROVE  CommandPlaced(d, inbox[d][i])'
    <3>1. inbox'[d] = inbox[d] /\ CommandPlaced(d, inbox[d][i])
      BY <1>2, <1>5 DEF Placed
    <3> QED BY <1>1, <3>1 DEF CommandPlaced, Owner, home
  <2>3. \A d \in Bridges : radio'[d] # None => OnAir(radio'[d], Out')
    BY <1>1, <1>2, <1>5 DEF Placed
  <2> QED BY <2>1, <2>2, <2>3 DEF Placed
<1>10. armed' \in [Bridges -> Tokens]
  BY <1>2, <1>4 DEF Arms, Tokens
<1>11. ASSUME NEW k \in Tasks PROVE Arming(k)' /\ (Spent(k) => Spent(k)')
  <2>1. Arming(k) /\ (ArmUnsent(k)' <=> ArmUnsent(k))
    BY <1>1, <1>2 DEF Arms, ArmUnsent, home
  <2>2. armed'[Secondary] = k => armed[Secondary] = k
    BY <1>5, ControlAssumption, Ends
  <2>3. \A i \in DOMAIN inbox'[Secondary] :
           ArmAt(i, k)' => i \in DOMAIN inbox[Secondary] /\ ArmAt(i, k)
    BY <1>5, Ends DEF ArmAt
  <2>4. ArmQueued(k)' => ArmQueued(k)
    BY <2>3 DEF ArmQueued
  <2> QED BY <2>1, <2>2, <2>3, <2>4 DEF Arming, Spent
<1>12. Arms' /\ \A f \in Tasks : Repeats(f, tok)'
  BY <1>1, <1>2, <1>10, <1>11 DEF Arms, Repeats, home
<1> QED BY <1>6, <1>7, <1>8, <1>9, <1>12 DEF Relay, Carried


-----------------------------------------------------------------------------
(* The theorem *)

\* The invariant holds initially, with any token for every frame.
LEMMA RelayInit == Init => RelayInv
<1> SUFFICES ASSUME Init PROVE RelayInv
  OBVIOUS
<1>1. OnceInv
  BY OnceInit
<1>2. [t \in Tasks |-> t] \in [Tasks -> Tasks]
  OBVIOUS
<1>3. PICK tok \in [Tasks -> Tasks] : TRUE
  BY <1>2
<1>4. /\ request = [t \in Tasks |-> "open"] /\ stage = [t \in Tasks |-> "new"]
      /\ call = [t \in Tasks |-> NoCall]
      /\ last = [b \in Bridges |-> [action |-> "ready", event |-> 0, payload |-> None,
                                    answers |-> None]]
      /\ status = last
      /\ inbox = [b \in Bridges |-> <<>>] /\ wire = [b \in Bridges |-> <<>>]
      /\ radio = [b \in Bridges |-> None] /\ armed = [b \in Bridges |-> None]
      /\ sent = [t \in Tasks |-> [b \in Bridges |-> 0]]
  BY DEF Init
<1>5. Placed
  BY <1>4 DEF Placed, CallPlaced
<1>6. Arms
  <2>1. \A k \in Tasks : ~ArmQueued(k) /\ armed[Secondary] # k
    BY <1>4, Ends, ControlAssumption DEF ArmQueued
  <2> QED BY <1>4, <2>1, Ends DEF Arms, Arming, Tokens
<1>7. Carried(tok)
  <2>1. \A t \in Tasks : CallRelays(t, tok, Out)
    BY <1>4 DEF CallRelays, NoCall
  <2>2. EntityRelays(tok) /\ NodeRelays(tok)
    BY <1>4 DEF EntityRelays, NodeRelays, StatusRelays
  <2> QED BY <2>1, <2>2 DEF Carried
<1>8. \A f \in Tasks : Repeats(f, tok)
  BY <1>4, Ends DEF Repeats
<1> QED BY <1>1, <1>5, <1>6, <1>7, <1>8 DEF RelayInv, Relay

\* Every step keeps it.
LEMMA RelayStep == RelayInv /\ [Next]_vars => RelayInv'
<1> SUFFICES ASSUME RelayInv, [Next]_vars PROVE RelayInv'
  OBVIOUS
<1>1. OnceInv /\ OnceInv'
  BY OnceStep DEF RelayInv
<1>2. PICK tok \in [Tasks -> Tasks] : Relay(tok)
  BY DEF RelayInv
<1>3. \E new \in [Tasks -> Tasks] : Relay(new)'
  <2>1. CASE UNCHANGED vars
    <3>1. UNCHANGED <<node, home, status>> /\ Out' = Out
      BY <2>1 DEF vars, link, node, Out
    <3>2. Carried(tok)'
      BY <1>2, <3>1 DEF Relay, Carried, CallRelays, EntityRelays, NodeRelays, node, home
    <3>3. Placed' /\ Arms'
      BY <1>2, <3>1
         DEF Relay, Placed, CallPlaced, CommandPlaced, Owner, Arms, Arming, ArmUnsent,
             ArmQueued, ArmAt, node, home
    <3>4. \A f \in Tasks : Repeats(f, tok)'
      BY <1>2, <3>1
         DEF Relay, Repeats, Spent, ArmUnsent, ArmQueued, ArmAt, node, home
    <3> QED BY <3>2, <3>3, <3>4 DEF Relay
  <2>2. ASSUME NEW t \in Tasks, TaskStep(t) \/ \E r \in Requests : Submit(t, r)
        PROVE  \E new \in [Tasks -> Tasks] : Relay(new)'
    BY <1>1, <1>2, <2>2, SubmitRelays, AcquireRfRelays, SendRelays, SentRelays,
       EndOfCallRelays
       DEF TaskStep
  <2>3. ASSUME NEW b \in Bridges,
               Firmware(b) \/ Deliver(b) \/ Disconnect(b) \/ Reconnect(b)
        PROVE  Relay(tok)'
    BY <1>1, <1>2, <2>3, FirmwareRelays, DeliverRelays, LinkRelays
  <2> QED BY <2>1, <2>2, <2>3 DEF Next
<1> QED BY <1>1, <1>3 DEF RelayInv

\* The secondary bridge repeats a command at most once, and only one the primary has
\* transmitted, in every reachable state and for any number of tasks and lost
\* connections: a stale or duplicated answer, a cancelled token or a restart never
\* makes it send a frame twice, or one that was not sent.
THEOREM ExactRelay == Spec => []RelayExact
<1>1. RelayInv => RelayExact
  <2>1. ASSUME RelayInv, NEW t \in Tasks, request[t] # "other"
        PROVE  sent[t][Secondary] <= sent[t][Primary]
    <3>1. /\ sent[t][Secondary] <= 1
          /\ sent[t][Secondary] = 1 => sent[t][Primary] >= 1
      BY <2>1 DEF RelayInv, Relay, Repeats, Out
    <3>2. sent[t][Secondary] \in Nat /\ sent[t][Primary] \in Nat
      BY <2>1, Ends DEF RelayInv, OnceInv, NodeTypes
    <3> QED BY <3>1, <3>2
  <2> QED BY <2>1 DEF RelayExact
<1> QED BY <1>1, RelayInit, RelayStep, PTL DEF Spec

=============================================================================
