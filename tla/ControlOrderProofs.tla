-------------------------- MODULE ControlOrderProofs --------------------------
(***************************************************************************)
(* What Control promises while no command outlives its call and no         *)
(* connection is lost, for any number of tasks: two bridges never transmit *)
(* at once, a call takes no other command's answer, and what was reported  *)
(* as sent has been transmitted.  On a bridge that is in order, at most    *)
(* one command is anywhere between its queue and the status entity, and it *)
(* belongs to the call that holds the service lock; only an acknowledged   *)
(* MY gesture may still be on the air, and then its task holds the radio   *)
(* lock for the guard time.  The module also proves Control's types.       *)
(***************************************************************************)
EXTENDS ControlProofs

\* The primary acknowledges the start of the gesture of u, which goes on for a while.
Gesture(u) == request[u] = "my" /\ ~completeAck

Active(t) == stage[t] \in {"wait_service", "sending", "reply"}

\* A task commands a shutter only under the radio lock.
RadioLocked(t) ==
    (stage[t] = "guard" \/ (Active(t) /\ call[t].op # "remote_alias")) => rfLock = t

\* What a task calls belongs to its request, and an answer to a call under way.
CallSuits(t) ==
    /\ call[t].at # None <=> Active(t)
    /\ stage[t] \in {"sending", "reply"} => serviceLock[call[t].at] = t
    /\ call[t].got # None => stage[t] \in {"sending", "reply"}
    /\ call[t].op \in {"arm", "redundant_control", "send", "cancel"} =>
          request[t] = "open"
    /\ Active(t) => (request[t] = "alias" <=> call[t].op = "remote_alias")
    /\ stage[t] = "wait_rf" => request[t] # "alias"
    /\ stage[t] = "guard" => Gesture(t)

TasksInOrder == \A t \in Tasks : RadioLocked(t) /\ CallSuits(t)

\* The call that holds the service lock of b has seen no status since it was sent.
Waiting(b) ==
    /\ call[serviceLock[b]].got = None
    /\ status[b] = call[serviceLock[b]].before

\* What it has seen.
Answer(b) ==
    IF call[serviceLock[b]].got = None THEN status[b] ELSE call[serviceLock[b]].got

\* The command that is queued belongs to the call under way, which waits for it.
QueueInOrder(b) ==
    inbox[b] # <<>> =>
        /\ Len(inbox[b]) = 1 /\ wire[b] = <<>>
        /\ inbox[b][1].task = serviceLock[b]
        /\ inbox[b][1].op = call[serviceLock[b]].op
        /\ Waiting(b)

\* So does the status that is on the wire.
WireInOrder(b) ==
    wire[b] # <<>> =>
        /\ Len(wire[b]) = 1 /\ serviceLock[b] # None
        /\ wire[b][1].answers = serviceLock[b]
        /\ Waiting(b)

\* A gesture that was acknowledged goes on in the guard time.
Guarded(b) ==
    /\ b = Primary
    /\ stage[radio[b].task] = "guard" /\ Gesture(radio[b].task)

\* Any other frame is transmitted for the call under way.
Called(b) ==
    /\ radio[b].task = serviceLock[b]
    /\ radio[b].op = call[serviceLock[b]].op
    /\ radio[b].op \in {"control", "redundant_control", "send"}
    /\ inbox[b] = <<>>
    /\ IF Gesture(serviceLock[b])
       THEN /\ b = Primary /\ radio[b].op = "control"
            /\ wire[b] # <<>> => wire[b][1].action = "control"
            /\ ~Waiting(b) => Answer(b).action = "control"
       ELSE wire[b] = <<>> /\ Waiting(b)

InOrder(b) ==
    /\ connected[b]
    /\ QueueInOrder(b) /\ WireInOrder(b)
    /\ radio[b] # None => Guarded(b) \/ Called(b)
    /\ serviceLock[b] # None => Waiting(b) \/ Answer(b).answers = serviceLock[b]

BridgesInOrder == \A b \in Bridges \ stray : InOrder(b)

\* The tasks whose command the owner has transmitted.
Loud == {u \in Tasks : sent[u][Owner(u)] >= 1}

\* The answer to a command for the owner comes from a transmission.
StatusTrue(s, L) == s.action \in {"control", "redundant_control"} => s.answers \in L

EntityTrue ==
    \A b \in Bridges :
        /\ status[b] # None => StatusTrue(status[b], Loud)
        /\ StatusTrue(last[b], Loud)
        /\ \A i \in DOMAIN wire[b] : StatusTrue(wire[b][i], Loud)

AirTrue ==
    \A b \in Bridges :
        radio[b] # None /\ radio[b].op \in {"control", "redundant_control"} =>
            radio[b].task \in Loud

Truth ==
    /\ EntityTrue /\ AirTrue
    /\ \A t \in Tasks : call[t].got # None => StatusTrue(call[t].got, Loud)

\* t is told that its command was sent, or will be.
Decided(t) ==
    \/ stage[t] = "guard"
    \/ /\ result[t] = "sent"
       /\ stage[t] = "done" \/ (Active(t) /\ call[t].op \in {"send", "cancel"})

\* That is true while nothing went astray.
Told ==
    \A t \in Tasks :
        stray = {} /\ request[t] # "alias" /\ Decided(t) => t \in Loud

\* The types of what the other invariants do not mention.
OtherTypes ==
    /\ relayed \in BOOLEAN /\ completeAck \in BOOLEAN
    /\ result \in [Tasks -> {None, "sent", "failed"}]
    /\ connected \in [Bridges -> BOOLEAN]
    /\ drops \in 0 .. MaxDrops
    /\ stray \subseteq Bridges

OrderInv ==
    RelayInv /\ TasksInOrder /\ BridgesInOrder /\ Truth /\ Told /\ OtherTypes

-----------------------------------------------------------------------------
(* The tasks *)

\* None is neither a task nor a bridge.
LEMMA NobodyAtNone == None \notin Tasks /\ None \notin Bridges /\ Primary # Secondary
BY ControlAssumption DEF Bridges

\* A step of t leaves the other tasks in order.
LEMMA OthersInOrder ==
    ASSUME LockInv, HomeTypes, TasksInOrder, NEW t \in Tasks,
           \A u \in Tasks \ {t} : /\ stage'[u] = stage[u] /\ call'[u] = call[u]
                                  /\ request'[u] = request[u],
           UNCHANGED completeAck,
           rfLock' = rfLock \/ rfLock \in {None, t},
           \A b \in Bridges : serviceLock'[b] = serviceLock[b]
                              \/ serviceLock[b] \in {None, t}
    PROVE  \A u \in Tasks \ {t} : RadioLocked(u)' /\ CallSuits(u)'
<1> SUFFICES ASSUME NEW u \in Tasks \ {t} PROVE RadioLocked(u)' /\ CallSuits(u)'
  OBVIOUS
<1>1. /\ RadioLocked(u) /\ CallSuits(u) /\ u # None
      /\ stage'[u] = stage[u] /\ call'[u] = call[u] /\ request'[u] = request[u]
  BY NobodyAtNone DEF TasksInOrder
<1>2. RadioLocked(u)'
  BY <1>1 DEF RadioLocked, Active
<1>3. stage[u] \in {"sending", "reply"} =>
         call[u].at \in Bridges /\ serviceLock'[call[u].at] = u
  BY <1>1 DEF LockInv, Calling, CallSuits
<1>4. CallSuits(u)'
  BY <1>1, <1>3 DEF CallSuits, Active, Gesture
<1> QED BY <1>2, <1>4

\* How t goes on after its call, or after the guard time.
GoesOn(t) ==
    \/ stage'[t] = "done" /\ call'[t] = NoCall
    \/ /\ stage'[t] = "guard" /\ call'[t] = NoCall /\ rfLock' = rfLock
       /\ stage[t] = "reply" /\ call[t].op = "control" /\ Gesture(t)
    \/ /\ stage'[t] = "wait_service" /\ rfLock' = rfLock /\ Active(t)
       /\ call[t].op \in {"arm", "redundant_control"}
       /\ call'[t].op \in {"control", "redundant_control", "send", "cancel"}
       /\ call'[t].at \in Bridges /\ call'[t].got = None

OthersStay(t) ==
    /\ \A u \in Tasks \ {t} : stage'[u] = stage[u] /\ call'[u] = call[u]
    /\ rfLock' = rfLock \/ rfLock \in {None, t}

\* A failed call is followed by what GoesOn allows.
LEMMA FailedGoesOn ==
    ASSUME HomeTypes, NEW t \in Tasks, Active(t), Failed(t)
    PROVE  GoesOn(t) /\ OthersStay(t)
<1>1. CASE call[t].op = "arm" /\ Invoke(t, Primary, "control", None)
  BY <1>1, Ends DEF HomeTypes, Invoke, NoCall, GoesOn, OthersStay
<1>2. CASE call[t].op = "redundant_control" /\ OfferFailed(t, call[t].payload)
  BY <1>2, Ends DEF HomeTypes, OfferFailed, Invoke, NoCall, GoesOn, OthersStay
<1>3. CASE \E r : Finish(t, r)
  BY <1>3 DEF HomeTypes, Finish, GoesOn, OthersStay
<1> QED BY <1>1, <1>2, <1>3 DEF Failed

\* So is a call that was answered.  Only the acknowledgement of a gesture is
\* followed by the guard time, and never by anything else.
LEMMA AnsweredGoesOn ==
    ASSUME HomeTypes, NEW t \in Tasks, stage[t] = "reply", NEW s, Answered(t, s)
    PROVE  /\ GoesOn(t) /\ OthersStay(t)
           /\ call[t].op = "control" /\ Gesture(t) => stage'[t] = "guard"
<1>0. Active(t)
  BY DEF Active
<1>1. CASE call[t].op = "arm" /\ Invoke(t, Primary, "redundant_control", s.payload)
  BY <1>0, <1>1, Ends DEF HomeTypes, Invoke, NoCall, GoesOn, OthersStay
<1>2. CASE call[t].op = "redundant_control" /\ Invoke(t, Secondary, "send", s.payload)
  BY <1>0, <1>2, Ends DEF HomeTypes, Invoke, NoCall, GoesOn, OthersStay
<1>3. CASE /\ call[t].op = "redundant_control"
           /\ Invoke(t, Secondary, "cancel", call[t].payload)
  BY <1>0, <1>3, Ends DEF HomeTypes, Invoke, NoCall, GoesOn, OthersStay
<1>4. CASE call[t].op = "control" /\ PrimaryAnswered(t)
  BY <1>4 DEF HomeTypes, PrimaryAnswered, Finish, Gesture, GoesOn, OthersStay
<1>5. CASE call[t].op # "control" /\ \E r : Finish(t, r)
  BY <1>5 DEF HomeTypes, Finish, GoesOn, OthersStay
<1> QED BY <1>1, <1>2, <1>3, <1>4, <1>5 DEF Answered

\* Every step keeps the tasks in order.
LEMMA TasksStep ==
    ASSUME LockInv, HomeTypes, CallsFit, TasksInOrder, Next
    PROVE  TasksInOrder'
<1>0. UNCHANGED config
  BY DEF Next, TaskStep, Submit, AcquireRf, Send, Sent, Return, Timeout, Unavailable,
         GuardEnds, Firmware, Transmit, Transmitted, Arm, Acknowledge, Refuse, Ignore,
         Takes, Deliver, Disconnect, Reconnect
<1>1. /\ LockTypes /\ Calling /\ ServiceHeld
      /\ \A u \in Tasks : RadioLocked(u) /\ CallSuits(u)
  BY DEF LockInv, TasksInOrder
<1>2. ASSUME NEW t \in Tasks, TaskStep(t) \/ \E r \in Requests : Submit(t, r)
      PROVE  TasksInOrder'
  <2>1. /\ \A u \in Tasks \ {t} : request'[u] = request[u]
        /\ \A b \in Bridges : \/ serviceLock'[b] = serviceLock[b]
                              \/ serviceLock[b] \in {None, t}
    <3>1. ASSUME Release(t), stage[t] = "reply"
          PROVE  \A b \in Bridges : serviceLock'[b] = serviceLock[b]
                                    \/ serviceLock[b] \in {None, t}
      BY <1>1, <3>1 DEF Release, LockTypes, CallSuits
    <3> QED BY <1>1, <1>2, <3>1
            DEF TaskStep, Submit, AcquireRf, Send, Sent, Return, Timeout, Unavailable,
                GuardEnds, LockTypes, HomeTypes
  <2>2. CASE \E r \in Requests : Submit(t, r)
    <3>1. PICK r \in Requests : Submit(t, r)
      BY <2>2
    <3>2. /\ stage[t] = "new" /\ rfLock' = rfLock /\ request'[t] = r
          /\ \A u \in Tasks \ {t} : stage'[u] = stage[u] /\ call'[u] = call[u]
      BY <1>1, <3>1 DEF Submit, Invoke, HomeTypes
    <3>3. RadioLocked(t)' /\ CallSuits(t)'
      <4>1. CASE r = "alias"
        <5>1. /\ stage'[t] = "wait_service" /\ call'[t].op = "remote_alias"
              /\ call'[t].at \in Bridges /\ call'[t].got = None
          BY <3>1, <4>1, ZenonT(30) DEF Submit, Invoke, HomeTypes, NoCall
        <5> QED BY <3>2, <4>1, <5>1, NobodyAtNone DEF RadioLocked, CallSuits, Active
      <4>2. CASE r # "alias"
        <5>1. stage'[t] = "wait_rf" /\ call' = call /\ call[t].op = "control"
          BY <3>1, <3>2, <4>2 DEF Submit, HomeTypes, CallsFit, CallFits
        <5> QED BY <1>1, <3>2, <4>2, <5>1 DEF RadioLocked, CallSuits, Active
      <4> QED BY <4>1, <4>2
    <3> QED BY <1>0, <2>1, <3>2, <3>3, OthersInOrder DEF TasksInOrder, config
  <2>3. CASE AcquireRf(t)
    <3>1. /\ stage[t] = "wait_rf" /\ rfLock = None /\ rfLock' = t
          /\ stage'[t] = "wait_service" /\ call'[t].got = None
          /\ call'[t].at \in Bridges /\ call'[t].op \in {"arm", "control"}
          /\ call'[t].op = "arm" => request[t] = "open"
          /\ request' = request
          /\ \A u \in Tasks \ {t} : stage'[u] = stage[u] /\ call'[u] = call[u]
      BY <2>3, Ends DEF AcquireRf, HomeTypes, NoCall, Owner
    <3>2. RadioLocked(t)' /\ CallSuits(t)'
      BY <1>1, <3>1, NobodyAtNone DEF RadioLocked, CallSuits, Active
    <3> QED BY <1>0, <2>1, <3>1, <3>2, OthersInOrder DEF TasksInOrder, config
  <2>4. CASE Send(t)
    <3>1. /\ stage[t] = "wait_service" /\ stage'[t] = "sending" /\ rfLock' = rfLock
          /\ call'[t].op = call[t].op /\ call'[t].at = call[t].at
          /\ call'[t].got = call[t].got /\ request' = request
          /\ call[t].at \in Bridges /\ serviceLock'[call[t].at] = t
          /\ \A u \in Tasks \ {t} : stage'[u] = stage[u] /\ call'[u] = call[u]
      BY <1>1, <2>4 DEF Send, HomeTypes, Calls, Calling, LockTypes
    <3>2. RadioLocked(t)' /\ CallSuits(t)'
      BY <1>1, <3>1, NobodyAtNone DEF RadioLocked, CallSuits, Active
    <3> QED BY <1>0, <2>1, <3>1, <3>2, OthersInOrder DEF TasksInOrder, config
  <2>5. CASE Sent(t)
    <3>1. /\ stage[t] = "sending" /\ stage'[t] = "reply" /\ rfLock' = rfLock
          /\ call'[t].op = call[t].op /\ call'[t].at = call[t].at
          /\ request' = request /\ serviceLock' = serviceLock
          /\ \A u \in Tasks \ {t} : stage'[u] = stage[u] /\ call'[u] = call[u]
      BY <2>5 DEF Sent, HomeTypes, Calls
    <3>2. RadioLocked(t)' /\ CallSuits(t)'
      BY <1>1, <3>1 DEF RadioLocked, CallSuits, Active
    <3> QED BY <1>0, <2>1, <3>1, <3>2, OthersInOrder DEF TasksInOrder, config
  <2>6. ASSUME GoesOn(t), OthersStay(t), request' = request, Active(t) \/ stage[t] = "guard"
        PROVE  TasksInOrder'
    <3>1. RadioLocked(t)' /\ CallSuits(t)'
      <4>1. CASE stage'[t] \in {"done", "guard"}
        <5>1. /\ call'[t].at = None /\ call'[t].got = None /\ call'[t].op = "control"
              /\ stage'[t] = "guard" => /\ Gesture(t) /\ rfLock' = rfLock /\ rfLock = t
          BY <1>1, <2>6, <4>1 DEF GoesOn, NoCall, RadioLocked, Active
        <5>2. Gesture(t)' <=> Gesture(t)
          BY <1>0, <2>6 DEF Gesture, config
        <5> QED BY <4>1, <5>1, <5>2 DEF RadioLocked, CallSuits, Active
      <4>2. CASE stage'[t] = "wait_service"
        <5>1. /\ call'[t].op \in {"control", "redundant_control", "send", "cancel"}
              /\ request[t] = "open" /\ rfLock' = t
              /\ call'[t].at \in Bridges /\ call'[t].got = None
          BY <1>1, <2>6, <4>2 DEF GoesOn, RadioLocked, CallSuits
        <5> QED BY <2>6, <4>2, <5>1, NobodyAtNone DEF RadioLocked, CallSuits, Active
      <4> QED BY <2>6, <4>1, <4>2 DEF GoesOn
    <3> QED BY <1>0, <2>1, <2>6, <3>1, OthersInOrder DEF TasksInOrder, OthersStay, config
  <2>7. CASE Return(t)
    BY <2>6, <2>7, FailedGoesOn, AnsweredGoesOn DEF Return, Active
  <2>8. CASE Timeout(t) \/ Unavailable(t)
    BY <2>6, <2>8, FailedGoesOn DEF Timeout, Unavailable, Active
  <2>9. CASE GuardEnds(t)
    <3>1. GoesOn(t) /\ OthersStay(t)
      BY <2>9 DEF GuardEnds, Finish, GoesOn, OthersStay, HomeTypes
    <3> QED BY <2>6, <2>9, <3>1 DEF GuardEnds
  <2> QED BY <1>2, <2>2, <2>3, <2>4, <2>5, <2>7, <2>8, <2>9 DEF TaskStep
<1>3. ASSUME NEW b \in Bridges, Deliver(b) PROVE TasksInOrder'
  <2>1. /\ UNCHANGED <<request, stage, rfLock, serviceLock>>
        /\ \A t \in Tasks : /\ call'[t].op = call[t].op /\ call'[t].at = call[t].at
                            /\ \/ call'[t].got = call[t].got
                               \/ stage[t] \in {"sending", "reply"}
    BY <1>3 DEF Deliver, Notice, HomeTypes, Calls
  <2>2. ASSUME NEW t \in Tasks PROVE RadioLocked(t)' /\ CallSuits(t)'
    <3>1. RadioLocked(t) /\ CallSuits(t)
      BY <1>1
    <3> QED BY <1>0, <2>1, <3>1 DEF RadioLocked, CallSuits, Active, Gesture, config
  <2> QED BY <2>2 DEF TasksInOrder
<1>4. ASSUME NEW b \in Bridges, Firmware(b) \/ Disconnect(b) \/ Reconnect(b)
      PROVE  TasksInOrder'
  <2>1. UNCHANGED home
    BY <1>4 DEF Firmware, Transmit, Transmitted, Arm, Acknowledge, Refuse, Ignore, Takes,
                Disconnect, Reconnect
  <2>2. ASSUME NEW t \in Tasks PROVE RadioLocked(t)' /\ CallSuits(t)'
    BY <1>0, <1>1, <2>1 DEF RadioLocked, CallSuits, Active, Gesture, config, home
  <2> QED BY <2>2 DEF TasksInOrder
<1> QED BY <1>2, <1>3, <1>4 DEF Next

-----------------------------------------------------------------------------
(* The bridges *)

\* The service lock is held by a task, for a call to this bridge.
LEMMA Holder ==
    ASSUME LockInv, NEW b \in Bridges, serviceLock[b] # None
    PROVE  /\ serviceLock[b] \in Tasks
           /\ stage[serviceLock[b]] \in {"sending", "reply"}
           /\ call[serviceLock[b]].at = b
BY DEF LockInv, LockTypes, ServiceHeld, Tokens

\* Commands are of tasks.
LEMMA OfTasks ==
    ASSUME NodeTypes, NEW b \in Bridges
    PROVE  /\ inbox[b] # <<>> => inbox[b][1] \in Commands /\ inbox[b][1].task \in Tasks
           /\ radio[b] # None => radio[b] \in Commands /\ radio[b].task \in Tasks
<1>1. inbox[b] \in Seq(Commands) /\ radio[b] \in Commands \cup {None}
  BY DEF NodeTypes
<1>2. inbox[b] # <<>> => inbox[b][1] \in Commands
  BY <1>1, SMT
<1> QED BY <1>1, <1>2 DEF Commands

\* A bridge stays in order when a step changes neither it, nor the call that holds
\* its service lock, nor the gesture it may be transmitting.
LEMMA Untouched ==
    ASSUME LockInv, NodeTypes, NEW b \in Bridges, InOrder(b),
           inbox'[b] = inbox[b], wire'[b] = wire[b], radio'[b] = radio[b],
           status'[b] = status[b], connected'[b] = connected[b],
           serviceLock'[b] = serviceLock[b], UNCHANGED completeAck,
           serviceLock[b] # None =>
               /\ call'[serviceLock[b]].op = call[serviceLock[b]].op
               /\ call'[serviceLock[b]].got = call[serviceLock[b]].got
               /\ call'[serviceLock[b]].before = call[serviceLock[b]].before
               /\ request'[serviceLock[b]] = request[serviceLock[b]],
           radio[b] # None /\ stage[radio[b].task] = "guard" =>
               /\ stage'[radio[b].task] = "guard"
               /\ request'[radio[b].task] = request[radio[b].task]
    PROVE  InOrder(b)'
<1>1. serviceLock[b] # None =>
         /\ Waiting(b)' <=> Waiting(b)
         /\ Answer(b)' = Answer(b)
         /\ Gesture(serviceLock[b])' <=> Gesture(serviceLock[b])
  BY DEF Waiting, Answer, Gesture
<1>2. /\ inbox[b] # <<>> => inbox[b][1].task \in Tasks
      /\ radio[b] # None => radio[b].task \in Tasks
  BY OfTasks
<1>3. QueueInOrder(b)' /\ WireInOrder(b)'
  BY <1>1, <1>2, NobodyAtNone DEF InOrder, QueueInOrder, WireInOrder
<1>4. radio[b] # None /\ Guarded(b) => Guarded(b)'
  BY DEF Guarded, Gesture
<1>5. radio[b] # None /\ Called(b) => Called(b)'
  BY <1>1, <1>2, NobodyAtNone DEF Called
<1> QED BY <1>1, <1>3, <1>4, <1>5 DEF InOrder

\* The steps of task t that concern no bridge, or another one.
LEMMA Elsewhere ==
    ASSUME LockInv, NodeTypes, NEW b \in Bridges, InOrder(b), NEW t \in Tasks,
           inbox'[b] = inbox[b], UNCHANGED <<wire, radio, link, completeAck>>,
           serviceLock'[b] = serviceLock[b], serviceLock[b] # t,
           \A u \in Tasks \ {t} : /\ stage'[u] = stage[u] /\ call'[u] = call[u]
                                  /\ request'[u] = request[u],
           \/ stage[t] # "guard"
           \/ radio[b] # None => radio[b].task # t \/ ~Guarded(b)
    PROVE  InOrder(b)'
<1>1. /\ serviceLock[b] # None => serviceLock[b] \in Tasks \ {t}
      /\ radio[b] # None => radio[b].task \in Tasks
  BY Holder, OfTasks
<1>2. CASE radio[b] # None => radio[b].task # t \/ stage[t] # "guard"
  BY <1>1, <1>2, Untouched DEF link
<1>3. CASE radio[b] # None /\ radio[b].task = t /\ stage[t] = "guard" /\ ~Guarded(b)
  <2>1. Called(b)
    BY <1>3 DEF InOrder
  <2>2. FALSE
    BY <1>1, <1>3, <2>1, NobodyAtNone DEF Called
  <2> QED BY <2>2
<1> QED BY <1>2, <1>3

\* Once the answer was seen nothing of the call is under way but its gesture.
LEMMA NothingLeft ==
    ASSUME NEW b \in Bridges, InOrder(b), ~Waiting(b)
    PROVE  /\ inbox[b] = <<>> /\ wire[b] = <<>>
           /\ radio[b] # None /\ ~Guarded(b) =>
                 /\ radio[b].task = serviceLock[b] /\ Gesture(serviceLock[b])
                 /\ b = Primary /\ radio[b].op = "control"
                 /\ radio[b].op = call[serviceLock[b]].op
                 /\ Answer(b).action = "control"
BY DEF InOrder, QueueInOrder, WireInOrder, Called

\* Between two calls nothing is under way but a gesture.
LEMMA NobodyCalls ==
    ASSUME NodeTypes, NEW b \in Bridges, InOrder(b), serviceLock[b] = None
    PROVE  /\ inbox[b] = <<>> /\ wire[b] = <<>>
           /\ radio[b] # None => Guarded(b)
BY OfTasks, NobodyAtNone DEF InOrder, QueueInOrder, WireInOrder, Called

\* The steps of a task before its call.
LEMMA BeforeCall ==
    ASSUME LockInv, HomeTypes, NodeTypes, BridgesInOrder, NEW t \in Tasks,
           AcquireRf(t) \/ Unavailable(t) \/ \E r \in Requests : Submit(t, r)
    PROVE  BridgesInOrder'
<1>1. /\ UNCHANGED <<node, link, completeAck, serviceLock, stray>>
      /\ stage[t] \in {"new", "wait_rf", "wait_service"}
      /\ \A u \in Tasks \ {t} : request'[u] = request[u]
  BY DEF AcquireRf, Unavailable, Submit, config, HomeTypes
<1>2. \A u \in Tasks \ {t} : stage'[u] = stage[u] /\ call'[u] = call[u]
  <2>1. CASE Unavailable(t)
    BY <2>1, FailedGoesOn DEF Unavailable, OthersStay, Active
  <2>2. CASE ~Unavailable(t)
    BY <2>2 DEF AcquireRf, Submit, Invoke, HomeTypes
  <2> QED BY <2>1, <2>2
<1>3. \A b \in Bridges : serviceLock[b] # t
  BY <1>1, NoServiceLock, NobodyAtNone
<1>4. ASSUME NEW b \in Bridges \ stray PROVE InOrder(b)'
  BY <1>1, <1>2, <1>3, Elsewhere DEF BridgesInOrder, node, link
<1> QED BY <1>1, <1>4 DEF BridgesInOrder

\* The command is sent to a bridge where nothing is under way.
LEMMA SendOrder ==
    ASSUME LockInv, HomeTypes, NodeTypes, TasksInOrder, BridgesInOrder,
           NEW t \in Tasks, Send(t)
    PROVE  BridgesInOrder'
<1>b. PICK b \in Bridges : b = call[t].at
  BY DEF Send, LockInv, Calling
<1>c. PICK c \in Commands :
         c = [task |-> t, op |-> call[t].op, payload |-> call[t].payload]
  BY DEF HomeTypes, Calls, Commands
<1>1. /\ stage[t] = "wait_service" /\ serviceLock[b] = None
      /\ inbox' = [inbox EXCEPT ![b] = Append(@, c)]
      /\ serviceLock' = [serviceLock EXCEPT ![b] = t]
      /\ UNCHANGED <<request, radio, wire, link, completeAck, stray>>
  BY <1>b, <1>c DEF Send, config
<1>2. /\ call'[t].op = call[t].op /\ call'[t].got = call[t].got
      /\ call'[t].before = status[b] /\ stage'[t] = "sending"
      /\ \A u \in Tasks \ {t} : stage'[u] = stage[u] /\ call'[u] = call[u]
  BY <1>b DEF Send, HomeTypes, Calls
<1>3. call[t].got = None
  BY <1>1 DEF TasksInOrder, CallSuits
<1>4. \A d \in Bridges : serviceLock[d] # t
  BY <1>1, NoServiceLock, NobodyAtNone
<1>5. ASSUME NEW d \in Bridges \ stray, d # b PROVE InOrder(d)'
  <2>1. inbox'[d] = inbox[d] /\ serviceLock'[d] = serviceLock[d]
    BY <1>1, <1>5 DEF NodeTypes, LockInv, LockTypes
  <2> QED BY <1>1, <1>2, <1>4, <2>1, Elsewhere DEF BridgesInOrder
<1>6. ASSUME b \notin stray PROVE InOrder(b)'
  <2>1. InOrder(b) /\ connected[b]
    BY <1>6 DEF BridgesInOrder, InOrder
  <2>2. inbox[b] = <<>> /\ wire[b] = <<>> /\ (radio[b] # None => Guarded(b))
    BY <1>1, <2>1, NobodyCalls
  <2>3. serviceLock'[b] = t
    BY <1>1 DEF LockInv, LockTypes
  <2>4. inbox'[b] = <<c>> /\ Len(inbox'[b]) = 1 /\ inbox'[b][1] = c
    <3>1. inbox'[b] = Append(<<>>, c)
      BY <1>1, <2>2 DEF NodeTypes
    <3> QED BY <3>1, SMT
  <2>5. Waiting(b)'
    BY <1>1, <1>2, <1>3, <2>3 DEF Waiting, link
  <2>6. QueueInOrder(b)' /\ WireInOrder(b)'
    BY <1>c, <1>1, <1>2, <2>2, <2>3, <2>4, <2>5 DEF QueueInOrder, WireInOrder
  <2>7. radio'[b] # None => Guarded(b)'
    <3>1. radio[b] # None => radio[b].task \in Tasks
      BY OfTasks
    <3> QED BY <1>1, <1>2, <2>2, <3>1 DEF Guarded, Gesture
  <2> QED BY <1>1, <2>1, <2>5, <2>6, <2>7 DEF InOrder, link
<1> QED BY <1>1, <1>5, <1>6 DEF BridgesInOrder

\* The status entity already holds the answer, or a status the call knew.
LEMMA SentOrder ==
    ASSUME LockInv, HomeTypes, NodeTypes, TasksInOrder, BridgesInOrder,
           NEW t \in Tasks, Sent(t)
    PROVE  BridgesInOrder'
<1>b. PICK b \in Bridges : b = call[t].at /\ serviceLock[b] = t
  BY DEF Sent, LockInv, Calling, TasksInOrder, CallSuits
<1>1. /\ UNCHANGED <<request, serviceLock, inbox, radio, wire, link, completeAck, stray>>
      /\ stage[t] = "sending"
  BY DEF Sent, config, node
<1>2. /\ \A u \in Tasks \ {t} : stage'[u] = stage[u] /\ call'[u] = call[u]
      /\ call'[t].op = call[t].op /\ call'[t].before = call[t].before
      /\ \/ call'[t].got = call[t].got
         \/ /\ call[t].got = None /\ call'[t].got = status[b]
            /\ Answers(call[t], status[b])
  BY <1>b DEF Sent, HomeTypes, Calls
<1>3. ASSUME NEW d \in Bridges \ stray, d # b PROVE InOrder(d)'
  <2>1. serviceLock[d] # t
    BY <1>b, <1>3, Holder, NobodyAtNone
  <2> QED BY <1>1, <1>2, <2>1, Elsewhere DEF BridgesInOrder
<1>4. ASSUME b \notin stray PROVE InOrder(b)'
  <2>1. InOrder(b)
    BY <1>4 DEF BridgesInOrder
  <2>2. CASE call'[t].got = call[t].got
    <3>1. radio[b] # None => radio[b].task \in Tasks
      BY OfTasks
    <3> QED BY <1>b, <1>1, <1>2, <2>1, <2>2, <3>1, Untouched DEF link
  <2>3. CASE /\ call[t].got = None /\ call'[t].got = status[b] /\ status[b] # None
             /\ Answers(call[t], status[b])
    <3>1. ~Waiting(b)
      BY <1>b, <2>3 DEF Waiting, Answers, IsNew, Raw
    <3>2. ~Waiting(b)' /\ Answer(b)' = Answer(b)
      BY <1>b, <1>1, <2>3 DEF Waiting, Answer
    <3>3. inbox[b] = <<>> /\ wire[b] = <<>>
      BY <2>1, <3>1, NothingLeft
    <3>4. radio[b] # None => radio[b].task \in Tasks
      BY OfTasks
    <3>5. radio[b] # None /\ Guarded(b) => Guarded(b)'
      BY <1>1, <1>2, <3>4 DEF Guarded, Gesture
    <3>6. radio[b] # None /\ Called(b) => Called(b)'
      <4>1. Gesture(t)' <=> Gesture(t)
        BY <1>1 DEF Gesture
      <4> QED BY <1>b, <1>1, <1>2, <3>1, <3>2, <3>3, <4>1 DEF Called
    <3> QED BY <1>b, <1>1, <2>1, <3>1, <3>2, <3>3, <3>5, <3>6
            DEF InOrder, QueueInOrder, WireInOrder, link
  <2> QED BY <1>2, <2>2, <2>3 DEF Answers, IsNew
<1> QED BY <1>1, <1>3, <1>4 DEF BridgesInOrder

\* A call that ends leaves nothing under way on a bridge that is in order: its gesture
\* goes on in the guard time, and what else was left has led the bridge astray.
LEMMA EndOfCallOrder ==
    ASSUME LockInv, HomeTypes, NodeTypes, CallsFit, TasksInOrder, BridgesInOrder,
           NEW t \in Tasks, Return(t) \/ Timeout(t)
    PROVE  BridgesInOrder'
<1>b. PICK b \in Bridges : b = call[t].at /\ serviceLock[b] = t
  BY DEF Return, Timeout, LockInv, Calling, TasksInOrder, CallSuits
<1>1. /\ UNCHANGED <<request, node, link, completeAck>>
      /\ stage[t] = "reply" /\ stray \subseteq stray'
      /\ serviceLock' = [serviceLock EXCEPT ![b] = None]
  BY <1>b DEF Return, Timeout, Release, config
<1>2. GoesOn(t) /\ OthersStay(t)
  BY FailedGoesOn, AnsweredGoesOn DEF Return, Timeout, Active
<1>3. ASSUME NEW d \in Bridges \ stray, d # b PROVE InOrder(d)'
  <2>1. serviceLock[d] # t /\ serviceLock'[d] = serviceLock[d]
    BY <1>b, <1>1, <1>3, Holder, NobodyAtNone DEF LockInv, LockTypes
  <2> QED BY <1>1, <1>2, <2>1, Elsewhere DEF BridgesInOrder, OthersStay, node
<1>4. ASSUME b \notin stray' PROVE InOrder(b)'
  <2>1. InOrder(b) /\ serviceLock'[b] = None
    BY <1>1, <1>4 DEF BridgesInOrder, LockInv, LockTypes
  <2>2. /\ inbox[b] = <<>> /\ wire[b] = <<>>
        /\ radio[b] # None /\ ~Guarded(b) =>
              /\ stage'[t] = "guard" /\ radio[b].task = t /\ b = Primary
              /\ Gesture(t)
    <3>1. CASE Return(t)
      <4>1. ~Waiting(b) /\ Answer(b) = call[t].got
        BY <1>b, <3>1 DEF Return, Waiting, Answer
      <4>2. ASSUME radio[b] # None, ~Guarded(b)
            PROVE  /\ stage'[t] = "guard" /\ radio[b].task = t /\ b = Primary
                   /\ Gesture(t)
        <5>1. /\ radio[b].task = t /\ Gesture(t) /\ b = Primary
              /\ call[t].op = "control" /\ call[t].got.action = "control"
          BY <1>b, <2>1, <4>1, <4>2, NothingLeft
        <5>2. Answered(t, call[t].got)
          BY <3>1, <5>1 DEF Return
        <5> QED BY <1>1, <5>1, <5>2, AnsweredGoesOn
      <4> QED BY <2>1, <4>1, <4>2, NothingLeft
    <3>2. CASE Timeout(t)
      <4>1. ~Outlives(t, b)
        BY <1>b, <1>4, <3>2 DEF Timeout
      <4>2. inbox[b] = <<>>
        <5>1. ASSUME inbox[b] # <<>> PROVE FALSE
          <6>1. inbox[b][1].task = t
            BY <1>b, <2>1, <5>1 DEF InOrder, QueueInOrder
          <6>2. 1 \in DOMAIN inbox[b]
            <7>1. PICK S : inbox[b] \in Seq(S)
              BY DEF NodeTypes
            <7> QED BY <5>1, <7>1, EmptySeq, LenProperties
          <6> QED BY <4>1, <6>1, <6>2 DEF Outlives
        <5> QED BY <5>1
      <4>3. wire[b] = <<>>
        <5>1. ASSUME wire[b] # <<>> PROVE FALSE
          <6>1. wire[b][1].answers = t
            BY <1>b, <2>1, <5>1 DEF InOrder, WireInOrder
          <6>2. 1 \in DOMAIN wire[b]
            <7>1. PICK S : wire[b] \in Seq(S)
              BY DEF NodeTypes
            <7> QED BY <5>1, <7>1, EmptySeq, LenProperties
          <6> QED BY <4>1, <6>1, <6>2 DEF Outlives
        <5> QED BY <5>1
      <4>4. radio[b] # None => Guarded(b)
        BY <1>b, <2>1, <4>1 DEF InOrder, Called, Outlives
      <4> QED BY <4>2, <4>3, <4>4
    <3> QED BY <3>1, <3>2
  <2>3. radio'[b] # None => Guarded(b)'
    <3>1. radio[b] # None => radio[b].task \in Tasks
      BY OfTasks
    <3>2. \A u \in Tasks : /\ Gesture(u)' <=> Gesture(u)
                           /\ stage[u] = "guard" => stage'[u] = "guard"
      BY <1>1, <1>2 DEF Gesture, OthersStay
    <3> QED BY <1>1, <2>2, <3>1, <3>2 DEF Guarded, node
  <2> QED BY <1>1, <2>1, <2>2, <2>3
          DEF InOrder, QueueInOrder, WireInOrder, node, link
<1> QED BY <1>1, <1>3, <1>4 DEF BridgesInOrder

\* The guard time ends after the gesture.
LEMMA GuardOrder ==
    ASSUME LockInv, HomeTypes, NodeTypes, BridgesInOrder, NEW t \in Tasks, GuardEnds(t)
    PROVE  BridgesInOrder'
<1>1. /\ UNCHANGED <<request, node, link, completeAck, serviceLock, stray>>
      /\ stage[t] = "guard"
      /\ \A u \in Tasks \ {t} : stage'[u] = stage[u] /\ call'[u] = call[u]
  BY DEF GuardEnds, Finish, config, HomeTypes
<1>2. \A b \in Bridges : serviceLock[b] # t
  BY <1>1, NoServiceLock, NobodyAtNone
<1>3. \A b \in Bridges : radio[b] # None => radio[b].task # t \/ ~Guarded(b)
  BY DEF GuardEnds, Guarded
<1>4. ASSUME NEW b \in Bridges \ stray PROVE InOrder(b)'
  BY <1>1, <1>2, <1>3, Elsewhere DEF BridgesInOrder, node, link
<1> QED BY <1>1, <1>4 DEF BridgesInOrder

\* A step of the firmware of b concerns no other bridge.
LEMMA OtherBridges ==
    ASSUME LockInv, HomeTypes, NodeTypes, BridgesInOrder, NEW b \in Bridges,
           UNCHANGED <<stray, request, stage, serviceLock, completeAck>>,
           \A d \in Bridges \ {b} :
              /\ inbox'[d] = inbox[d] /\ wire'[d] = wire[d] /\ radio'[d] = radio[d]
              /\ status'[d] = status[d] /\ connected'[d] = connected[d],
           \A t \in Tasks : serviceLock[b] # t => call'[t] = call[t]
    PROVE  \A d \in Bridges \ stray : d # b => InOrder(d)'
<1> SUFFICES ASSUME NEW d \in Bridges \ stray, d # b PROVE InOrder(d)'
  OBVIOUS
<1>1. serviceLock[d] # None =>
         serviceLock[d] \in Tasks /\ call'[serviceLock[d]] = call[serviceLock[d]]
  BY Holder
<1> QED BY <1>1, Untouched DEF BridgesInOrder

\* A status that is published where the wire is free.
LEMMA PublishOrder ==
    ASSUME NodeTypes, NEW b \in Bridges, NEW action, NEW payload, NEW t,
           Publish(b, action, payload, t), connected[b], wire[b] = <<>>
    PROVE  /\ Len(wire'[b]) = 1 /\ wire'[b][1].answers = t
           /\ wire'[b][1].action = action
<1> DEFINE s == [action |-> action, payload |-> payload, answers |-> t,
                 event |-> IF action = "redundant_control" THEN None
                           ELSE counter[b] + 1]
<1>1. wire' = [wire EXCEPT ![b] = Append(@, s)]
  BY DEF Publish
<1>2. s.answers = t /\ s.action = action
  OBVIOUS
<1> HIDE DEF s
<1>3. wire'[b] = Append(<<>>, s)
  BY <1>1 DEF NodeTypes
<1>4. Len(wire'[b]) = 1 /\ wire'[b][1] = s
  BY <1>3, SMT
<1> QED BY <1>2, <1>4

\* The firmware takes the one command there is, or ends its transmission; then the
\* one status of that command is published.
LEMMA FirmwareOrder ==
    ASSUME LockInv, HomeTypes, NodeTypes, TasksInOrder, BridgesInOrder, Placed,
           NEW b \in Bridges, Firmware(b)
    PROVE  BridgesInOrder'
<1>1. UNCHANGED <<home, link, completeAck, stray>>
  BY DEF Firmware, Transmit, Transmitted, Arm, Acknowledge, Refuse, Ignore, Takes, config
<1>2. \A d \in Bridges \ {b} : /\ inbox'[d] = inbox[d] /\ wire'[d] = wire[d]
                               /\ radio'[d] = radio[d]
  BY ZenonT(30) DEF Firmware, Transmit, Transmitted, Arm, Acknowledge, Refuse, Ignore, Takes,
         Publish, Silent, NodeTypes
<1>3. \A d \in Bridges \ stray : d # b => InOrder(d)'
  BY <1>1, <1>2, OtherBridges DEF home, link
<1>4. ASSUME b \notin stray PROVE InOrder(b)'
  <2> DEFINE t == serviceLock[b]
  <2>1. InOrder(b) /\ connected[b] /\ connected'[b]
    BY <1>1, <1>4 DEF BridgesInOrder, InOrder, link
  <2>2. /\ Waiting(b)' <=> Waiting(b)
        /\ Answer(b)' = Answer(b)
        /\ serviceLock'[b] = t /\ call'[t] = call[t]
        /\ \A u : Gesture(u)' <=> Gesture(u)
    BY <1>1 DEF Waiting, Answer, Gesture, home, link
  <2> HIDE DEF t
  <2>3. CASE Transmitted(b)
    <3>1. /\ radio[b] # None /\ radio'[b] = None /\ inbox' = inbox
      BY <2>3 DEF Transmitted, NodeTypes
    <3>2. CASE Gesture(radio[b].task)
      <4>1. wire' = wire
        BY <2>3, <3>2 DEF Transmitted, Silent, Gesture
      <4> QED BY <2>1, <2>2, <3>1, <4>1 DEF InOrder, QueueInOrder, WireInOrder, t
    <3>3. CASE ~Gesture(radio[b].task)
      <4>1. /\ radio[b].task = t /\ t # None
            /\ inbox[b] = <<>> /\ wire[b] = <<>> /\ Waiting(b)
        BY <2>1, <3>1, <3>3, OfTasks, NobodyAtNone DEF InOrder, Guarded, Called, t
      <4>2. PICK payload : Publish(b, radio[b].op, payload, t)
        BY <2>3, <3>3, <4>1 DEF Transmitted, Gesture
      <4>3. Len(wire'[b]) = 1 /\ wire'[b][1].answers = t
        BY <2>1, <4>1, <4>2, PublishOrder
      <4> QED BY <2>1, <2>2, <3>1, <4>1, <4>3 DEF InOrder, QueueInOrder, WireInOrder
    <3> QED BY <3>2, <3>3
  <2>4. ASSUME inbox[b] # <<>>, NEW c, c = Head(inbox[b]),
               \/ Transmit(b, c) \/ Arm(b, c) \/ Acknowledge(b, c)
               \/ Refuse(b, c) \/ Ignore(b, c)
        PROVE  InOrder(b)'
    <3>1. /\ radio[b] = None /\ inbox' = [inbox EXCEPT ![b] = Tail(@)]
      BY <2>4 DEF Transmit, Arm, Acknowledge, Refuse, Ignore, Takes
    <3>2. /\ c \in Commands /\ c = inbox[b][1] /\ 1 \in DOMAIN inbox[b]
          /\ CommandPlaced(b, c)
      BY <2>4, FirstInQueue DEF Placed
    <3>3. /\ Len(inbox[b]) = 1 /\ wire[b] = <<>> /\ Waiting(b)
          /\ c.task = t /\ c.op = call[t].op
      BY <2>1, <2>4, <3>2 DEF InOrder, QueueInOrder, t
    <3>4. inbox'[b] = <<>>
      <4>1. inbox[b] \in Seq(Commands) /\ inbox'[b] = Tail(inbox[b])
        BY <3>1 DEF NodeTypes
      <4>2. Tail(inbox[b]) \in Seq(Commands) /\ Len(Tail(inbox[b])) = 0
        BY <2>4, <3>3, <4>1, HeadTailProperties
      <4> QED BY <4>1, <4>2, EmptySeq
    <3>5. t \in Tasks /\ t # None
      BY <3>2, <3>3, NobodyAtNone DEF Commands
    <3>6. CASE Transmit(b, c)
      <4>1. /\ radio'[b] = c
            /\ c.op \in {"control", "redundant_control", "send"}
        BY <3>6 DEF Transmit, NodeTypes
      <4>2. CASE Gesture(t)
        <5>1. c.op = "control"
          BY <3>3, <3>5, <4>1, <4>2 DEF TasksInOrder, CallSuits, Gesture
        <5>2. b = Primary
          BY <3>2, <3>3, <4>2, <5>1 DEF CommandPlaced, Owner, Gesture
        <5>3. Publish(b, c.op, None, t)
          BY <3>3, <3>6, <4>2 DEF Transmit, Gesture
        <5>4. /\ Len(wire'[b]) = 1 /\ wire'[b][1].answers = t
              /\ wire'[b][1].action = "control"
          BY <2>1, <3>3, <5>1, <5>3, PublishOrder
        <5>5. Called(b)'
          BY <2>2, <3>3, <3>4, <4>1, <4>2, <5>1, <5>2, <5>4 DEF Called
        <5> QED BY <2>1, <2>2, <3>3, <3>4, <3>5, <5>4, <5>5
                DEF InOrder, QueueInOrder, WireInOrder
      <4>3. CASE ~Gesture(t)
        <5>1. wire' = wire
          BY <3>3, <3>6, <4>3 DEF Transmit, Gesture, Silent
        <5>2. Called(b)'
          BY <2>2, <3>3, <3>4, <4>1, <4>3, <5>1 DEF Called
        <5> QED BY <2>1, <2>2, <3>3, <3>4, <5>1, <5>2
                DEF InOrder, QueueInOrder, WireInOrder
      <4> QED BY <4>2, <4>3
    <3>7. CASE ~Transmit(b, c)
      <4>1. radio' = radio
        BY <2>4, <3>7 DEF Arm, Acknowledge, Refuse, Ignore
      <4>2. wire' = wire \/ \E action, payload : Publish(b, action, payload, t)
        BY <2>4, <3>3, <3>7 DEF Arm, Acknowledge, Refuse, Ignore, Silent
      <4>3. wire'[b] # <<>> => Len(wire'[b]) = 1 /\ wire'[b][1].answers = t
        BY <2>1, <3>3, <4>2, PublishOrder
      <4> QED BY <2>1, <2>2, <3>1, <3>3, <3>4, <3>5, <4>1, <4>3
              DEF InOrder, QueueInOrder, WireInOrder
    <3> QED BY <3>6, <3>7
  <2> QED BY <2>3, <2>4 DEF Firmware
<1> QED BY <1>1, <1>3, <1>4 DEF BridgesInOrder

\* The one status on the wire reaches the call it answers.
LEMMA DeliverOrder ==
    ASSUME LockInv, HomeTypes, NodeTypes, BridgesInOrder, NEW b \in Bridges, Deliver(b)
    PROVE  BridgesInOrder'
<1> DEFINE t == serviceLock[b]
           s == Head(wire[b])
<1>1. /\ UNCHANGED <<request, stage, serviceLock, inbox, radio, connected, stray,
                     completeAck>>
      /\ wire[b] # <<>> /\ wire' = [wire EXCEPT ![b] = Tail(@)]
      /\ status' = [status EXCEPT ![b] = s]
      /\ IF Raw(s) = Raw(status[b]) THEN UNCHANGED call ELSE Notice(b, s)
  BY DEF Deliver, config
<1> HIDE DEF s, t
<1>2. /\ \A u \in Tasks : u # t => call'[u] = call[u]
      /\ t \in Tasks => /\ call'[t].op = call[t].op /\ call'[t].before = call[t].before
                        /\ \/ call'[t].got = call[t].got
                           \/ call[t].got = None /\ call'[t].got = s /\ s # None
  BY <1>1 DEF Notice, HomeTypes, Calls, Answers, IsNew, t
<1>3. \A d \in Bridges \ {b} : wire'[d] = wire[d] /\ status'[d] = status[d]
  BY <1>1 DEF HomeTypes, NodeTypes
<1>4. \A d \in Bridges \ stray : d # b => InOrder(d)'
  BY <1>1, <1>2, <1>3, OtherBridges DEF t
<1>5. ASSUME b \notin stray PROVE InOrder(b)'
  <2>1. InOrder(b)
    BY <1>5 DEF BridgesInOrder
  <2>2. /\ Len(wire[b]) = 1 /\ t # None /\ wire[b][1].answers = t /\ Waiting(b)
        /\ inbox[b] = <<>>
    BY <1>1, <2>1 DEF InOrder, WireInOrder, QueueInOrder, t
  <2>3. s = wire[b][1] /\ wire'[b] = <<>> /\ status'[b] = s
    <3>1. wire[b] \in Seq(Statuses) /\ wire'[b] = Tail(wire[b]) /\ status'[b] = s
      BY <1>1 DEF NodeTypes, HomeTypes
    <3>2. Tail(wire[b]) \in Seq(Statuses) /\ Len(Tail(wire[b])) = 0
      BY <1>1, <2>2, <3>1, HeadTailProperties
    <3>3. Head(wire[b]) = wire[b][1]
      BY <1>1, <3>1, HeadTailProperties
    <3> QED BY <3>1, <3>2, <3>3, EmptySeq DEF s
  <2>4. t \in Tasks /\ call[t].got = None
    BY <2>2, Holder DEF Waiting, t
  <2>5. Answer(b)' = s
    BY <1>1, <1>2, <2>3, <2>4 DEF Answer, t
  <2>6. radio[b] # None => radio[b].task \in Tasks
    BY OfTasks
  <2>7. radio[b] # None /\ Guarded(b) => Guarded(b)'
    BY <1>1, <2>6 DEF Guarded, Gesture
  <2>8. radio[b] # None /\ Called(b) => Called(b)'
    <3>1. ASSUME radio[b] # None, Called(b) PROVE Called(b)'
      <4>1. Gesture(t) /\ s.action = "control"
        BY <1>1, <2>3, <3>1 DEF Called, t
      <4>2. Gesture(t)'
        BY <1>1, <4>1 DEF Gesture, t
      <4> QED BY <1>1, <1>2, <2>2, <2>3, <2>4, <2>5, <3>1, <4>1, <4>2 DEF Called, t
    <3> QED BY <3>1
  <2> QED BY <1>1, <2>1, <2>2, <2>3, <2>5, <2>7, <2>8
          DEF InOrder, QueueInOrder, WireInOrder, t
<1> QED BY <1>1, <1>4, <1>5 DEF BridgesInOrder

\* A lost connection leads its own bridge astray.
LEMMA LinkOrder ==
    ASSUME LockInv, HomeTypes, NodeTypes, BridgesInOrder, NEW b \in Bridges,
           connected \in [Bridges -> BOOLEAN], Disconnect(b) \/ Reconnect(b)
    PROVE  BridgesInOrder'
<1>1. /\ UNCHANGED <<home, completeAck>> /\ stray \subseteq stray' /\ b \in stray'
  <2>1. Reconnect(b) => b \in stray
    BY DEF Reconnect, BridgesInOrder, InOrder
  <2> QED BY <2>1 DEF Disconnect, Reconnect, config
<1>2. \A d \in Bridges \ {b} :
         /\ inbox'[d] = inbox[d] /\ wire'[d] = wire[d] /\ radio'[d] = radio[d]
         /\ status'[d] = status[d] /\ connected'[d] = connected[d]
  BY DEF Disconnect, Reconnect, NodeTypes, HomeTypes
<1>3. ASSUME NEW d \in Bridges \ stray, d # b PROVE InOrder(d)'
  <2>1. serviceLock[d] # None => serviceLock[d] \in Tasks
    BY Holder
  <2> QED BY <1>1, <1>2, <1>3, <2>1, Untouched DEF BridgesInOrder, home
<1> QED BY <1>1, <1>3 DEF BridgesInOrder

-----------------------------------------------------------------------------
(* What is told *)

\* What was transmitted stays so; a request changes only while nothing was.
LEMMA StillLoud ==
    ASSUME OnceInv, Next
    PROVE  Loud \subseteq Loud'
<1>1. sent \in [Tasks -> [Bridges -> Nat]] /\ Budgets /\ HomeTypes
  BY DEF OnceInv, NodeTypes
<1>2. \/ UNCHANGED sent
      \/ \E f \in Tasks, b \in Bridges : sent' = [sent EXCEPT ![f][b] = @ + 1]
  <2>1. ASSUME NEW b \in Bridges, inbox[b] # <<>>, NEW c, c = Head(inbox[b]),
               Transmit(b, c)
        PROVE  \/ UNCHANGED sent
               \/ \E f \in Tasks : sent' = [sent EXCEPT ![f][b] = @ + 1]
    <3>1. inbox' = [inbox EXCEPT ![b] = Tail(@)] /\ NodeTypes
      BY <2>1 DEF Transmit, Takes, OnceInv
    <3>2. c \in Commands /\ CommandFits(b, c, Offered)
      BY <2>1, FirstInQueue DEF OnceInv, NodeFits
    <3>3. CASE c.op = "send"
      <4>1. c.payload[2] \in Tasks /\ sent' = [sent EXCEPT ![c.payload[2]][b] = @ + 1]
        BY <2>1, <3>2, <3>3 DEF Transmit, CommandFits, Offered
      <4> QED BY <4>1
    <3>4. CASE c.op # "send"
      <4>1. c.task \in Tasks /\ sent' = [sent EXCEPT ![c.task][b] = @ + 1]
        BY <2>1, <3>2, <3>4 DEF Transmit, Commands
      <4> QED BY <4>1
    <3> QED BY <3>3, <3>4
  <2>2. ASSUME NEW b \in Bridges, Firmware(b)
        PROVE  \/ UNCHANGED sent
               \/ \E f \in Tasks : sent' = [sent EXCEPT ![f][b] = @ + 1]
    BY <2>1, <2>2 DEF Firmware, Transmitted, Arm, Acknowledge, Refuse, Ignore
  <2>3. ASSUME NEW t \in Tasks, TaskStep(t) \/ \E r \in Requests : Submit(t, r)
        PROVE  UNCHANGED sent
    BY <2>3 DEF TaskStep, Submit, AcquireRf, Send, Sent, Return, Timeout, Unavailable,
                GuardEnds, node
  <2>4. ASSUME NEW b \in Bridges, Deliver(b) \/ Disconnect(b) \/ Reconnect(b)
        PROVE  UNCHANGED sent
    BY <2>4 DEF Deliver, Disconnect, Reconnect
  <2> QED BY <2>2, <2>3, <2>4 DEF Next
<1>3. \A u \in Tasks, b \in Bridges : sent'[u][b] >= sent[u][b]
  <2>1. ASSUME NEW f \in Tasks, NEW d \in Bridges,
               sent' = [sent EXCEPT ![f][d] = @ + 1],
               NEW u \in Tasks, NEW b \in Bridges
        PROVE  sent'[u][b] >= sent[u][b]
    <3>1. sent[u][b] \in Nat
      BY <1>1
    <3>2. sent'[u][b] = sent[u][b] \/ sent'[u][b] = sent[u][b] + 1
      BY <1>1, <2>1
    <3> QED BY <3>1, <3>2
  <2>2. \A u \in Tasks, b \in Bridges : sent[u][b] \in Nat
    BY <1>1
  <2> QED BY <1>2, <2>1, <2>2
<1>4. \A u \in Tasks : request'[u] # request[u] => \A b \in Bridges : sent[u][b] = 0
  <2>1. ASSUME NEW t \in Tasks, NEW r \in Requests, Submit(t, r)
        PROVE  \A u \in Tasks : request'[u] # request[u] => Unissued(u)
    BY <1>1, <2>1 DEF Submit, HomeTypes, Unissued
  <2>2. (\E t \in Tasks, r \in Requests : Submit(t, r)) \/ UNCHANGED request
    BY DEF Next, TaskStep, AcquireRf, Send, Sent, Return, Timeout, Unavailable,
         GuardEnds, Firmware, Transmit, Transmitted, Arm, Acknowledge, Refuse, Ignore,
         Takes, Deliver, Disconnect, Reconnect, home
  <2>3. \A u \in Tasks : request'[u] # request[u] => Unissued(u)
    BY <2>1, <2>2
  <2> QED BY <1>1, <2>3 DEF Budgets, Budget
<1>5. ASSUME NEW u \in Tasks, sent[u][Owner(u)] >= 1 PROVE sent'[u][Owner(u)'] >= 1
  <2>1. Owner(u) \in Bridges /\ sent[u][Owner(u)] \in Nat
    BY <1>1, Ends DEF Owner
  <2>2. request'[u] = request[u]
    BY <1>4, <1>5, <2>1
  <2>3. Owner(u)' = Owner(u)
    BY <2>2 DEF Owner
  <2>4. sent'[u][Owner(u)] >= sent[u][Owner(u)] /\ sent'[u][Owner(u)] \in Nat
    <3>1. sent'[u][Owner(u)] \in Nat
      BY <1>1, <1>2, <2>1
    <3> QED BY <1>3, <2>1, <3>1
  <2> QED BY <1>5, <2>1, <2>3, <2>4
<1> QED BY <1>5 DEF Loud

\* A status that is published answers a transmission, or tells of none.
LEMMA PublishTrue ==
    ASSUME NodeTypes, EntityTrue, NEW b \in Bridges, NEW action, NEW payload, NEW t,
           Publish(b, action, payload, t), UNCHANGED status, Loud \subseteq Loud',
           action \in {"control", "redundant_control"} => t \in Loud'
    PROVE  EntityTrue'
<1> DEFINE s == [action |-> action, payload |-> payload, answers |-> t,
                 event |-> IF action = "redundant_control" THEN None
                           ELSE counter[b] + 1]
<1>1. /\ last' = [last EXCEPT ![b] = s]
      /\ wire' = IF connected[b] THEN [wire EXCEPT ![b] = Append(@, s)] ELSE wire
  BY DEF Publish
<1>2. StatusTrue(s, Loud')
  BY DEF StatusTrue
<1> HIDE DEF s
<1>3. \A x : StatusTrue(x, Loud) => StatusTrue(x, Loud')
  BY DEF StatusTrue
<1>4. wire \in [Bridges -> Seq(Statuses)] /\ last \in [Bridges -> Statuses]
  BY DEF NodeTypes
<1>5. \A d \in Bridges : last'[d] = last[d] \/ last'[d] = s
  BY <1>1, <1>4
<1>6. ASSUME NEW d \in Bridges, NEW i \in DOMAIN wire'[d]
      PROVE  StatusTrue(wire'[d][i], Loud')
  <2>1. CASE wire'[d] = wire[d]
    BY <1>3, <2>1 DEF EntityTrue
  <2>2. CASE wire'[d] # wire[d]
    <3>1. d = b /\ wire'[d] = Append(wire[b], s) /\ wire[b] \in Seq(Statuses)
      BY <1>1, <1>4, <2>2
    <3>2. wire'[d][i] = s \/ (i \in DOMAIN wire[b] /\ wire'[d][i] = wire[b][i])
      BY <3>1, SMT
    <3> QED BY <1>2, <1>3, <3>2 DEF EntityTrue
  <2> QED BY <2>1, <2>2
<1> QED BY <1>2, <1>3, <1>5, <1>6 DEF EntityTrue

\* Every step keeps the statuses true.
LEMMA TruthStep ==
    ASSUME OnceInv, Placed, Truth, Next
    PROVE  Truth'
<1>1. /\ Loud \subseteq Loud' /\ HomeTypes /\ NodeTypes /\ NodeFits /\ Calling
      /\ EntityTrue /\ AirTrue
      /\ \A t \in Tasks : call[t].got # None => StatusTrue(call[t].got, Loud)
  BY StillLoud DEF OnceInv, LockInv, Truth
<1>2. \A x : StatusTrue(x, Loud) => StatusTrue(x, Loud')
  BY <1>1 DEF StatusTrue
<1>3. ASSUME UNCHANGED <<status, last, wire, radio>>,
             \A t \in Tasks : \/ call'[t].got \in {None, call[t].got}
                              \/ \E b \in Bridges : call'[t].got = status[b]
      PROVE  Truth'
  <2>1. EntityTrue' /\ AirTrue'
    BY <1>1, <1>2, <1>3 DEF EntityTrue, AirTrue
  <2>2. ASSUME NEW t \in Tasks, call'[t].got # None
        PROVE  StatusTrue(call'[t].got, Loud')
    BY <1>1, <1>2, <1>3, <2>2 DEF EntityTrue
  <2> QED BY <2>1, <2>2 DEF Truth
<1>4. ASSUME NEW t \in Tasks, TaskStep(t) \/ \E r \in Requests : Submit(t, r)
      PROVE  Truth'
  <2>1. UNCHANGED <<status, last, wire, radio>>
    BY <1>4 DEF TaskStep, Submit, AcquireRf, Send, Sent, Return, Timeout, Unavailable,
                GuardEnds, node, link
  <2>2. CASE Sent(t)
    <3>1. call[t].at \in Bridges
      BY <1>1, <2>2 DEF Sent, Calling
    <3>2. \A u \in Tasks : \/ call'[u].got = call[u].got
                           \/ call'[u].got = status[call[t].at]
      BY <1>1, <2>2 DEF Sent, HomeTypes, Calls
    <3> QED BY <1>3, <2>1, <3>1, <3>2
  <2>3. CASE \E r \in Requests : Submit(t, r)
    <3>1. \A u \in Tasks : call'[u].got \in {None, call[u].got}
      <4>1. PICK r \in Requests : Submit(t, r)
        BY <2>3
      <4>2. CASE call' = call
        BY <4>2
      <4>3. CASE call' # call
        BY <1>1, <4>1, <4>3, ZenonT(30) DEF Submit, Invoke, HomeTypes, NoCall
      <4> QED BY <4>2, <4>3
    <3> QED BY <1>3, <2>1, <3>1
  <2>4. CASE AcquireRf(t) \/ Send(t)
    <3>1. \A u \in Tasks : call'[u].got \in {None, call[u].got}
      <4>1. CASE AcquireRf(t)
        BY <1>1, <4>1 DEF AcquireRf, HomeTypes, NoCall
      <4>2. CASE Send(t)
        BY <1>1, <4>2 DEF Send, HomeTypes, Calls
      <4> QED BY <2>4, <4>1, <4>2
    <3> QED BY <1>3, <2>1, <3>1
  <2>5. ASSUME GoesOn(t), OthersStay(t) PROVE Truth'
    <3>1. \A u \in Tasks : call'[u].got \in {None, call[u].got}
      BY <2>5 DEF GoesOn, OthersStay, NoCall
    <3> QED BY <1>3, <2>1, <3>1
  <2>6. CASE Return(t) \/ Timeout(t) \/ Unavailable(t)
    BY <1>1, <2>5, <2>6, FailedGoesOn, AnsweredGoesOn
       DEF Return, Timeout, Unavailable, Active
  <2>7. CASE GuardEnds(t)
    <3>1. GoesOn(t) /\ OthersStay(t)
      BY <1>1, <2>7 DEF GuardEnds, Finish, GoesOn, OthersStay, HomeTypes
    <3> QED BY <2>5, <3>1
  <2> QED BY <1>4, <2>2, <2>3, <2>4, <2>6, <2>7 DEF TaskStep
<1>5. ASSUME NEW b \in Bridges, Firmware(b) PROVE Truth'
  <2>1. UNCHANGED <<home, status>>
    BY <1>5 DEF Firmware, Transmit, Transmitted, Arm, Acknowledge, Refuse, Ignore,
                Takes, link
  <2>2. \A t \in Tasks : call'[t].got # None => StatusTrue(call'[t].got, Loud')
    BY <1>1, <1>2, <2>1 DEF home
  <2>3. Silent => EntityTrue'
    BY <1>1, <1>2, <2>1 DEF Silent, EntityTrue
  <2>4. CASE Transmitted(b)
    <3>1. /\ radio[b] # None /\ radio' = [radio EXCEPT ![b] = None]
      BY <2>4 DEF Transmitted
    <3>2. Silent \/ \E payload : Publish(b, radio[b].op, payload, radio[b].task)
      BY <2>4 DEF Transmitted
    <3>3. EntityTrue'
      BY <1>1, <2>1, <2>3, <3>1, <3>2, PublishTrue DEF AirTrue
    <3>4. AirTrue'
      BY <1>1, <3>1 DEF AirTrue, NodeTypes
    <3> QED BY <2>2, <3>3, <3>4 DEF Truth
  <2>5. ASSUME inbox[b] # <<>>, NEW c, c = Head(inbox[b]),
               \/ Transmit(b, c) \/ Arm(b, c) \/ Acknowledge(b, c)
               \/ Refuse(b, c) \/ Ignore(b, c)
        PROVE  Truth'
    <3>1. inbox' = [inbox EXCEPT ![b] = Tail(@)]
      BY <2>5 DEF Transmit, Arm, Acknowledge, Refuse, Ignore, Takes
    <3>2. c \in Commands /\ c.task \in Tasks /\ CommandPlaced(b, c)
      BY <1>1, <2>5, FirstInQueue DEF Placed, Commands
    <3>3. CASE Transmit(b, c)
      <4>1. c.op \in {"control", "redundant_control"} => c.task \in Loud'
        <5>1. ASSUME c.op \in {"control", "redundant_control"}
              PROVE  c.task \in Loud'
          <6>1. sent' = [sent EXCEPT ![c.task][b] = @ + 1] /\ b = Owner(c.task)
            BY <3>2, <3>3, <5>1 DEF Transmit, CommandPlaced
          <6>2. sent[c.task][b] \in Nat /\ sent'[c.task][b] = sent[c.task][b] + 1
            BY <1>1, <3>2, <6>1 DEF NodeTypes
          <6>3. Owner(c.task)' = b
            BY <2>1, <6>1 DEF Owner, home
          <6> QED BY <3>2, <6>2, <6>3 DEF Loud
        <5> QED BY <5>1
      <4>2. radio' = [radio EXCEPT ![b] = c]
        BY <3>3 DEF Transmit
      <4>3. AirTrue'
        BY <1>1, <4>1, <4>2 DEF AirTrue, NodeTypes
      <4>4. Silent \/ Publish(b, c.op, None, c.task)
        BY <3>3 DEF Transmit
      <4>5. EntityTrue'
        BY <1>1, <2>1, <2>3, <4>1, <4>4, PublishTrue
      <4> QED BY <2>2, <4>3, <4>5 DEF Truth
    <3>4. CASE Arm(b, c) \/ Acknowledge(b, c) \/ Refuse(b, c) \/ Ignore(b, c)
      <4>1. radio' = radio
        BY <3>4 DEF Arm, Acknowledge, Refuse, Ignore
      <4>2. \/ Silent
            \/ \E action \in {"arm", "cancel", "remote_alias", "error"} :
                  \E payload : Publish(b, action, payload, c.task)
        BY <3>4 DEF Arm, Acknowledge, Refuse, Ignore
      <4>3. EntityTrue'
        BY <1>1, <2>1, <2>3, <4>2, PublishTrue
      <4>4. AirTrue'
        BY <1>1, <4>1 DEF AirTrue
      <4> QED BY <2>2, <4>3, <4>4 DEF Truth
    <3> QED BY <2>5, <3>3, <3>4
  <2> QED BY <1>5, <2>4, <2>5 DEF Firmware
<1>6. ASSUME NEW b \in Bridges, Deliver(b) PROVE Truth'
  <2>1. /\ UNCHANGED <<last, radio>> /\ wire[b] # <<>>
        /\ wire' = [wire EXCEPT ![b] = Tail(@)]
        /\ status' = [status EXCEPT ![b] = Head(wire[b])]
    BY <1>6 DEF Deliver
  <2>2. wire[b] \in Seq(Statuses)
    BY <1>1 DEF NodeTypes
  <2>3. /\ Head(wire[b]) = wire[b][1] /\ 1 \in DOMAIN wire[b]
        /\ \A i \in DOMAIN Tail(wire[b]) :
              i + 1 \in DOMAIN wire[b] /\ Tail(wire[b])[i] = wire[b][i + 1]
    BY <2>1, <2>2, SMT
  <2>4. PICK s : s = Head(wire[b]) /\ StatusTrue(s, Loud)
    BY <1>1, <2>3 DEF EntityTrue
  <2>5. \A t \in Tasks : call'[t].got = call[t].got \/ call'[t].got = s
    BY <1>1, <1>6, <2>4 DEF Deliver, Notice, HomeTypes, Calls
  <2>6. ASSUME NEW d \in Bridges
        PROVE  /\ status'[d] # None => StatusTrue(status'[d], Loud)
               /\ \A i \in DOMAIN wire'[d] : StatusTrue(wire'[d][i], Loud)
    <3>1. CASE d = b
      <4>1. status'[d] = s /\ wire'[d] = Tail(wire[b])
        BY <1>1, <2>1, <2>4, <3>1 DEF HomeTypes, NodeTypes
      <4> QED BY <1>1, <2>3, <2>4, <4>1 DEF EntityTrue
    <3>2. CASE d # b
      BY <1>1, <2>1, <3>2 DEF EntityTrue, HomeTypes, NodeTypes
    <3> QED BY <3>1, <3>2
  <2>7. EntityTrue'
    BY <1>1, <1>2, <2>1, <2>6 DEF EntityTrue
  <2>8. AirTrue'
    BY <1>1, <2>1 DEF AirTrue
  <2> QED BY <1>1, <1>2, <2>4, <2>5, <2>7, <2>8 DEF Truth
<1>7. ASSUME NEW b \in Bridges, Disconnect(b) \/ Reconnect(b) PROVE Truth'
  <2>1. PICK ready : /\ ready = [action |-> "ready", event |-> 0, payload |-> None,
                                 answers |-> None]
                     /\ StatusTrue(ready, Loud)
    <3> DEFINE r == [action |-> "ready", event |-> 0, payload |-> None, answers |-> None]
    <3>1. StatusTrue(r, Loud)
      BY DEF StatusTrue
    <3> QED BY <3>1
  <2>2. /\ UNCHANGED call
        /\ last' = last \/ last' = [last EXCEPT ![b] = ready]
        /\ radio' = radio \/ radio' = [radio EXCEPT ![b] = None]
        /\ wire' = [wire EXCEPT ![b] = <<>>] \/ wire' = [wire EXCEPT ![b] = <<last[b]>>]
        /\ status' = status \/ status' = [status EXCEPT ![b] = None]
    BY <1>7, <2>1 DEF Disconnect, Reconnect, home
  <2>3. \A d \in Bridges :
           /\ last'[d] = last[d] \/ last'[d] = ready
           /\ radio'[d] = radio[d] \/ radio'[d] = None
           /\ wire'[d] = wire[d] \/ wire'[d] = <<>> \/ wire'[d] = <<last[d]>>
           /\ status'[d] = status[d] \/ status'[d] = None
    BY <1>1, <2>2 DEF HomeTypes, NodeTypes
  <2>4. ASSUME NEW d \in Bridges, NEW i \in DOMAIN wire'[d]
        PROVE  StatusTrue(wire'[d][i], Loud)
    <3>1. CASE wire'[d] = <<last[d]>>
      <4>1. wire'[d][i] = last[d]
        BY <2>4, <3>1
      <4> QED BY <1>1, <4>1 DEF EntityTrue
    <3>2. CASE wire'[d] = wire[d] \/ wire'[d] = <<>>
      BY <1>1, <2>4, <3>2 DEF EntityTrue
    <3> QED BY <2>3, <3>1, <3>2
  <2>5. EntityTrue'
    BY <1>1, <1>2, <2>1, <2>3, <2>4 DEF EntityTrue
  <2>6. AirTrue'
    BY <1>1, <2>3 DEF AirTrue
  <2> QED BY <1>1, <1>2, <2>2, <2>5, <2>6 DEF Truth
<1> QED BY <1>4, <1>5, <1>6, <1>7 DEF Next

\* What a call is answered with on bridges that are in order is the acknowledgement of
\* its own transmission.
LEMMA OwnAcknowledgement ==
    ASSUME LockInv, CallsFit, TasksInOrder, BridgesInOrder, Truth,
           NEW t \in Tasks, call[t].got # None, call[t].at \notin stray
    PROVE  /\ call[t].got.answers = t
           /\ /\ call[t].op \in {"control", "redundant_control"}
              /\ call[t].got.action # "error"
              => t \in Loud
<1>1. stage[t] \in {"sending", "reply"} /\ call[t].at \in Bridges
      /\ serviceLock[call[t].at] = t
  BY DEF TasksInOrder, CallSuits, LockInv, Calling
<1>2. InOrder(call[t].at) /\ t # None
  BY <1>1, NobodyAtNone DEF BridgesInOrder
<1>3. call[t].got.answers = t
  BY <1>1, <1>2 DEF InOrder, Waiting, Answer
<1>4. StatusTrue(call[t].got, Loud) /\ call[t].got.action \in {call[t].op, "error"}
  BY DEF Truth, CallsFit, CallFits
<1> QED BY <1>3, <1>4 DEF StatusTrue

\* Every step keeps what is told true.
LEMMA ToldStep ==
    ASSUME OnceInv, TasksInOrder, BridgesInOrder, Truth, Told, Next,
           result \in [Tasks -> {None, "sent", "failed"}]
    PROVE  Told'
<1>1. /\ Loud \subseteq Loud' /\ HomeTypes /\ CallsFit /\ LockInv
      /\ \A t \in Tasks : CallSuits(t)
  BY StillLoud DEF OnceInv, TasksInOrder
<1>2. stray \subseteq stray'
  BY DEF Next, TaskStep, Submit, AcquireRf, Send, Sent, Return, Timeout, Unavailable,
         GuardEnds, Firmware, Transmit, Transmitted, Arm, Acknowledge, Refuse, Ignore,
         Takes, Deliver, Disconnect, Reconnect
<1>3. ASSUME NEW t \in Tasks, stray = {}, request'[t] # "alias", Decided(t)',
             \A u \in Tasks : stage'[u] = stage[u] /\ call'[u].op = call[u].op
                              /\ request'[u] = request[u] /\ result'[u] = result[u]
      PROVE  t \in Loud'
  BY <1>1, <1>3 DEF Told, Decided, Active
<1>4. ASSUME NEW b \in Bridges,
             Firmware(b) \/ Deliver(b) \/ Disconnect(b) \/ Reconnect(b)
      PROVE  Told'
  <2>1. \A u \in Tasks : /\ stage'[u] = stage[u] /\ call'[u].op = call[u].op
                         /\ request'[u] = request[u] /\ result'[u] = result[u]
    <3>1. CASE Deliver(b)
      BY <1>1, <3>1 DEF Deliver, Notice, HomeTypes, Calls
    <3>2. CASE ~Deliver(b)
      BY <1>4, <3>2 DEF Firmware, Transmit, Transmitted, Arm, Acknowledge, Refuse, Ignore,
                        Takes, Disconnect, Reconnect, home
    <3> QED BY <3>1, <3>2
  <2> QED BY <1>2, <1>3, <2>1 DEF Told
<1>5. ASSUME NEW t \in Tasks, TaskStep(t) \/ \E r \in Requests : Submit(t, r)
      PROVE  Told'
  <2>1. \A u \in Tasks \ {t} : /\ stage'[u] = stage[u] /\ call'[u] = call[u]
                               /\ request'[u] = request[u] /\ result'[u] = result[u]
    <3>1. \A u \in Tasks \ {t} : stage'[u] = stage[u] /\ call'[u] = call[u]
      <4>1. CASE Return(t) \/ Timeout(t) \/ Unavailable(t)
        BY <1>1, <4>1, FailedGoesOn, AnsweredGoesOn
           DEF Return, Timeout, Unavailable, Active, OthersStay
      <4>2. CASE Submit(t, "alias") \/ \E r \in Requests : Submit(t, r)
        BY <1>1, <4>2 DEF Submit, Invoke, HomeTypes
      <4>3. CASE AcquireRf(t) \/ Send(t) \/ Sent(t) \/ GuardEnds(t)
        BY <1>1, <4>3 DEF AcquireRf, Send, Sent, GuardEnds, Finish, HomeTypes
      <4> QED BY <1>5, <4>1, <4>2, <4>3 DEF TaskStep
    <3>2. \A u \in Tasks \ {t} : request'[u] = request[u]
      BY <1>1, <1>5 DEF TaskStep, Submit, AcquireRf, Send, Sent, Return, Timeout,
                        Unavailable, GuardEnds, HomeTypes
    <3>3. \A u \in Tasks \ {t} : result'[u] = result[u]
      BY <1>5 DEF TaskStep, Submit, AcquireRf, Send, Sent, Return, Timeout,
                  Unavailable, GuardEnds, Failed, Answered, PrimaryAnswered, OfferFailed,
                  Finish, Invoke
    <3> QED BY <3>1, <3>2, <3>3
  <2>2. ASSUME NEW u \in Tasks \ {t}, stray = {}, request'[u] # "alias", Decided(u)'
        PROVE  u \in Loud'
    BY <1>1, <2>1, <2>2 DEF Told, Decided, Active
  <2>3. ASSUME stray = {}, request'[t] # "alias", Decided(t)' PROVE t \in Loud'
    <3>1. CASE \E r \in Requests : Submit(t, r)
      <4>1. PICK r \in Requests : Submit(t, r)
        BY <3>1
      <4>2. CASE r = "alias"
        BY <1>1, <2>3, <4>1, <4>2 DEF Submit, HomeTypes
      <4>3. CASE r # "alias"
        BY <1>1, <2>3, <4>1, <4>3 DEF Submit, HomeTypes, Decided, Active
      <4> QED BY <4>2, <4>3
    <3>2. CASE AcquireRf(t)
      BY <1>1, <2>3, <3>2 DEF AcquireRf, HomeTypes, NoCall, Decided, Active
    <3>3. CASE Send(t) \/ Sent(t)
      <4>1. /\ Active(t) /\ call'[t].op = call[t].op /\ request' = request
            /\ result' = result /\ stage'[t] \in {"sending", "reply"}
        BY <1>1, <3>3 DEF Send, Sent, HomeTypes, Calls, Active
      <4> QED BY <1>1, <2>3, <4>1 DEF Told, Decided, Active
    <3>4. CASE GuardEnds(t)
      <4>1. stage[t] = "guard" /\ request' = request
        BY <3>4 DEF GuardEnds
      <4> QED BY <1>1, <2>3, <4>1 DEF Told, Decided
    <3>5. CASE /\ Failed(t) /\ Active(t) /\ UNCHANGED request
      <4>1. \/ call[t].op \in {"send", "cancel"} /\ result'[t] = result[t]
            \/ result'[t] = "failed" /\ stage'[t] # "guard"
            \/ stage'[t] = "wait_service" /\ call'[t].op = "control"
        <5>1. CASE call[t].op = "arm" /\ Invoke(t, Primary, "control", None)
          BY <1>1, <5>1 DEF Invoke, HomeTypes, NoCall
        <5>2. CASE OfferFailed(t, call[t].payload)
          BY <1>1, <5>2 DEF OfferFailed, Invoke, HomeTypes
        <5>3. CASE call[t].op \in {"send", "cancel"} /\ Finish(t, result[t])
          BY <5>3 DEF Finish
        <5>4. CASE Finish(t, "failed")
          BY <1>1, <5>4 DEF Finish, HomeTypes
        <5> QED BY <3>5, <5>1, <5>2, <5>3, <5>4 DEF Failed
      <4>2. CASE call[t].op \in {"send", "cancel"} /\ result'[t] = result[t]
        <5>1. result[t] = "sent"
          <6>1. stage'[t] # "guard"
            BY <1>1, <3>5, <4>2, FailedGoesOn DEF GoesOn
          <6> QED BY <2>3, <4>2, <6>1 DEF Decided
        <5> QED BY <1>1, <2>3, <3>5, <4>2, <5>1 DEF Told, Decided
      <4> QED BY <2>3, <4>1, <4>2 DEF Decided
    <3>6. CASE Return(t) /\ Answered(t, call[t].got) /\ call[t].got.action # "error"
      <4>1. /\ stage[t] = "reply" /\ call[t].got # None /\ UNCHANGED request
            /\ call[t].at \notin stray /\ Active(t)
        BY <2>3, <3>6 DEF Return, Active
      <4>2. call[t].op \in {"control", "redundant_control"} => t \in Loud
        BY <1>1, <3>6, <4>1, OwnAcknowledgement
      <4>3. CASE call[t].op = "arm"
        <5>1. stage'[t] = "wait_service" /\ call'[t].op = "redundant_control"
          BY <1>1, <3>6, <4>3 DEF Answered, Invoke, HomeTypes, NoCall
        <5> QED BY <2>3, <5>1 DEF Decided
      <4>4. CASE call[t].op \in {"send", "cancel"}
        <5>1. Finish(t, result[t])
          BY <3>6, <4>4 DEF Answered
        <5>2. stage'[t] = "done" /\ result'[t] = result[t]
          BY <1>1, <5>1 DEF Finish, HomeTypes
        <5> QED BY <1>1, <2>3, <4>1, <4>4, <5>2 DEF Told, Decided
      <4>5. CASE call[t].op = "remote_alias"
        BY <1>1, <2>3, <4>1, <4>5 DEF CallSuits
      <4> QED BY <1>1, <3>6, <4>2, <4>3, <4>4, <4>5 DEF Answered
    <3> QED BY <1>5, <3>1, <3>2, <3>3, <3>4, <3>5, <3>6
            DEF TaskStep, Return, Timeout, Unavailable, Active
  <2> QED BY <1>2, <2>2, <2>3 DEF Told
<1> QED BY <1>4, <1>5 DEF Next

-----------------------------------------------------------------------------
(* The theorems *)

\* The types of what is told, of the connections and of the strays.
LEMMA OtherTypesStep ==
    ASSUME LockInv, HomeTypes, TasksInOrder, OtherTypes, Next
    PROVE  OtherTypes'
<1>1. /\ relayed \in BOOLEAN /\ completeAck \in BOOLEAN
      /\ result \in [Tasks -> {None, "sent", "failed"}]
      /\ connected \in [Bridges -> BOOLEAN]
      /\ drops \in 0 .. MaxDrops /\ stray \subseteq Bridges
  BY DEF OtherTypes
<1>2. UNCHANGED config
  BY DEF Next, TaskStep, Submit, AcquireRf, Send, Sent, Return, Timeout, Unavailable,
         GuardEnds, Firmware, Transmit, Transmitted, Arm, Acknowledge, Refuse, Ignore,
         Takes, Deliver, Disconnect, Reconnect
<1>3. ASSUME NEW t \in Tasks, TaskStep(t) \/ \E r \in Requests : Submit(t, r)
      PROVE  OtherTypes'
  <2>1. connected' = connected /\ drops' = drops
    BY <1>3 DEF TaskStep, Submit, AcquireRf, Send, Sent, Return, Timeout, Unavailable,
                GuardEnds, link
  <2>2. stray' \subseteq Bridges
    <3>1. CASE Timeout(t)
      <4>1. call[t].at \in Bridges
        BY <3>1 DEF Timeout, LockInv, Calling
      <4> QED BY <1>1, <3>1, <4>1 DEF Timeout
    <3>2. CASE ~Timeout(t)
      BY <1>1, <1>3, <3>2 DEF TaskStep, Submit, AcquireRf, Send, Sent, Return, Unavailable,
                              GuardEnds
    <3> QED BY <3>1, <3>2
  <2>3. \/ result' = result
        \/ \E r \in {None, "sent", "failed"} : result' = [result EXCEPT ![t] = r]
    <3>1. result[t] \in {None, "sent", "failed"}
      BY <1>1
    <3>2. CASE Failed(t) \/ \E s : Answered(t, s)
      BY <3>1, <3>2 DEF Failed, Answered, PrimaryAnswered, OfferFailed, Finish
    <3> QED BY <1>3, <3>2 DEF TaskStep, Submit, AcquireRf, Send, Sent, Return, Timeout,
                              Unavailable, GuardEnds, Finish
  <2>4. result' \in [Tasks -> {None, "sent", "failed"}]
    BY <1>1, <2>3
  <2> QED BY <1>1, <1>2, <2>1, <2>2, <2>4 DEF OtherTypes, config
<1>4. ASSUME NEW b \in Bridges, Firmware(b) \/ Deliver(b) PROVE OtherTypes'
  BY <1>1, <1>2, <1>4
     DEF Firmware, Transmit, Transmitted, Arm, Acknowledge, Refuse, Ignore, Takes, Deliver,
         config, home, link, OtherTypes
<1>5. ASSUME NEW b \in Bridges, Disconnect(b) PROVE OtherTypes'
  <2>1. /\ drops < MaxDrops /\ drops' = drops + 1 /\ result' = result
        /\ connected' = [connected EXCEPT ![b] = FALSE]
        /\ stray' = stray \cup {b}
    BY <1>5 DEF Disconnect, home
  <2>2. drops' \in 0 .. MaxDrops
    BY <1>1, <2>1, ControlAssumption
  <2> QED BY <1>1, <1>2, <1>5, <2>1, <2>2 DEF OtherTypes, config
<1>6. ASSUME NEW b \in Bridges, Reconnect(b) PROVE OtherTypes'
  BY <1>1, <1>2, <1>6 DEF Reconnect, OtherTypes, config, home
<1> QED BY <1>3, <1>4, <1>5, <1>6 DEF Next

\* The invariant holds initially.
LEMMA OrderInit == Init => OrderInv
<1> SUFFICES ASSUME Init PROVE OrderInv
  OBVIOUS
<1>1. /\ relayed \in BOOLEAN /\ completeAck \in BOOLEAN
      /\ request = [t \in Tasks |-> "open"] /\ stage = [t \in Tasks |-> "new"]
      /\ call = [t \in Tasks |-> NoCall] /\ result = [t \in Tasks |-> None]
      /\ last = [b \in Bridges |-> [action |-> "ready", event |-> 0, payload |-> None,
                                    answers |-> None]]
      /\ status = last /\ connected = [b \in Bridges |-> TRUE]
      /\ serviceLock = [b \in Bridges |-> None]
      /\ inbox = [b \in Bridges |-> <<>>] /\ wire = [b \in Bridges |-> <<>>]
      /\ radio = [b \in Bridges |-> None] /\ drops = 0 /\ stray = {}
  BY DEF Init
<1>2. TasksInOrder
  BY <1>1 DEF TasksInOrder, RadioLocked, CallSuits, Active, NoCall
<1>3. BridgesInOrder
  BY <1>1 DEF BridgesInOrder, InOrder, QueueInOrder, WireInOrder
<1>4. Truth
  BY <1>1 DEF Truth, EntityTrue, AirTrue, StatusTrue, NoCall
<1>5. Told
  BY <1>1 DEF Told, Decided, Active
<1>6. OtherTypes
  BY <1>1, ControlAssumption DEF OtherTypes
<1> QED BY <1>2, <1>3, <1>4, <1>5, <1>6, RelayInit DEF OrderInv

\* Every step keeps the bridges in order.
LEMMA BridgesStep == ASSUME OrderInv, Next PROVE BridgesInOrder'
<1>1. /\ LockInv /\ HomeTypes /\ NodeTypes /\ CallsFit /\ Placed
      /\ TasksInOrder /\ BridgesInOrder
  BY DEF OrderInv, RelayInv, OnceInv, Relay
<1>2. connected \in [Bridges -> BOOLEAN]
  BY DEF OrderInv, OtherTypes
<1>3. ASSUME NEW t \in Tasks, TaskStep(t) \/ \E r \in Requests : Submit(t, r)
      PROVE  BridgesInOrder'
  BY <1>1, <1>3, BeforeCall, SendOrder, SentOrder, EndOfCallOrder, GuardOrder DEF TaskStep
<1>4. ASSUME NEW b \in Bridges,
             Firmware(b) \/ Deliver(b) \/ Disconnect(b) \/ Reconnect(b)
      PROVE  BridgesInOrder'
  BY <1>1, <1>2, <1>4, FirmwareOrder, DeliverOrder, LinkOrder
<1> QED BY <1>3, <1>4 DEF Next

\* Every step keeps the invariant.
LEMMA OrderStep == OrderInv /\ [Next]_vars => OrderInv'
<1> SUFFICES ASSUME OrderInv, [Next]_vars PROVE OrderInv'
  OBVIOUS
<1>1. RelayInv'
  BY RelayStep DEF OrderInv
<1>2. CASE UNCHANGED vars
  <2>1. UNCHANGED <<config, home, node, link, stray>>
    BY <1>2 DEF vars
  <2>2. TasksInOrder'
    BY <2>1 DEF OrderInv, TasksInOrder, RadioLocked, CallSuits, Active, Gesture, home, config
  <2>3. BridgesInOrder'
    BY <2>1 DEF OrderInv, BridgesInOrder, InOrder, QueueInOrder, WireInOrder, Guarded, Called,
                Waiting, Answer, Gesture, home, node, link, config
  <2>4. Loud' = Loud
    BY <2>1 DEF Loud, Owner, node, home
  <2>5. Truth'
    BY <2>1, <2>4 DEF OrderInv, Truth, EntityTrue, AirTrue, home, node, link
  <2>6. Told'
    BY <2>1, <2>4 DEF OrderInv, Told, Decided, Active, home
  <2>7. OtherTypes'
    BY <2>1 DEF OrderInv, OtherTypes, config, home, link
  <2> QED BY <1>1, <2>2, <2>3, <2>5, <2>6, <2>7 DEF OrderInv
<1>3. CASE Next
  <2>1. /\ OnceInv /\ Placed /\ TasksInOrder /\ BridgesInOrder /\ Truth /\ Told
        /\ OtherTypes /\ LockInv /\ HomeTypes /\ CallsFit
        /\ result \in [Tasks -> {None, "sent", "failed"}]
    BY DEF OrderInv, RelayInv, OnceInv, Relay, OtherTypes
  <2>2. TasksInOrder' /\ OtherTypes'
    BY <1>3, <2>1, TasksStep, OtherTypesStep
  <2>3. Truth' /\ Told'
    BY <1>3, <2>1, TruthStep, ToldStep
  <2> QED BY <1>1, <1>3, <2>2, <2>3, BridgesStep DEF OrderInv
<1> QED BY <1>2, <1>3

\* The invariant holds in every reachable state.
LEMMA AlwaysInOrder == Spec => []OrderInv
BY OrderInit, OrderStep, PTL DEF Spec

\* Every variable has its type in every reachable state, and a task has a call
\* exactly while it waits for a service lock, sends or waits for the answer
\* (_async_call_unlocked, and what _async_control_locked does around it).
THEOREM WellTyped == Spec => []TypeOK
<1>1. OrderInv => TypeOK
  <2> SUFFICES ASSUME OrderInv PROVE TypeOK
    OBVIOUS
  <2>1. LockInv /\ HomeTypes /\ NodeTypes /\ TasksInOrder /\ OtherTypes /\ Arms
    BY DEF OrderInv, RelayInv, OnceInv, Relay
  <2>2. ASSUME NEW b \in Bridges
        PROVE  /\ status[b] # None => status[b] \in Statuses
               /\ last[b] \in Statuses
               /\ \A i \in DOMAIN inbox[b] : inbox[b][i] \in Commands
               /\ \A i \in DOMAIN wire[b] : wire[b][i] \in Statuses
    BY <2>1 DEF HomeTypes, NodeTypes
  <2>3. ASSUME NEW t \in Tasks
        PROVE  call[t].at # None <=> stage[t] \in {"wait_service", "sending", "reply"}
    BY <2>1 DEF TasksInOrder, CallSuits, Active
  <2> QED
    BY <2>1, <2>2, <2>3
       DEF TypeOK, LockInv, LockTypes, HomeTypes, NodeTypes, OtherTypes, Arms
<1> QED BY <1>1, AlwaysInOrder, PTL

\* The radio lock keeps the two bridges from transmitting at the same time, for any
\* number of tasks: a bridge transmits for the task that calls it or waits out its
\* gesture, and that task has the radio lock.  Nothing else transmits unless a
\* command or an answer outlived its call or its connection.
THEOREM OneAtATime == Spec => []OneTransmitter
<1>1. OrderInv => OneTransmitter
  <2> SUFFICES ASSUME OrderInv, stray = {}, radio[Primary] # None, radio[Secondary] # None
               PROVE  FALSE
    BY DEF OneTransmitter
  <2>1. LockInv /\ NodeTypes /\ TasksInOrder /\ BridgesInOrder
    BY DEF OrderInv, RelayInv, OnceInv
  <2>2. ASSUME NEW b \in Bridges, radio[b] # None
        PROVE  /\ rfLock = radio[b].task /\ radio[b].task \in Tasks
               /\ Guarded(b) \/ call[radio[b].task].at = b
               /\ stage[radio[b].task] = "guard" <=> Guarded(b)
    <3>1. (Guarded(b) \/ Called(b)) /\ radio[b].task \in Tasks
      BY <2>1, <2>2, OfTasks DEF BridgesInOrder, InOrder
    <3>2. RadioLocked(radio[b].task)
      BY <2>1, <3>1 DEF TasksInOrder
    <3>3. CASE Guarded(b)
      BY <3>1, <3>2, <3>3 DEF Guarded, RadioLocked
    <3>4. CASE Called(b)
      <4>1. serviceLock[b] = radio[b].task /\ serviceLock[b] # None
        BY <3>1, <3>4, NobodyAtNone DEF Called
      <4>2. stage[radio[b].task] \in {"sending", "reply"} /\ call[radio[b].task].at = b
        BY <2>1, <4>1, Holder
      <4>3. rfLock = radio[b].task
        BY <3>2, <3>4, <4>1, <4>2 DEF RadioLocked, Called, Active
      <4> QED BY <3>1, <4>2, <4>3 DEF Guarded
    <3> QED BY <3>1, <3>3, <3>4
  <2>3. radio[Primary].task = radio[Secondary].task
    BY <2>2, Ends
  <2>4. ~Guarded(Secondary)
    BY NobodyAtNone DEF Guarded
  <2>5. call[radio[Primary].task].at = Primary
    BY <2>2, <2>3, <2>4, Ends
  <2> QED BY <2>2, <2>3, <2>4, <2>5, Ends, NobodyAtNone
<1> QED BY <1>1, AlwaysInOrder, PTL

\* The status that _async_call_unlocked takes for the answer to a command belongs to
\* that command, for any number of tasks that share the bridge, although nothing in
\* it names the call: only an earlier command of this bridge that outlived its call,
\* or a lost connection, can make it another one's.
THEOREM AnswerOfItsOwn == Spec => []OwnAnswer
<1>1. OrderInv => OwnAnswer
  <2> SUFFICES ASSUME OrderInv, NEW t \in Tasks, call[t].got # None,
                      call[t].at \notin stray
               PROVE  call[t].got.answers = t
    BY DEF OwnAnswer
  <2>1. LockInv /\ CallsFit /\ TasksInOrder /\ BridgesInOrder /\ Truth
    BY DEF OrderInv, RelayInv, OnceInv
  <2> QED BY <2>1, OwnAcknowledgement
<1> QED BY <1>1, AlwaysInOrder, PTL

\* A command that is reported as sent has been transmitted by the owner, once, for
\* any number of tasks, with a relay or without: _async_control_locked returns
\* without an error only after the primary acknowledged it (while nothing strayed).
THEOREM TrulyTold == Spec => []ToldTruth
<1>1. OrderInv => ToldTruth
  <2> SUFFICES ASSUME OrderInv, NEW t \in Controls, stage[t] = "done", result[t] = "sent",
                      stray = {}
               PROVE  sent[t][Owner(t)] = 1
    BY DEF ToldTruth
  <2>1. t \in Tasks /\ t \in Loud
    BY DEF OrderInv, Controls, Told, Decided
  <2>2. sent[t][Owner(t)] <= 1 /\ sent[t][Owner(t)] >= 1
    BY <2>1 DEF Loud, OrderInv, RelayInv, OnceInv, Budgets, Budget
  <2>3. sent[t][Owner(t)] \in Nat
    BY <2>1, Ends DEF OrderInv, RelayInv, OnceInv, NodeTypes, Owner
  <2> QED BY <2>2, <2>3
<1> QED BY <1>1, AlwaysInOrder, PTL

=============================================================================
