------------------------------- MODULE Control -------------------------------
(***************************************************************************)
(* One cover command: the radio lock of the coordinator, the exact-frame   *)
(* relay through a secondary bridge (_async_control_locked), and below it  *)
(* the calls of the two runtimes: service lock, command, and the status    *)
(* event that is taken for its answer (_async_call_unlocked).  The         *)
(* firmware, its radio and the ESPHome connection are external.            *)
(*                                                                         *)
(* Simplifications                                                         *)
(*   - One shutter with a primary and perhaps a secondary bridge, another  *)
(*     of the secondary bridge alone.  Their metadata do not change, and   *)
(*     every command and status is of the one slot of its bridge.          *)
(*   - The action of a status is named after the command it answers.       *)
(*   - A task makes one request and is then over.                          *)
(***************************************************************************)
EXTENDS Naturals, Sequences

CONSTANTS
    Tasks,
    Primary, Secondary,  \* the bridges
    None,
    MaxDrops             \* bound: lost connections

ASSUME ControlAssumption ==
    /\ MaxDrops \in Nat
    /\ None \notin Tasks \cup {Primary, Secondary}
    /\ Primary # Secondary

Bridges == {Primary, Secondary}

VARIABLES
    relayed,      \* a secondary is assigned
    completeAck,  \* the primary reports the end of a MY gesture
    request,      \* what each task was asked to do
    stage,        \* where each task is
    call,         \* the call each task makes
    result,       \* what the task will tell, or has told
    rfLock,       \* _rf_lock
    serviceLock,  \* _service_lock of each runtime
    status,       \* the status entity of each bridge, None when unusable
    connected,    \* the ESPHome connection
    inbox,        \* commands sent to each bridge
    radio,        \* the command each bridge is transmitting
    armed,        \* the relay token each bridge would accept
    wire,         \* statuses on their way to Home Assistant
    last,         \* the status each bridge published last
    counter,      \* its event counter
    sent,         \* how often a bridge transmitted the frame of a task
    drops,        \* connections lost so far
    stray         \* bridges on which a command or answer may outlive its call

home == <<request, stage, call, result, rfLock, serviceLock>>
node == <<inbox, radio, armed, wire, last, counter, sent>>
link == <<status, connected, drops>>
config == <<relayed, completeAck>>
vars == <<config, home, node, link, stray>>

-----------------------------------------------------------------------------
(* Values *)

\* "other" is a command for a shutter of the other bridge, without a secondary.
Requests == {"open", "my", "other", "alias"}
Operations == {"control", "arm", "redundant_control", "send", "cancel", "remote_alias"}

\* A relay token is named after the task whose `arm` made it; an envelope holds a
\* token and the frame of a task.
Tokens == Tasks \cup {None}
Envelopes == Tokens \X Tasks
Payloads == Tokens \cup Envelopes
Commands == [task : Tasks, op : Operations, payload : Payloads]

\* A status: the event counter is left out of the compact ones.  `answers` is the
\* task whose command it answers.
Statuses == [action : Operations \cup {"error", "ready"}, event : Nat \cup {None},
             payload : Payloads, answers : Tokens]
Raw(s) == IF s = None THEN None ELSE <<s.action, s.event, s.payload>>

Stages == {"new", "wait_rf", "wait_service", "sending", "reply", "guard", "done"}

NoCall == [at |-> None, op |-> "control", payload |-> None, before |-> None, got |-> None]
Calls == [at : Bridges \cup {None}, op : Operations, payload : Payloads,
          before : Statuses \cup {None}, got : Statuses \cup {None}]

Controls == {t \in Tasks : request[t] # "alias"}
Owner(t) == IF request[t] = "other" THEN Secondary ELSE Primary

-----------------------------------------------------------------------------
(* async_call *)

\* The task calls bridge b and waits for its service lock.
Invoke(t, b, op, payload) ==
    /\ call' = [call EXCEPT ![t] = [NoCall EXCEPT !.at = b, !.op = op, !.payload = payload]]
    /\ stage' = [stage EXCEPT ![t] = "wait_service"]
    /\ UNCHANGED rfLock

\* Mutant: the listener of the call is not removed.
FinishListening(t, r) ==
    /\ result' = [result EXCEPT ![t] = r]
    /\ stage' = [stage EXCEPT ![t] = "done"]
    /\ rfLock' = IF rfLock = t THEN None ELSE rfLock
    /\ UNCHANGED call

\* The task returns or raises.
Finish(t, r) ==
    /\ result' = [result EXCEPT ![t] = r]
    /\ stage' = [stage EXCEPT ![t] = "done"]
    /\ call' = [call EXCEPT ![t] = NoCall]
    /\ rfLock' = IF rfLock = t THEN None ELSE rfLock

\* Mutant: every status counts as an answer.
AnyIsNew(before, s) == s # None

\* status_response_is_new
IsNew(before, s) ==
    /\ s # None
    /\ IF before # None /\ before.event # None /\ s.event # None
       THEN s.event # before.event
       ELSE Raw(s) # Raw(before)

\* The status is taken for the answer of the call c.
Answers(c, s) == IsNew(c.before, s) /\ s.action \in {c.op, "error"}

\* The lock is free: remember the status there was and send the command.
Send(t) ==
    LET b == call[t].at
    IN  /\ stage[t] = "wait_service"
        /\ serviceLock[b] = None
        /\ connected[b]
        /\ serviceLock' = [serviceLock EXCEPT ![b] = t]
        /\ call' = [call EXCEPT ![t].before = status[b]]
        /\ inbox' = [inbox EXCEPT ![b] =
              Append(@, [task |-> t, op |-> call[t].op, payload |-> call[t].payload])]
        /\ stage' = [stage EXCEPT ![t] = "sending"]
        /\ UNCHANGED <<config, request, result, rfLock, radio, armed, wire, last,
                       counter, sent, link, stray>>

\* The service call has returned: the status that is there now may be the answer.
Sent(t) ==
    /\ stage[t] = "sending"
    /\ stage' = [stage EXCEPT ![t] = "reply"]
    /\ call' = IF call[t].got = None /\ Answers(call[t], status[call[t].at])
               THEN [call EXCEPT ![t].got = status[call[t].at]]
               ELSE call
    /\ UNCHANGED <<config, request, result, rfLock, serviceLock, node, link, stray>>

-----------------------------------------------------------------------------
(* _async_control_locked *)

\* Mutant: without an offer the primary sends the command by itself.
OfferRepeated(t, token) == Invoke(t, Primary, "control", None) /\ UNCHANGED result

\* Mutant: the error of the primary is suppressed as well.
OfferFailedQuietly(t, token) ==
    /\ Invoke(t, Secondary, "cancel", token)
    /\ result' = [result EXCEPT ![t] = "sent"]

\* The primary did not answer: the token is given back and the command fails.
OfferFailed(t, token) ==
    /\ Invoke(t, Secondary, "cancel", token)
    /\ result' = [result EXCEPT ![t] = "failed"]

\* Mutant: the radio lock is given back as soon as MY is accepted.
PrimaryAnsweredAtOnce(t) == Finish(t, "sent")

\* Firmware that acknowledges only the start of MY is left alone for a while.
PrimaryAnswered(t) ==
    IF request[t] = "my" /\ ~completeAck
    THEN /\ stage' = [stage EXCEPT ![t] = "guard"]
         /\ call' = [call EXCEPT ![t] = NoCall]
         /\ UNCHANGED <<result, rfLock>>
    ELSE Finish(t, "sent")

\* What follows the answer s of t's call.
Answered(t, s) ==
    \/ call[t].op = "arm" /\ Invoke(t, Primary, "redundant_control", s.payload)
                          /\ UNCHANGED result
    \/ /\ call[t].op = "redundant_control"
       /\ s.payload # None
       /\ Invoke(t, Secondary, "send", s.payload)
       /\ result' = [result EXCEPT ![t] = "sent"]
    \/ /\ call[t].op = "redundant_control"
       /\ s.payload = None
       /\ Invoke(t, Secondary, "cancel", call[t].payload)
       /\ result' = [result EXCEPT ![t] = "sent"]
    \/ call[t].op = "control" /\ PrimaryAnswered(t)
    \/ call[t].op \in {"send", "cancel"} /\ Finish(t, result[t])
    \/ call[t].op = "remote_alias" /\ Finish(t, "sent")

\* Mutant: a relay that fails is replaced by a fresh command.
FailedAfresh(t) ==
    \/ call[t].op = "send" /\ Invoke(t, Secondary, "control", None) /\ UNCHANGED result
    \/ call[t].op = "arm" /\ Invoke(t, Primary, "control", None) /\ UNCHANGED result
    \/ call[t].op \in {"control", "redundant_control", "cancel", "remote_alias"}
       /\ Finish(t, "failed")

\* What follows a ManagerError: only the primary's failures are the command's.
Failed(t) ==
    \/ call[t].op = "arm" /\ Invoke(t, Primary, "control", None) /\ UNCHANGED result
    \/ call[t].op = "redundant_control" /\ OfferFailed(t, call[t].payload)
    \/ call[t].op \in {"send", "cancel"} /\ Finish(t, result[t])
    \/ call[t].op \in {"control", "remote_alias"} /\ Finish(t, "failed")

Submit(t, r) ==
    /\ stage[t] = "new"
    /\ request' = [request EXCEPT ![t] = r]
    /\ IF r = "alias"
       THEN \E b \in Bridges : Invoke(t, b, "remote_alias", None)
       ELSE stage' = [stage EXCEPT ![t] = "wait_rf"] /\ UNCHANGED <<call, rfLock>>
    /\ UNCHANGED <<config, result, serviceLock, node, link, stray>>

\* Under the radio lock: only what may be repeated is relayed, and only through
\* a secondary that is there.
AcquireRf(t) ==
    /\ stage[t] = "wait_rf"
    /\ rfLock = None
    /\ rfLock' = t
    /\ LET relay == request[t] = "open" /\ relayed /\ status[Secondary] # None
       IN  call' = [call EXCEPT ![t] = [NoCall EXCEPT
                      !.at = IF relay THEN Secondary ELSE Owner(t),
                      !.op = IF relay THEN "arm" ELSE "control"]]
    /\ stage' = [stage EXCEPT ![t] = "wait_service"]
    /\ UNCHANGED <<config, request, result, serviceLock, node, link, stray>>

Release(t) == serviceLock' = [serviceLock EXCEPT ![call[t].at] = None]

\* The future is done: the call returns its status, or raises for an error.
Return(t) ==
    /\ stage[t] = "reply"
    /\ call[t].got # None
    /\ Release(t)
    /\ IF call[t].got.action = "error" THEN Failed(t) ELSE Answered(t, call[t].got)
    /\ UNCHANGED <<config, request, node, link, stray>>

\* Mutant: a call that times out keeps its service lock.
TimeoutKeepingLock(t) ==
    /\ stage[t] = "reply"
    /\ call[t].got = None
    /\ Failed(t)
    /\ UNCHANGED <<config, request, serviceLock, node, link, stray>>

\* No answer came.  The command, or its answer, may still be under way.
Outlives(t, b) ==
    \/ \E i \in DOMAIN inbox[b] : inbox[b][i].task = t
    \/ radio[b] # None /\ radio[b].task = t
    \/ \E i \in DOMAIN wire[b] : wire[b][i].answers = t

Timeout(t) ==
    /\ stage[t] = "reply"
    /\ call[t].got = None
    /\ Release(t)
    /\ Failed(t)
    /\ stray' = IF Outlives(t, call[t].at) THEN stray \cup {call[t].at} ELSE stray
    /\ UNCHANGED <<config, request, node, link>>

\* Home Assistant cannot reach the bridge.
Unavailable(t) ==
    /\ stage[t] = "wait_service"
    /\ serviceLock[call[t].at] = None
    /\ ~connected[call[t].at]
    /\ Failed(t)
    /\ UNCHANGED <<config, request, serviceLock, node, link, stray>>

\* MY_RADIO_GUARD_SECONDS are enough for the gesture.
GuardEnds(t) ==
    /\ stage[t] = "guard"
    /\ radio[Primary] # None => radio[Primary].task # t
    /\ Finish(t, "sent")
    /\ UNCHANGED <<config, request, serviceLock, node, link, stray>>

-----------------------------------------------------------------------------
(* The firmware *)

\* A status is published; without a connection nobody sees it.
Publish(b, action, payload, t) ==
    LET s == [action |-> action, payload |-> payload, answers |-> t,
              event |-> IF action = "redundant_control" THEN None ELSE counter[b] + 1]
    IN  /\ counter' = [counter EXCEPT ![b] = @ + 1]
        /\ last' = [last EXCEPT ![b] = s]
        /\ wire' = IF connected[b] THEN [wire EXCEPT ![b] = Append(@, s)] ELSE wire

Silent == UNCHANGED <<wire, last, counter>>

\* The bridge takes its next command, c, from the connection.
Takes(b) ==
    /\ radio[b] = None
    /\ inbox' = [inbox EXCEPT ![b] = Tail(@)]
    /\ UNCHANGED <<config, home, link, stray>>

\* A frame is transmitted, which takes a while.  Only MY is acknowledged before.
Transmit(b, c) ==
    /\ Takes(b)
    /\ \/ c.op \in {"control", "redundant_control"} /\ UNCHANGED armed
       \/ /\ c.op = "send" /\ armed[b] = c.payload[1]
          /\ armed' = [armed EXCEPT ![b] = None]
    /\ radio' = [radio EXCEPT ![b] = c]
    /\ LET frame == IF c.op = "send" THEN c.payload[2] ELSE c.task
       IN  sent' = [sent EXCEPT ![frame][b] = @ + 1]
    /\ IF request[c.task] = "my" /\ ~completeAck
       THEN Publish(b, c.op, None, c.task) ELSE Silent

\* The frame is out.  An offer carries the envelope, unless there is none.
Transmitted(b) ==
    /\ radio[b] # None
    /\ radio' = [radio EXCEPT ![b] = None]
    /\ LET c == radio[b]
       IN  IF request[c.task] = "my" /\ ~completeAck THEN Silent
           ELSE \E payload \in IF c.op = "redundant_control"
                               THEN {None, <<c.payload, c.task>>} ELSE {None} :
                   Publish(b, c.op, payload, c.task)
    /\ UNCHANGED <<config, home, link, stray, inbox, armed, sent>>

\* Commands that transmit nothing.
Arm(b, c) ==
    /\ Takes(b) /\ c.op = "arm"
    /\ armed' = [armed EXCEPT ![b] = c.task]
    /\ Publish(b, "arm", c.task, c.task)
    /\ UNCHANGED <<radio, sent>>

Acknowledge(b, c) ==
    /\ Takes(b) /\ c.op \in {"cancel", "remote_alias"}
    /\ armed' = IF c.op = "cancel" /\ armed[b] = c.payload
                THEN [armed EXCEPT ![b] = None] ELSE armed
    /\ Publish(b, c.op, None, c.task)
    /\ UNCHANGED <<radio, sent>>

Refuse(b, c) ==
    /\ Takes(b)
    /\ Publish(b, "error", None, c.task)
    /\ UNCHANGED <<radio, armed, sent>>

Ignore(b, c) ==
    /\ Takes(b)
    /\ Silent
    /\ UNCHANGED <<radio, armed, sent>>

-----------------------------------------------------------------------------
(* The status entity *)

\* The call under way on b takes the new status for its answer.
Notice(b, s) ==
    call' = [t \in Tasks |->
        IF /\ serviceLock[b] = t /\ stage[t] \in {"sending", "reply"}
           /\ call[t].got = None /\ Answers(call[t], s)
        THEN [call[t] EXCEPT !.got = s] ELSE call[t]]

\* A published status reaches the entity.  The same text again is no change.
Deliver(b) ==
    /\ wire[b] # <<>>
    /\ wire' = [wire EXCEPT ![b] = Tail(@)]
    /\ status' = [status EXCEPT ![b] = Head(wire[b])]
    /\ IF Raw(Head(wire[b])) = Raw(status[b]) THEN UNCHANGED call
       ELSE Notice(b, Head(wire[b]))
    /\ UNCHANGED <<config, request, stage, result, rfLock, serviceLock, inbox, radio,
                   armed, last, counter, sent, connected, drops, stray>>

\* The connection is lost, and statuses on it; the bridge may have restarted.
Disconnect(b) ==
    /\ connected[b]
    /\ drops < MaxDrops
    /\ drops' = drops + 1
    /\ connected' = [connected EXCEPT ![b] = FALSE]
    /\ status' = [status EXCEPT ![b] = None]
    /\ stray' = stray \cup {b}
    /\ wire' = [wire EXCEPT ![b] = <<>>]
    /\ \/ UNCHANGED <<inbox, radio, armed, last, counter>>
       \/ /\ inbox' = [inbox EXCEPT ![b] = <<>>]
          /\ radio' = [radio EXCEPT ![b] = None]
          /\ armed' = [armed EXCEPT ![b] = None]
          /\ last' = [last EXCEPT ![b] = [action |-> "ready", event |-> 0,
                                          payload |-> None, answers |-> None]]
          /\ counter' = [counter EXCEPT ![b] = 0]
    /\ UNCHANGED <<config, home, sent>>

\* The bridge publishes its last status again.
Reconnect(b) ==
    /\ ~connected[b]
    /\ connected' = [connected EXCEPT ![b] = TRUE]
    /\ wire' = [wire EXCEPT ![b] = <<last[b]>>]
    /\ UNCHANGED <<config, home, inbox, radio, armed, last, counter, sent, status,
                   drops, stray>>

-----------------------------------------------------------------------------
(* The system *)

Init ==
    /\ relayed \in BOOLEAN
    /\ completeAck \in BOOLEAN
    /\ relayed => completeAck  \* firmware that relays has all of the newer interface
    /\ request = [t \in Tasks |-> "open"]
    /\ stage = [t \in Tasks |-> "new"]
    /\ call = [t \in Tasks |-> NoCall]
    /\ result = [t \in Tasks |-> None]
    /\ rfLock = None
    /\ serviceLock = [b \in Bridges |-> None]
    /\ last = [b \in Bridges |-> [action |-> "ready", event |-> 0, payload |-> None,
                                  answers |-> None]]
    /\ status = last
    /\ connected = [b \in Bridges |-> TRUE]
    /\ inbox = [b \in Bridges |-> <<>>]
    /\ radio = [b \in Bridges |-> None]
    /\ armed = [b \in Bridges |-> None]
    /\ wire = [b \in Bridges |-> <<>>]
    /\ counter = [b \in Bridges |-> 0]
    /\ sent = [t \in Tasks |-> [b \in Bridges |-> 0]]
    /\ drops = 0
    /\ stray = {}

TaskStep(t) ==
    \/ AcquireRf(t) \/ Send(t) \/ Unavailable(t) \/ Sent(t)
    \/ Return(t) \/ Timeout(t) \/ GuardEnds(t)

Firmware(b) ==
    \/ /\ inbox[b] # <<>>
       /\ LET c == Head(inbox[b])
          IN  \/ Transmit(b, c) \/ Arm(b, c) \/ Acknowledge(b, c)
              \/ Refuse(b, c) \/ Ignore(b, c)
    \/ Transmitted(b)

Next ==
    \/ \E t \in Tasks : TaskStep(t) \/ \E r \in Requests : Submit(t, r)
    \/ \E b \in Bridges : Firmware(b) \/ Deliver(b) \/ Disconnect(b) \/ Reconnect(b)

Spec == Init /\ [][Next]_vars

-----------------------------------------------------------------------------
(* Properties *)

\* Every variable has its type, and a task has a call exactly while it makes it.
TypeOK ==
    /\ relayed \in BOOLEAN /\ completeAck \in BOOLEAN
    /\ request \in [Tasks -> Requests]
    /\ stage \in [Tasks -> Stages]
    /\ call \in [Tasks -> Calls]
    /\ \A t \in Tasks :
          call[t].at # None <=> stage[t] \in {"wait_service", "sending", "reply"}
    /\ result \in [Tasks -> {None, "sent", "failed"}]
    /\ rfLock \in Tokens
    /\ serviceLock \in [Bridges -> Tokens]
    /\ \A b \in Bridges :
          /\ status[b] # None => status[b] \in Statuses
          /\ last[b] \in Statuses
          /\ \A i \in DOMAIN inbox[b] : inbox[b][i] \in Commands
          /\ \A i \in DOMAIN wire[b] : wire[b][i] \in Statuses
    /\ connected \in [Bridges -> BOOLEAN]
    /\ radio \in [Bridges -> Commands \cup {None}]
    /\ armed \in [Bridges -> Tokens]
    /\ counter \in [Bridges -> Nat]
    /\ sent \in [Tasks -> [Bridges -> Nat]]
    /\ drops \in 0 .. MaxDrops
    /\ stray \subseteq Bridges

\* Whatever happens to the secondary or to any answer, the owner transmits a
\* command at most once: "Do not report the user command as failed or generate
\* a fresh replacement" (coordinator.py:334).
PrimaryOnce == \A t \in Tasks : sent[t][Owner(t)] <= 1

\* The secondary repeats at most once, and only a frame the primary has sent.
RelayExact ==
    \A t \in Tasks : request[t] # "other" => sent[t][Secondary] <= sent[t][Primary]

\* The radio lock "stops two HA-triggered bridges from transmitting over each
\* other" (docs/future-multi-bridge.md), unless a command outlives its call.
OneTransmitter ==
    stray = {} => radio[Primary] = None \/ radio[Secondary] = None

\* "Call a manager action and wait for its matching status event"
\* (runtime.py:317): the answer a call takes belongs to its own command, unless an
\* earlier command of that bridge outlived its call or its connection was lost.
OwnAnswer ==
    \A t \in Tasks : call[t].got # None /\ call[t].at \notin stray
                        => call[t].got.answers = t

\* A command reported as sent has been transmitted by the owner.
ToldTruth ==
    \A t \in Controls : stage[t] = "done" /\ result[t] = "sent" /\ stray = {}
                           => sent[t][Owner(t)] = 1

\* Nobody waits in a circle, and no call that failed keeps a lock: who holds a
\* service lock is making that call and waits for no other lock, and who holds the
\* radio lock waits for nothing but a service lock or an answer.
LocksServe ==
    /\ rfLock # None => stage[rfLock] \in {"wait_service", "sending", "reply", "guard"}
    /\ \A b \in Bridges : serviceLock[b] # None =>
          /\ stage[serviceLock[b]] \in {"sending", "reply"}
          /\ call[serviceLock[b]].at = b

=============================================================================
