-------------------------- MODULE ObservationProofs --------------------------
(***************************************************************************)
(* TypeOK, OneEvent, UpdatesOnce and EstimatorOnce hold of Spec for any    *)
(* bridges and shutters, any number of presses and of reports on their     *)
(* way, and any timing in which a report is stale when a key is forgotten. *)
(*                                                                         *)
(*   Fits      what is on its way, collected, routed or remembered is of   *)
(*             frames that were sent, and no two frames have a number in   *)
(*             common: a key tells the frame and the press.                *)
(*   OnceInv   a frame is in its bucket, in one task or done with; once    *)
(*             its event is begun its key is remembered until every copy   *)
(*             of it, on its way or still a bridge's status, is stale.     *)
(*   CleanInv  a press that nothing went wrong with is waiting, collected, *)
(*             served or done, and what has moved is what its stage says.  *)
(***************************************************************************)
EXTENDS Observation, FiniteSetTheorems, TLAPS

\* The assumptions on the constants, one by one.
LEMMA Bounds ==
    /\ MaxPresses \in Nat /\ MaxReports \in Nat /\ SeqMod \in Nat /\ Window \in Nat
    /\ Cache \in Nat /\ MaxDelay \in Nat
    /\ 0 < SeqMod /\ 2 * MaxPresses <= SeqMod /\ 0 < Window
    /\ 0 < MaxDelay /\ MaxDelay <= Cache
    /\ SeqMod - 1 \in Sequences
  BY ObservationAssumption DEF ObservationAssumption, Sequences

\* A set with two different elements has at least two.
LEMMA TwoElements ==
    ASSUME NEW S, IsFiniteSet(S), NEW p \in S, NEW q \in S, p # q
    PROVE  Cardinality(S) \in Nat /\ Cardinality(S) >= 2
<1> DEFINE R == S \ {p}
<1>1. IsFiniteSet(R) /\ q \in R /\ p \notin R /\ R \cup {p} = S
  BY FS_Difference
<1>2. Cardinality(R) \in Nat /\ Cardinality(R) # 0
  <2>1. R # {}
    BY <1>1
  <2> QED
    BY ONLY <1>1, <2>1, FS_EmptySet, FS_CardinalityType
<1>3. Cardinality(S) = Cardinality(R) + 1
  <2>1. S = R \cup {p}
    BY <1>1
  <2>2. Cardinality(R \cup {p}) = Cardinality(R) + 1
    <3> HIDE DEF R
    <3> QED
      BY ONLY <1>1, FS_AddElement
  <2> QED
    BY <2>1, <2>2
<1> HIDE DEF R
<1> QED
  BY ONLY <1>2, <1>3

\* The numbers go round.
LEMMA NextNumber ==
    ASSUME NEW n \in Sequences
    PROVE  After(n) = (IF n = SeqMod - 1 THEN 0 ELSE n + 1) /\ After(n) \in Sequences
<1>1. n \in Nat /\ SeqMod \in Nat /\ 0 < SeqMod /\ n + 1 <= SeqMod
  BY Bounds DEF Sequences
<1>2. CASE n = SeqMod - 1
  <2>1. (n + 1) % SeqMod = 0
    BY <1>1, <1>2
  <2> QED
    BY <2>1, <1>1, <1>2 DEF After, Sequences
<1>3. CASE n # SeqMod - 1
  <2>1. (n + 1) % SeqMod = n + 1
    BY <1>1, <1>3
  <2> QED
    BY <2>1, <1>1, <1>3 DEF After, Sequences
<1> QED
  BY <1>2, <1>3

-----------------------------------------------------------------------------
(* Types *)

\* What the record of a press, of a report and of a bucket says.
LEMMA PressFields ==
    ASSUME NEW x \in PressRecords
    PROVE  /\ x = [kind |-> x.kind, first |-> x.first, by |-> x.by] /\ x # None
           /\ x.kind \in Kinds /\ x.first \in Sequences /\ x.by \subseteq Bridges
  BY NoneIsNoValue DEF PressRecords, NoneIsNoValue

LEMMA ReportFields ==
    ASSUME NEW r \in Reports
    PROVE  /\ r.by \in Bridges /\ r.press \in Presses /\ r.part \in Parts
           /\ r.complete \in BOOLEAN /\ r.left \in 0 .. MaxDelay
  BY DEF Reports

LEMMA BucketFields ==
    ASSUME NEW b \in Buckets
    PROVE  /\ b # None /\ b.sources \subseteq Bridges /\ b.completeSources \subseteq Bridges
           /\ b.complete \in BOOLEAN /\ b.left \in 0 .. Window
           /\ b.presses \subseteq Presses /\ b.part \in Parts
  BY NoneIsNoValue DEF Buckets, NoneIsNoValue

\* A bucket that gets one more copy.
LEMMA JoinedTyped ==
    ASSUME NEW b \in Buckets, NEW r \in Reports
    PROVE  /\ Joined(b, r) \in Buckets
           /\ Joined(b, r).sources = b.sources \cup {r.by}
           /\ Joined(b, r).completeSources =
                 b.completeSources \cup (IF r.complete THEN {r.by} ELSE {})
           /\ Joined(b, r).complete = (b.complete \/ r.complete)
           /\ Joined(b, r).presses = b.presses \cup {r.press}
           /\ Joined(b, r).left = b.left /\ Joined(b, r).part = b.part
<1>1. r.by \in Bridges /\ r.press \in Presses /\ r.complete \in BOOLEAN
  BY ReportFields
<1>2. Joined(b, r) \in Buckets
  <2>1. (b.complete \/ r.complete) \in BOOLEAN
    BY <1>1, BucketFields
  <2>2. (IF r.complete THEN b.completeSources \cup {r.by} ELSE b.completeSources)
           \in SUBSET Bridges
    BY <1>1, BucketFields
  <2> QED
    BY <1>1, <2>1, <2>2 DEF Buckets, Joined
<1>3. /\ Joined(b, r).sources = b.sources \cup {r.by}
      /\ Joined(b, r).completeSources =
            b.completeSources \cup (IF r.complete THEN {r.by} ELSE {})
      /\ Joined(b, r).presses = b.presses \cup {r.press}
      /\ Joined(b, r).left = b.left /\ Joined(b, r).part = b.part
  BY DEF Buckets, Joined
<1>4. Joined(b, r).complete = (b.complete \/ r.complete)
  BY <1>1, BucketFields DEF Buckets, Joined
<1> QED
  BY <1>2, <1>3, <1>4

\* The bucket that the first copy opens.
LEMMA NewBucketTyped ==
    ASSUME NEW r \in Reports
    PROVE  /\ NewBucket(r) \in Buckets
           /\ NewBucket(r).sources = {r.by}
           /\ NewBucket(r).completeSources = (IF r.complete THEN {r.by} ELSE {})
           /\ NewBucket(r).complete = r.complete
           /\ NewBucket(r).presses = {r.press}
           /\ NewBucket(r).left = Window /\ NewBucket(r).part = r.part
<1> DEFINE b == [sources |-> {}, completeSources |-> {}, complete |-> FALSE,
                 left |-> Window, presses |-> {}, part |-> r.part]
<1>1. b \in Buckets
  BY Bounds, ReportFields DEF Buckets
<1>2. NewBucket(r) = Joined(b, r)
  BY DEF NewBucket
<1>3. r.complete \in BOOLEAN
  BY ReportFields
<1>4. /\ b.sources = {} /\ b.completeSources = {} /\ b.complete = FALSE
      /\ b.left = Window /\ b.presses = {} /\ b.part = r.part
  OBVIOUS
<1> HIDE DEF b
<1> QED
  <2>1. /\ Joined(b, r) \in Buckets
        /\ Joined(b, r).sources = b.sources \cup {r.by}
        /\ Joined(b, r).completeSources =
              b.completeSources \cup (IF r.complete THEN {r.by} ELSE {})
        /\ Joined(b, r).complete = (b.complete \/ r.complete)
        /\ Joined(b, r).presses = b.presses \cup {r.press}
        /\ Joined(b, r).left = b.left /\ Joined(b, r).part = b.part
    BY <1>1, JoinedTyped
  <2> QED
    BY <1>2, <1>3, <1>4, <2>1

\* The buckets after a report.
LEMMA CollectedTyped ==
    ASSUME TypeOK, NEW r \in Reports
    PROVE  Collected(r) \in [Keys -> Buckets \cup {None}]
<1>1. pending \in [Keys -> Buckets \cup {None}]
  BY DEF TypeOK
<1>2. ASSUME NEW k \in Keys, pending[k] # None
      PROVE  Joined(pending[k], r) \in Buckets
  BY <1>1, <1>2, JoinedTyped
<1>3. NewBucket(r) \in Buckets
  BY NewBucketTyped
<1> QED
  BY <1>1, <1>2, <1>3 DEF Collected

LEMMA InitTyped == Init => TypeOK
<1> SUFFICES ASSUME Init PROVE TypeOK
  OBVIOUS
<1>1. sequence \in Sequences
  BY Bounds DEF Init
<1>2. completed \in [Keys -> 0 .. Cache] /\ terminals \in [Sequences -> 0 .. Cache]
  BY Bounds DEF Init
<1> QED
  BY <1>1, <1>2 DEF Init, TypeOK

\* The types of what a press leaves alone.
LEMMA PressTyped ==
    ASSUME TypeOK, NEW p \in Presses, NEW k \in Kinds,
           NEW whole \in SUBSET Bridges, NEW prefix \in SUBSET Bridges,
           NEW terminal \in SUBSET Bridges,
           Press(p, k, whole, prefix, terminal), sequence' \in Sequences
    PROVE  TypeOK'
<1> DEFINE record(bs, part, complete) ==
              {[by |-> b, press |-> p, part |-> part, complete |-> complete,
                left |-> MaxDelay] : b \in bs}
<1>1. press' \in [Presses -> PressRecords \cup {None}]
  <2>1. [kind |-> k, first |-> sequence, by |-> whole \cup terminal] \in PressRecords
    BY DEF TypeOK, PressRecords
  <2> QED
    BY <2>1 DEF TypeOK, Press
<1>2. reports' \subseteq Reports /\ statuses' \subseteq Reports
  <2>1. \A bs \in SUBSET Bridges, part \in Parts, complete \in BOOLEAN :
           record(bs, part, complete) \subseteq Reports
    BY Bounds DEF Reports
  <2>2. /\ reports' = reports \cup record(whole, "whole", TRUE)
               \cup record(prefix, IF k = "tilt" THEN "prefix" ELSE "whole", FALSE)
               \cup record(terminal, "terminal", TRUE)
        /\ statuses' \subseteq reports' \cup statuses
    BY DEF Press
  <2>3. "whole" \in Parts /\ "terminal" \in Parts
        /\ (IF k = "tilt" THEN "prefix" ELSE "whole") \in Parts
    BY DEF Parts
  <2>4. reports \subseteq Reports /\ statuses \subseteq Reports
    BY DEF TypeOK
  <2> HIDE DEF record
  <2> QED
    BY <2>1, <2>2, <2>3, <2>4
<1>3. moves' \in [Presses -> [Shutters -> Nat]]
  BY DEF TypeOK, Press
<1> QED
  BY <1>1, <1>2, <1>3 DEF TypeOK, Press, site, memory

LEMMA ReceiveTyped == ASSUME TypeOK, NEW r \in reports, Receive(r) PROVE TypeOK'
<1>1. r \in Reports /\ reports' \subseteq Reports
  BY DEF TypeOK, Receive
<1>2. r.press \in Presses
  BY <1>1, ReportFields
<1>3. pending' \in [Keys -> Buckets \cup {None}]
  <2>1. pending' = pending \/ pending' = Collected(r)
    BY DEF Receive, memory
  <2> QED
    BY <1>1, <2>1, CollectedTyped DEF TypeOK
<1>4. completed' \in [Keys -> 0 .. Cache] /\ terminals' \in [Sequences -> 0 .. Cache]
  <2>1. completed \in [Keys -> 0 .. Cache] /\ terminals \in [Sequences -> 0 .. Cache]
        /\ Cache \in 0 .. Cache
    BY Bounds DEF TypeOK
  <2>2. \/ UNCHANGED <<completed, terminals>>
        \/ /\ completed' = [k \in Keys |-> IF k \in Superseded(r) THEN Cache ELSE completed[k]]
           /\ \/ terminals' = [terminals EXCEPT ![SequenceOf(r)] = Cache]
              \/ terminals' = terminals
    BY DEF Receive, memory
  <2> QED
    BY <2>1, <2>2
<1>5. disturbed' \subseteq Presses /\ stale' \subseteq Presses
  <2>1. \A k \in Keys : pending'[k] # None => pending'[k].presses \subseteq Presses
    BY <1>3, BucketFields
  <2>2. /\ disturbed' = disturbed \cup (IF r.left < MaxDelay THEN {r.press} ELSE {})
             \cup UNION {pending'[k].presses : k \in {c \in Keys :
                  pending'[c] # None /\ Cardinality(pending'[c].presses) > 1}}
        /\ stale' \subseteq stale \cup {r.press}
    BY DEF Receive
  <2>3. disturbed \subseteq Presses /\ stale \subseteq Presses
    BY DEF TypeOK
  <2> QED
    BY <1>2, <2>1, <2>2, <2>3
<1> QED
  BY <1>1, <1>3, <1>4, <1>5 DEF TypeOK, Receive, site, air

\* What a task becomes.
LEMMA TaskFields ==
    ASSUME NEW t \in Tasks, NEW s \in Shutters
    PROVE  /\ t.presses \subseteq Presses /\ t.part \in Parts /\ t.at \in Shutters \cup {None}
           /\ t.todo \subseteq Shutters /\ t.heard \subseteq Bridges
           /\ LET u == [t EXCEPT !.at = s]
              IN  /\ u \in Tasks /\ u.presses = t.presses /\ u.part = t.part
                  /\ u.at = s /\ u.todo = t.todo /\ u.heard = t.heard
           /\ LET u == [t EXCEPT !.todo = @ \ {s}]
              IN  /\ u \in Tasks /\ u.presses = t.presses /\ u.part = t.part
                  /\ u.at = t.at /\ u.todo = t.todo \ {s} /\ u.heard = t.heard
           /\ LET u == [t EXCEPT !.at = None, !.todo = @ \ {s}]
              IN  /\ u \in Tasks /\ u.presses = t.presses /\ u.part = t.part
                  /\ u.at = None /\ u.todo = t.todo \ {s} /\ u.heard = t.heard
  BY DEF Tasks

\* The task of a bucket.
TaskOf(bucket) ==
    [presses |-> bucket.presses, part |-> bucket.part, at |-> None,
     todo |-> Targets(bucket), heard |-> bucket.completeSources]

LEMMA TaskTyped ==
    ASSUME TypeOK, NEW b \in Buckets
    PROVE  /\ TaskOf(b) \in Tasks /\ TaskOf(b).presses = b.presses /\ TaskOf(b).part = b.part
           /\ TaskOf(b).at = None /\ TaskOf(b).todo = Targets(b)
           /\ TaskOf(b).heard = b.completeSources
           /\ Route(b) => routing' = IF Targets(b) = {} THEN routing
                                     ELSE routing \cup {TaskOf(b)}
<1>1. Targets(b) \subseteq Shutters
  BY DEF Targets, TypeOK
<1> QED
  BY <1>1, BucketFields DEF TaskOf, Tasks, Route

LEMMA FlushTyped == ASSUME TypeOK, NEW k \in Keys, Flush(k) PROVE TypeOK'
<1> DEFINE b == pending[k]
<1>1. b \in Buckets /\ Route(b)
  BY DEF TypeOK, Flush
<1> HIDE DEF b
<1>2. routing' \subseteq routing \cup {TaskOf(b)} /\ TaskOf(b) \in Tasks /\ TaskOf(b).at = None
  BY <1>1, TaskTyped
<1>3. routing' \subseteq Tasks /\ \A t \in routing' : t.at \in t.todo \cup {None}
  BY <1>2 DEF TypeOK
<1>4. pending' \in [Keys -> Buckets \cup {None}] /\ completed' \in [Keys -> 0 .. Cache]
  BY Bounds DEF TypeOK, Flush
<1> QED
  BY <1>3, <1>4 DEF TypeOK, Flush, site, air

LEMMA DeliverTyped ==
    ASSUME TypeOK, NEW t \in routing, NEW s \in t.todo, Deliver(t, s) PROVE TypeOK'
<1>1. t \in Tasks /\ s \in Shutters /\ t.at = None
  BY DEF TypeOK, Tasks, Deliver
<1>2. t.part \in Parts
  BY <1>1, TaskFields
<1>3. routing' \subseteq Tasks /\ \A u \in routing' : u.at \in u.todo \cup {None}
  <2> DEFINE u == [t EXCEPT !.todo = @ \ {s}]
             v == [t EXCEPT !.at = s]
  <2>1. u \in Tasks /\ u.at = None /\ v \in Tasks /\ v.at \in v.todo
    BY <1>1, TaskFields
  <2>2. routing' \subseteq routing \cup {u, v}
    BY DEF Deliver, Becomes
  <2> HIDE DEF u, v
  <2> QED
    BY <2>1, <2>2 DEF TypeOK
<1>4. events' \in [Presses -> [Parts -> [Shutters -> Nat]]]
  <2>1. events \in [Presses -> [Parts -> [Shutters -> Nat]]]
    BY DEF TypeOK
  <2>2. \A p \in Presses : [events[p] EXCEPT ![t.part][s] = @ + 1] \in [Parts -> [Shutters -> Nat]]
    BY <1>1, <1>2, <2>1
  <2>3. events' = [p \in Presses |-> IF p \in t.presses
                       THEN [events[p] EXCEPT ![t.part][s] = @ + 1] ELSE events[p]]
    BY DEF Deliver
  <2> QED
    BY <2>1, <2>2, <2>3
<1> QED
  BY <1>3, <1>4 DEF TypeOK, Deliver, site, memory, air

\* What the end of a forward, answered or not, leaves of the types.
LEMMA EndsTyped ==
    ASSUME TypeOK, NEW t \in routing, t.at # None,
           Becomes(t, [t EXCEPT !.at = None, !.todo = @ \ {t.at}])
    PROVE  routing' \subseteq Tasks /\ \A u \in routing' : u.at \in u.todo \cup {None}
<1> DEFINE u == [t EXCEPT !.at = None, !.todo = @ \ {t.at}]
<1>1. t \in Tasks /\ t.at \in Shutters
  BY DEF TypeOK, Tasks
<1>2. u \in Tasks /\ u.at = None
  BY <1>1, TaskFields
<1>3. routing' \subseteq routing \cup {u}
  BY DEF Becomes
<1> HIDE DEF u
<1> QED
  BY <1>2, <1>3 DEF TypeOK

LEMMA ForwardedTyped == ASSUME TypeOK, NEW t \in routing, Forwarded(t) PROVE TypeOK'
<1>1. routing' \subseteq Tasks /\ \A u \in routing' : u.at \in u.todo \cup {None}
  BY EndsTyped DEF Forwarded
<1>2. moves' \in [Presses -> [Shutters -> Nat]]
  <2>1. moves \in [Presses -> [Shutters -> Nat]]
    BY DEF TypeOK
  <2>2. moves' = [p \in Presses |-> IF p \in t.presses
                       THEN [moves[p] EXCEPT ![t.at] = @ + 1] ELSE moves[p]]
    BY DEF Forwarded
  <2>3. t.at \in Shutters
    BY DEF Forwarded, TypeOK, Tasks
  <2>4. \A p \in Presses : [moves[p] EXCEPT ![t.at] = @ + 1] \in [Shutters -> Nat]
    BY <2>1, <2>3
  <2> QED
    BY <2>1, <2>2, <2>4
<1> QED
  BY <1>1, <1>2 DEF TypeOK, Forwarded, site, memory, air

LEMMA ForwardFailsTyped == ASSUME TypeOK, NEW t \in routing, ForwardFails(t) PROVE TypeOK'
<1>1. routing' \subseteq Tasks /\ \A u \in routing' : u.at \in u.todo \cup {None}
  BY EndsTyped DEF ForwardFails
<1>2. t \in Tasks
  BY DEF TypeOK
<1>3. t.presses \subseteq Presses
  BY <1>2 DEF Tasks
<1> QED
  BY <1>1, <1>3 DEF TypeOK, ForwardFails, site, memory, air

\* A report that gets older.
LEMMA AgedTyped ==
    ASSUME NEW r \in Reports
    PROVE  Aged(r) \in Reports /\ [r EXCEPT !.left = 0] \in Reports
<1>1. Less(r.left) \in 0 .. MaxDelay /\ 0 \in 0 .. MaxDelay
  BY Bounds, ReportFields DEF Less
<1> QED
  BY <1>1 DEF Aged, Reports

LEMMA TickTyped == ASSUME TypeOK, Tick PROVE TypeOK'
<1>1. reports' \subseteq Reports /\ statuses' \subseteq Reports
  BY AgedTyped DEF TypeOK, Tick
<1>2. pending' \in [Keys -> Buckets \cup {None}]
  <2>1. ASSUME NEW k \in Keys, pending[k] # None
        PROVE  [pending[k] EXCEPT !.left = @ - 1] \in Buckets
    <3>1. pending[k] \in Buckets /\ pending[k].left > 0
      BY <2>1 DEF TypeOK, Tick
    <3>2. pending[k].left - 1 \in 0 .. Window
      BY <3>1, Bounds, BucketFields
    <3> QED
      BY <3>1, <3>2 DEF Buckets
  <2> QED
    BY <2>1 DEF Tick
<1>3. \A n \in 0 .. Cache : Less(n) \in 0 .. Cache
  BY Bounds DEF Less
<1>4. completed' \in [Keys -> 0 .. Cache] /\ terminals' \in [Sequences -> 0 .. Cache]
  BY <1>3 DEF Tick, TypeOK
<1> QED
  BY <1>1, <1>2, <1>4 DEF TypeOK, Tick, site

LEMMA RestartTyped == ASSUME TypeOK, Restart PROVE TypeOK'
<1>1. statuses' \subseteq Reports
  BY AgedTyped DEF TypeOK, Restart
<1>2. completed' \in [Keys -> 0 .. Cache] /\ terminals' \in [Sequences -> 0 .. Cache]
  BY Bounds DEF Restart
<1> QED
  BY <1>1, <1>2 DEF TypeOK, Restart, site

LEMMA ReconnectTyped == ASSUME TypeOK, NEW r \in statuses, Reconnect(r) PROVE TypeOK'
<1>1. r \in Reports
  BY DEF TypeOK
<1> QED
  BY <1>1, ReportFields DEF TypeOK, Reconnect, site, memory

\* What one press does to the numbers, and which frames it has.
PressedNow(p, k, whole, prefix, terminal) ==
    /\ Press(p, k, whole, prefix, terminal)
    /\ sequence' \in Sequences
    /\ k = "stop" => sequence' = sequence /\ terminal = {}
    /\ k = "my" => sequence' = After(sequence) /\ prefix = {} /\ terminal = {}
    /\ k = "tilt" => sequence' = After(After(sequence)) /\ whole = {}
    /\ whole \cap prefix = {}

LEMMA OnePress ==
    ASSUME TypeOK, NEW p \in Presses, PressStop(p) \/ PressMy(p) \/ PressTilt(p)
    PROVE  \E k \in Kinds : \E whole, prefix, terminal \in SUBSET Bridges :
              PressedNow(p, k, whole, prefix, terminal)
<1>1. /\ sequence \in Sequences /\ After(sequence) \in Sequences
      /\ After(After(sequence)) \in Sequences
  BY NextNumber DEF TypeOK
<1>2. {} \in SUBSET Bridges /\ "stop" \in Kinds /\ "my" \in Kinds /\ "tilt" \in Kinds
  BY DEF Kinds
<1>3. CASE PressStop(p)
  <2>1. PICK whole \in SUBSET Bridges, prefix \in SUBSET Bridges :
           whole \cap prefix = {} /\ Press(p, "stop", whole, prefix, {}) /\ UNCHANGED sequence
    BY <1>3 DEF PressStop
  <2> QED
    BY <1>1, <1>2, <2>1 DEF PressedNow
<1>4. CASE PressMy(p)
  <2>1. PICK whole \in SUBSET Bridges :
           Press(p, "my", whole, {}, {}) /\ sequence' = After(sequence)
    BY <1>4 DEF PressMy
  <2> QED
    BY <1>1, <1>2, <2>1 DEF PressedNow
<1>5. CASE PressTilt(p)
  <2>1. PICK prefix \in SUBSET Bridges, terminal \in SUBSET Bridges :
           Press(p, "tilt", {}, prefix, terminal) /\ sequence' = After(After(sequence))
    BY <1>5 DEF PressTilt
  <2> QED
    BY <1>1, <1>2, <2>1 DEF PressedNow
<1> QED
  BY <1>3, <1>4, <1>5

LEMMA StepTyped == ASSUME TypeOK, [Next]_vars PROVE TypeOK'
<1>1. ASSUME NEW p \in Presses, PressStop(p) \/ PressMy(p) \/ PressTilt(p) PROVE TypeOK'
  BY <1>1, OnePress, PressTyped DEF PressedNow
<1>2. CASE UNCHANGED vars
  BY <1>2 DEF TypeOK, vars, site, memory, air
<1> QED
  BY <1>1, <1>2, ReceiveTyped, ReconnectTyped, FlushTyped, DeliverTyped,
     ForwardedTyped, ForwardFailsTyped, TickTyped, RestartTyped DEF Next

\* Every variable keeps its type, across the rollover of the numbers too.
THEOREM ObservationTyped == Spec => []TypeOK
<1> QED
  BY InitTyped, StepTyped, PTL DEF Spec

-----------------------------------------------------------------------------
(* Sequence numbers *)

Pressed(p) == press[p] # None

\* A press whose frames have sequence numbers.
Numbered(p) == Pressed(p) /\ press[p].kind # "stop"

\* How many numbers a press takes.
Width(kind) == CASE kind = "stop" -> 0 [] kind = "my" -> 1 [] OTHER -> 2

\* The distance of n from the remote's first number.
Offset(n) == IF n = SeqMod - 1 THEN 0 ELSE n + 1

\* Press p is the next one.
IsNext(p) == ~Pressed(p) /\ \A q \in 1 .. (p - 1) : Pressed(q)

\* The numbers of a press follow those of the presses before it, and have not come
\* round to where they began.
NumbersFit ==
    /\ \A p \in Presses : Pressed(p) => \A q \in 1 .. (p - 1) : Pressed(q)
    /\ \A p \in Presses : Pressed(p) => Offset(press[p].first) <= 2 * (p - 1)
    /\ \A p, q \in Presses : q < p /\ Pressed(p) =>
          Offset(press[q].first) + Width(press[q].kind) <= Offset(press[p].first)
    /\ \A p \in Presses : IsNext(p) =>
          /\ Offset(sequence) <= 2 * (p - 1)
          /\ \A q \in 1 .. (p - 1) :
                Offset(press[q].first) + Width(press[q].kind) <= Offset(sequence)

-----------------------------------------------------------------------------
(* Frames *)

PartFits(p, part) ==
    IF press[p].kind = "tilt" THEN part \in {"prefix", "terminal"} ELSE part = "whole"

IsFrame(p, part) == Pressed(p) /\ PartFits(p, part)

FrameKey(p, part) == Key([press |-> p, part |-> part])

\* What may still arrive, or arrive again.
Copies == reports \cup statuses

\* Which frames were heard completely, and by whom.
ReportsFit ==
    \A r \in Copies :
        /\ IsFrame(r.press, r.part)
        /\ r.complete <=> IF press[r.press].kind = "tilt" THEN r.part = "terminal"
                          ELSE r.by \in press[r.press].by
        /\ r.complete => r.by \in press[r.press].by
        /\ press[r.press].kind = "my" => r.complete

\* A bucket stands for the presses that have its key.
BucketFits(k, b) ==
    /\ b.presses # {}
    /\ \A p \in b.presses :
          /\ IsFrame(p, b.part) /\ k = FrameKey(p, b.part)
          /\ b.part = "prefix" => ~b.complete
          /\ b.part = "terminal" \/ press[p].kind = "my" => b.complete
          /\ b.part = "terminal" => press[p].by # {}

BucketsFit == \A k \in Keys : pending[k] # None => BucketFits(k, pending[k])

\* A task of a frame that has a number is of that frame alone.
TasksFit ==
    \A t \in routing :
        /\ t.presses # {}
        /\ \A p \in t.presses : IsFrame(p, t.part) /\ (Numbered(p) => t.presses = {p})

\* The number of the frame that ends press p.
LastOf(p) == IF press[p].kind = "tilt" THEN After(press[p].first) ELSE press[p].first

\* What is remembered is of frames that were sent.
CacheFits ==
    /\ \A k \in Keys : completed[k] > 0 =>
          \E p \in Presses, part \in Parts : Numbered(p) /\ PartFits(p, part) /\ k = FrameKey(p, part)
    /\ \A n \in Sequences : terminals[n] > 0 =>
          \E p \in Presses : Numbered(p) /\ press[p].by # {} /\ n = LastOf(p)

EventsFit ==
    \A p \in Presses, part \in Parts, s \in Shutters : events[p][part][s] > 0 => IsFrame(p, part)

Fits == NumbersFit /\ ReportsFit /\ BucketsFit /\ TasksFit /\ CacheFits /\ EventsFit

-----------------------------------------------------------------------------
(* One event *)

IsTask(t, p, part) == t \in routing /\ p \in t.presses /\ t.part = part

\* The event of a frame has been started.
Begun(p, part) ==
    \/ \E t \in routing : IsTask(t, p, part)
    \/ \E s \in Shutters : events[p][part][s] > 0

\* A frame is in its bucket, in one task, or done with; once it is begun, every copy
\* of it that is not stale is recognised, and will be until it is stale.
Once(p, part) ==
    /\ pending[FrameKey(p, part)] # None => ~Begun(p, part)
    /\ \A t, u \in routing : IsTask(t, p, part) /\ IsTask(u, p, part) => t = u
    /\ \A t \in routing : IsTask(t, p, part) =>
          \A s \in t.todo \ {t.at} : events[p][part][s] = 0
    /\ \A s \in Shutters : events[p][part][s] <= 1
    /\ Begun(p, part) =>
          \A r \in Copies : r.press = p /\ r.part = part /\ r.left > 0 =>
             r.left <= completed[FrameKey(p, part)]

OnceInv ==
    \A p \in Presses \ stale, part \in Parts :
        Numbered(p) /\ PartFits(p, part) => Once(p, part)

-----------------------------------------------------------------------------
(* No two frames have a number in common *)

LEMMA OffsetFits ==
    ASSUME NEW n \in Sequences
    PROVE  /\ Offset(n) \in 0 .. SeqMod - 1
           /\ Offset(n) < SeqMod - 1 => Offset(After(n)) = Offset(n) + 1
           /\ \A m \in Sequences : Offset(m) = Offset(n) => m = n
<1>1. n \in Nat /\ n <= SeqMod - 1 /\ SeqMod \in Nat /\ 0 < SeqMod
  BY Bounds DEF Sequences
<1>2. Offset(n) \in 0 .. SeqMod - 1
  BY <1>1 DEF Offset
<1>3. ASSUME Offset(n) < SeqMod - 1 PROVE Offset(After(n)) = Offset(n) + 1
  BY <1>1, <1>3, NextNumber DEF Offset
<1>4. ASSUME NEW m \in Sequences, Offset(m) = Offset(n) PROVE m = n
  BY <1>1, <1>4 DEF Offset, Sequences
<1> QED
  BY <1>2, <1>3, <1>4

\* The number of a frame.
NumberOf(p, part) ==
    IF part = "terminal" THEN After(press[p].first) ELSE press[p].first

LEMMA FrameKeyIs ==
    ASSUME NEW p, NEW part
    PROVE  FrameKey(p, part) =
             << IF press[p].kind = "stop" THEN None ELSE NumberOf(p, part),
                IF part = "terminal" THEN "tilt_clockwise" ELSE "stop_my" >>
  BY DEF FrameKey, Key, SequenceOf, NumberOf

\* A frame and its number.
LEMMA FrameNumber ==
    ASSUME TypeOK, NumbersFit, NEW p \in Presses, NEW part, IsFrame(p, part)
    PROVE  /\ part \in Parts /\ press[p] \in PressRecords /\ FrameKey(p, part) \in Keys
           /\ FrameKey(p, part)[1] # None <=> Numbered(p)
           /\ Numbered(p) =>
                 /\ FrameKey(p, part)[1] = NumberOf(p, part)
                 /\ NumberOf(p, part) \in Sequences
                 /\ Offset(NumberOf(p, part)) =
                       Offset(press[p].first) + (IF part = "terminal" THEN 1 ELSE 0)
                 /\ Offset(NumberOf(p, part)) < Offset(press[p].first) + Width(press[p].kind)
<1>1. part \in Parts /\ press[p] # None
      /\ (part = "terminal" => press[p].kind = "tilt")
      /\ (press[p].kind = "tilt" => part # "whole")
  BY DEF IsFrame, PartFits, Parts, Pressed
<1>2. press[p] \in PressRecords
  BY <1>1 DEF TypeOK
<1>3. press[p].first \in Sequences /\ press[p].kind \in Kinds
  BY <1>2, PressFields
<1>4. NumberOf(p, part) \in Sequences
  BY <1>3, NextNumber DEF NumberOf
<1>5. None \notin Sequences
  BY NoneIsNoValue DEF NoneIsNoValue
<1>6. FrameKey(p, part) \in Keys
  BY <1>4, FrameKeyIs DEF Keys
<1>7. FrameKey(p, part)[1] = IF press[p].kind = "stop" THEN None ELSE NumberOf(p, part)
  BY FrameKeyIs
<1>8. FrameKey(p, part)[1] # None <=> Numbered(p)
  BY <1>1, <1>4, <1>5, <1>7 DEF Numbered, Pressed
<1>9. ASSUME Numbered(p)
      PROVE  /\ Offset(NumberOf(p, part)) =
                   Offset(press[p].first) + (IF part = "terminal" THEN 1 ELSE 0)
             /\ Offset(NumberOf(p, part)) < Offset(press[p].first) + Width(press[p].kind)
  <2>1. Offset(press[p].first) <= 2 * (p - 1)
    BY <1>1 DEF NumbersFit, Pressed
  <2>2. p \in Nat /\ p <= MaxPresses
    BY Bounds DEF Presses
  <2>3. Offset(press[p].first) \in 0 .. SeqMod - 1
    BY <1>3, OffsetFits
  <2>4. Offset(press[p].first) < SeqMod - 1
    BY <2>1, <2>2, <2>3, Bounds
  <2>5. Offset(NumberOf(p, part)) =
                   Offset(press[p].first) + (IF part = "terminal" THEN 1 ELSE 0)
    BY <1>3, <2>3, <2>4, OffsetFits DEF NumberOf
  <2>6. Width(press[p].kind) = IF press[p].kind = "my" THEN 1 ELSE 2
    BY <1>3, <1>9 DEF Width, Kinds, Numbered
  <2> QED
    BY <1>1, <2>3, <2>5, <2>6
<1> QED
  BY <1>1, <1>2, <1>4, <1>6, <1>7, <1>8, <1>9 DEF Numbered

\* A number tells the press and the frame.
LEMMA NumberTells ==
    ASSUME TypeOK, NumbersFit,
           NEW p \in Presses, NEW a, Numbered(p), PartFits(p, a),
           NEW q \in Presses, NEW b, IsFrame(q, b),
           FrameKey(p, a)[1] = FrameKey(q, b)[1]
    PROVE  q = p /\ b = a
<1>1. IsFrame(p, a)
  BY DEF IsFrame, Numbered
<1>2. Numbered(q)
  BY <1>1, FrameNumber
<1> DEFINE n == NumberOf(p, a)
           o == Offset(n)
<1>3. n \in Sequences /\ o \in Nat /\ n = NumberOf(q, b)
  BY <1>1, <1>2, FrameNumber, OffsetFits, Bounds
<1>4. /\ o = Offset(press[p].first) + (IF a = "terminal" THEN 1 ELSE 0)
      /\ o < Offset(press[p].first) + Width(press[p].kind)
  BY <1>1, FrameNumber
<1>5. /\ o = Offset(press[q].first) + (IF b = "terminal" THEN 1 ELSE 0)
      /\ o < Offset(press[q].first) + Width(press[q].kind)
  BY <1>2, <1>3, FrameNumber
<1>6. /\ Offset(press[p].first) \in Nat /\ Offset(press[q].first) \in Nat
      /\ Width(press[p].kind) \in Nat /\ Width(press[q].kind) \in Nat
  <2>1. press[p] \in PressRecords /\ press[q] \in PressRecords
    BY <1>1, FrameNumber
  <2>2. \A k \in Kinds : Width(k) \in Nat
    BY DEF Width, Kinds
  <2> QED
    BY <2>1, <2>2, PressFields, OffsetFits, Bounds
<1> HIDE DEF o, n
<1>7. ~(q < p)
  <2>1. q < p => Offset(press[q].first) + Width(press[q].kind) <= Offset(press[p].first)
    BY <1>1 DEF NumbersFit, IsFrame
  <2> QED
    BY <2>1, <1>3, <1>4, <1>5, <1>6
<1>8. ~(p < q)
  <2>1. p < q => Offset(press[p].first) + Width(press[p].kind) <= Offset(press[q].first)
    BY DEF NumbersFit, IsFrame
  <2> QED
    BY <2>1, <1>3, <1>4, <1>5, <1>6
<1>9. p = q
  BY <1>7, <1>8 DEF Presses
<1>10. a = "terminal" <=> b = "terminal"
  BY <1>4, <1>5, <1>6, <1>9
<1> QED
  BY <1>1, <1>9, <1>10 DEF IsFrame, PartFits

\* What is known of the frames stays so while the remote is not pressed.
LEMMA FramesKept ==
    ASSUME UNCHANGED press
    PROVE  /\ \A p : Pressed(p)' = Pressed(p) /\ Numbered(p)' = Numbered(p)
                     /\ LastOf(p)' = LastOf(p)
           /\ \A p, part : /\ PartFits(p, part)' = PartFits(p, part)
                           /\ IsFrame(p, part)' = IsFrame(p, part)
                           /\ FrameKey(p, part)' = FrameKey(p, part)
  BY DEF Pressed, Numbered, LastOf, PartFits, IsFrame, FrameKey, Key, SequenceOf

\* A key tells the frame, and the press of a frame that has a number.
LEMMA KeyTells ==
    ASSUME TypeOK, NumbersFit,
           NEW p \in Presses, NEW a, IsFrame(p, a),
           NEW q \in Presses, NEW b, IsFrame(q, b), FrameKey(p, a) = FrameKey(q, b)
    PROVE  a = b /\ (Numbered(p) <=> Numbered(q)) /\ (Numbered(p) => p = q)
<1>1. Numbered(p) <=> Numbered(q)
  BY FrameNumber
<1>2. CASE Numbered(p)
  <2>1. PartFits(p, a) /\ FrameKey(p, a)[1] = FrameKey(q, b)[1]
    BY DEF IsFrame
  <2> QED
    BY <1>1, <1>2, <2>1, NumberTells
<1>3. CASE ~Numbered(p)
  <2>1. press[p].kind = "stop" /\ press[q].kind = "stop"
    BY <1>1, <1>3 DEF Numbered, IsFrame
  <2>2. a = "whole" /\ b = "whole"
    BY <2>1 DEF IsFrame, PartFits
  <2> QED
    BY <1>1, <1>3, <2>2
<1> QED
  BY <1>2, <1>3

\* The report of a frame, with what its kind says of it.
LEMMA ReportFits ==
    ASSUME TypeOK, Fits, NEW r \in reports
    PROVE  /\ r \in Reports /\ r.press \in Presses /\ r.part \in Parts
           /\ r.complete \in BOOLEAN /\ r.by \in Bridges /\ r.left \in 0 .. MaxDelay
           /\ IsFrame(r.press, r.part) /\ press[r.press] \in PressRecords
           /\ Key(r) = FrameKey(r.press, r.part) /\ Key(r) \in Keys
           /\ SequenceOf(r) = Key(r)[1]
           /\ SequenceOf(r) # None <=> Numbered(r.press)
           /\ r.complete => r.by \in press[r.press].by
           /\ press[r.press].kind = "tilt" =>
                 r.part \in {"prefix", "terminal"} /\ (r.complete <=> r.part = "terminal")
           /\ press[r.press].kind # "tilt" =>
                 r.part = "whole" /\ (r.complete <=> r.by \in press[r.press].by)
           /\ press[r.press].kind = "my" => r.complete
<1>1. r \in Reports
  BY DEF TypeOK
<1>2. /\ r.press \in Presses /\ r.part \in Parts
      /\ r.complete \in BOOLEAN /\ r.by \in Bridges /\ r.left \in 0 .. MaxDelay
  BY <1>1, ReportFields
<1>3. /\ IsFrame(r.press, r.part)
      /\ r.complete <=> IF press[r.press].kind = "tilt" THEN r.part = "terminal"
                        ELSE r.by \in press[r.press].by
      /\ r.complete => r.by \in press[r.press].by
      /\ press[r.press].kind = "my" => r.complete
  BY DEF Fits, ReportsFit, Copies
<1>4. IF press[r.press].kind = "tilt" THEN r.part \in {"prefix", "terminal"} ELSE r.part = "whole"
  BY <1>3 DEF IsFrame, PartFits
<1>5. NumbersFit
  BY DEF Fits
<1>6. Key(r) = FrameKey(r.press, r.part) /\ SequenceOf(r) = Key(r)[1]
  BY DEF FrameKey, Key, SequenceOf
<1>7. /\ press[r.press] \in PressRecords /\ FrameKey(r.press, r.part) \in Keys
      /\ FrameKey(r.press, r.part)[1] # None <=> Numbered(r.press)
  BY <1>2, <1>3, <1>5, FrameNumber
<1> QED
  BY <1>1, <1>2, <1>3, <1>4, <1>6, <1>7

\* The same of what is still a bridge's status.
LEMMA CopyFits ==
    ASSUME TypeOK, Fits, NEW r \in Copies
    PROVE  /\ r \in Reports /\ r.press \in Presses /\ r.left \in 0 .. MaxDelay
           /\ IsFrame(r.press, r.part)
<1>1. r \in Reports
  BY DEF TypeOK, Copies
<1> QED
  BY <1>1, ReportFields DEF Fits, ReportsFit

\* A bucket of a numbered key is of one frame.
LEMMA BucketIsOne ==
    ASSUME TypeOK, Fits, NEW k \in Keys, pending[k] # None
    PROVE  /\ pending[k] \in Buckets /\ BucketFits(k, pending[k])
           /\ \A p \in pending[k].presses :
                 /\ p \in Presses /\ IsFrame(p, pending[k].part)
                 /\ k = FrameKey(p, pending[k].part)
                 /\ k[1] # None <=> Numbered(p)
                 /\ Numbered(p) => pending[k].presses = {p}
<1>1. pending[k] \in Buckets /\ BucketFits(k, pending[k]) /\ NumbersFit
  BY DEF TypeOK, Fits, BucketsFit
<1>2. ASSUME NEW p \in pending[k].presses
      PROVE  /\ p \in Presses /\ IsFrame(p, pending[k].part)
             /\ k = FrameKey(p, pending[k].part)
             /\ k[1] # None <=> Numbered(p)
  BY <1>1, BucketFields, FrameNumber DEF BucketFits
<1>3. ASSUME NEW p \in pending[k].presses, Numbered(p) PROVE pending[k].presses = {p}
  <2>1. ASSUME NEW q \in pending[k].presses PROVE q = p
    BY <1>1, <1>2, <1>3, KeyTells
  <2> QED
    BY <2>1
<1> QED
  BY <1>1, <1>2, <1>3

\* A terminal frame takes away the bucket of its own prefix and no other.
LEMMA OnlyItsPrefix ==
    ASSUME TypeOK, Fits, NEW r \in reports, NEW k \in Superseded(r)
    PROVE  /\ k \in Keys /\ pending[k] # None /\ pending[k].presses = {r.press}
           /\ pending[k].part = "prefix" /\ k = FrameKey(r.press, "prefix")
           /\ r.part = "terminal" /\ r.complete /\ press[r.press].kind = "tilt"
           /\ Numbered(r.press) /\ IsFrame(r.press, "prefix")
<1>1. /\ k \in Keys /\ pending[k] # None /\ ~pending[k].complete
      /\ k[1] # None /\ r.complete /\ SequenceOf(r) = After(k[1])
  BY DEF Superseded, Supersedes
<1> DEFINE b == pending[k]
<1>2. PICK p \in b.presses : p \in Presses /\ IsFrame(p, b.part)
                             /\ k = FrameKey(p, b.part) /\ Numbered(p) /\ b.presses = {p}
  BY <1>1, BucketIsOne DEF BucketFits
<1>3. b.part # "terminal" /\ press[p].kind # "my"
  BY <1>1, <1>2, BucketIsOne DEF BucketFits
<1> HIDE DEF b
<1>4. press[p].kind = "tilt" /\ b.part = "prefix"
  <2>1. press[p].kind \in {"my", "tilt"}
    BY <1>2, FrameNumber, PressFields DEF Kinds, Numbered, Fits
  <2> QED
    BY <1>2, <1>3, <2>1 DEF IsFrame, PartFits
<1>5. k[1] = press[p].first
  BY <1>2, <1>4, FrameNumber DEF NumberOf, Fits
<1>6. IsFrame(p, "terminal") /\ FrameKey(p, "terminal")[1] = SequenceOf(r)
  <2>1. IsFrame(p, "terminal")
    BY <1>2, <1>4 DEF IsFrame, PartFits
  <2> QED
    BY <1>1, <1>2, <1>5, <2>1, FrameNumber DEF NumberOf, Fits
<1>7. r.press = p /\ r.part = "terminal"
  BY <1>2, <1>6, ReportFits, NumberTells DEF Fits, IsFrame
<1> QED
  BY <1>1, <1>2, <1>4, <1>7 DEF b

\* A prefix is overtaken by its own terminal frame and no other.
LEMMA OnlyItsTerminal ==
    ASSUME TypeOK, Fits, NEW r \in reports, Overtaken(r)
    PROVE  /\ r.part = "prefix" /\ ~r.complete /\ press[r.press].kind = "tilt"
           /\ press[r.press].by # {} /\ Numbered(r.press)
           /\ terminals[LastOf(r.press)] > 0
<1>1. ~r.complete /\ SequenceOf(r) # None /\ terminals[After(SequenceOf(r))] > 0
  BY DEF Overtaken
<1> DEFINE p == r.press
<1>2. /\ p \in Presses /\ Numbered(p) /\ press[p] \in PressRecords /\ press[p].kind # "my"
      /\ IsFrame(p, r.part) /\ Key(r) = FrameKey(p, r.part) /\ SequenceOf(r) = Key(r)[1]
  BY <1>1, ReportFits
<1>3. press[p].kind = "tilt"
  BY <1>2, PressFields DEF Kinds, Numbered
<1>4. r.part = "prefix"
  BY <1>1, <1>3, ReportFits
<1> HIDE DEF p
<1>5. NumbersFit
  BY DEF Fits
<1>6. SequenceOf(r) = press[p].first /\ SequenceOf(r) \in Sequences
  BY <1>2, <1>4, <1>5, FrameNumber DEF NumberOf
<1>7. IsFrame(p, "terminal") /\ PartFits(p, "terminal")
  BY <1>2, <1>3 DEF IsFrame, PartFits
<1>8. FrameKey(p, "terminal")[1] = After(SequenceOf(r)) /\ After(SequenceOf(r)) \in Sequences
  BY <1>2, <1>5, <1>6, <1>7, FrameNumber, NextNumber DEF NumberOf
<1>9. PICK q \in Presses : Numbered(q) /\ press[q].by # {} /\ After(SequenceOf(r)) = LastOf(q)
  BY <1>1, <1>8 DEF Fits, CacheFits
<1> DEFINE e == IF press[q].kind = "tilt" THEN "terminal" ELSE "whole"
<1>10. IsFrame(q, e) /\ NumberOf(q, e) = LastOf(q)
  BY <1>9 DEF IsFrame, PartFits, Numbered, NumberOf, LastOf
<1> HIDE DEF e
<1>11. FrameKey(q, e)[1] = LastOf(q)
  BY <1>5, <1>9, <1>10, FrameNumber
<1>12. q = p
  BY <1>2, <1>5, <1>7, <1>8, <1>9, <1>10, <1>11, NumberTells
<1>13. LastOf(p) = After(SequenceOf(r))
  BY <1>9, <1>12
<1> QED
  BY <1>1, <1>2, <1>3, <1>4, <1>9, <1>12, <1>13 DEF p

-----------------------------------------------------------------------------
(* The facts about frames are kept *)

LEMMA InitFits == Init => Fits
<1> SUFFICES ASSUME Init PROVE Fits
  OBVIOUS
<1>1. \A p \in Presses : ~Pressed(p)
  BY DEF Init, Pressed
<1>2. NumbersFit
  <2>1. ASSUME NEW p \in Presses, IsNext(p) PROVE p = 1
    <3>1. p \in 1 .. MaxPresses /\ MaxPresses \in Nat
      BY Bounds DEF Presses
    <3>2. p # 1 => 1 \in Presses /\ 1 \in 1 .. (p - 1)
      BY <3>1 DEF Presses
    <3> QED
      BY <1>1, <2>1, <3>2 DEF IsNext
  <2>2. Offset(sequence) = 0
    BY DEF Init, Offset
  <2>3. 1 .. (1 - 1) = {}
    OBVIOUS
  <2> QED
    BY <1>1, <2>1, <2>2, <2>3 DEF NumbersFit
<1>3. ReportsFit /\ TasksFit
  BY DEF Init, ReportsFit, TasksFit, Copies
<1>4. BucketsFit
  BY DEF Init, BucketsFit
<1>5. CacheFits
  BY DEF Init, CacheFits
<1>6. EventsFit
  BY DEF Init, EventsFit
<1> QED
  BY <1>2, <1>3, <1>4, <1>5, <1>6 DEF Fits

\* While the remote is not pressed, its numbers and the reports that are left fit.
LEMMA QuietFits ==
    ASSUME Fits, UNCHANGED <<press, sequence>>
    PROVE  /\ NumbersFit'
           /\ Copies' \subseteq Copies => ReportsFit'
           /\ UNCHANGED events => EventsFit'
           /\ UNCHANGED pending => BucketsFit'
           /\ UNCHANGED routing => TasksFit'
           /\ UNCHANGED <<completed, terminals>> => CacheFits'
<1>1. NumbersFit'
  BY DEF Fits, NumbersFit, IsNext, Pressed
<1>2. ASSUME Copies' \subseteq Copies PROVE ReportsFit'
  BY <1>2, FramesKept DEF Fits, ReportsFit
<1>3. ASSUME UNCHANGED events PROVE EventsFit'
  BY <1>3, FramesKept DEF Fits, EventsFit
<1>4. ASSUME UNCHANGED pending PROVE BucketsFit'
  BY <1>4, FramesKept DEF Fits, BucketsFit, BucketFits
<1>5. ASSUME UNCHANGED routing PROVE TasksFit'
  BY <1>5, FramesKept DEF Fits, TasksFit
<1>6. ASSUME UNCHANGED <<completed, terminals>> PROVE CacheFits'
  BY <1>6, FramesKept DEF Fits, CacheFits
<1> QED
  BY <1>1, <1>2, <1>3, <1>4, <1>5, <1>6

\* The bucket that a report opens or joins.
LEMMA CollectedFits ==
    ASSUME TypeOK, Fits, NEW r \in reports
    PROVE  \A k \in Keys : Collected(r)[k] # None => BucketFits(k, Collected(r)[k])
<1> SUFFICES ASSUME NEW k \in Keys, Collected(r)[k] # None
             PROVE  BucketFits(k, Collected(r)[k])
  OBVIOUS
<1>1. Collected(r)[k] = IF k \in Superseded(r) THEN None
                        ELSE IF k = Key(r) /\ ~Repeated(r)
                        THEN IF pending[k] = None THEN NewBucket(r) ELSE Joined(pending[k], r)
                        ELSE pending[k]
  BY DEF Collected
<1>2. CASE Collected(r)[k] = pending[k]
  BY <1>2, BucketIsOne
<1>3. CASE k = Key(r) /\ Collected(r)[k] = NewBucket(r)
  <2> DEFINE b == NewBucket(r)
  <2>1. b.presses = {r.press} /\ b.part = r.part /\ b.complete = r.complete
    BY ReportFits, NewBucketTyped
  <2> HIDE DEF b
  <2>2. BucketFits(k, b)
    BY <1>3, <2>1, ReportFits DEF BucketFits
  <2> QED
    BY <1>3, <2>2 DEF b
<1>4. CASE k = Key(r) /\ pending[k] # None /\ Collected(r)[k] = Joined(pending[k], r)
  <2> DEFINE b == pending[k]
             j == Joined(b, r)
  <2>1. b \in Buckets /\ BucketFits(k, b) /\ b # None /\ NumbersFit
    BY <1>4, BucketIsOne DEF Fits
  <2>2. /\ j.presses = b.presses \cup {r.press} /\ j.part = b.part
        /\ j.complete = (b.complete \/ r.complete)
    BY <2>1, ReportFits, JoinedTyped
  <2>3. ASSUME NEW p \in b.presses
        PROVE  /\ b.part = r.part
               /\ Numbered(p) => p = r.press
               /\ Numbered(r.press) => p = r.press
    BY <1>4, <2>1, <2>3, BucketIsOne, ReportFits, KeyTells
  <2>4. PICK p \in b.presses : p \in Presses /\ IsFrame(p, b.part)
    BY <1>4, <2>1, BucketIsOne DEF BucketFits
  <2>5. b.part = "prefix" => ~j.complete
    <3>1. b.part = "prefix" => press[p].kind = "tilt" /\ Numbered(p)
      BY <2>4 DEF IsFrame, PartFits, Numbered
    <3> QED
      BY <2>1, <2>2, <2>3, <2>4, <3>1, ReportFits DEF BucketFits
  <2>6. ASSUME NEW q \in j.presses, b.part = "terminal" \/ press[q].kind = "my" PROVE j.complete
    <3>1. q = r.press => r.complete
      BY <2>3, <2>4, <2>6, ReportFits
    <3> QED
      BY <2>1, <2>2, <2>6, <3>1 DEF BucketFits
  <2>7. \A q \in j.presses : IsFrame(q, j.part) /\ k = FrameKey(q, j.part)
    BY <1>4, <2>1, <2>2, <2>3, <2>4, ReportFits DEF BucketFits
  <2>8. j.presses # {}
    BY <2>2
  <2>9. ASSUME NEW q \in j.presses, b.part = "terminal" PROVE press[q].by # {}
    <3>1. q = r.press => r.complete
      BY <2>3, <2>4, <2>9, ReportFits
    <3> QED
      BY <2>1, <2>2, <2>9, <3>1, ReportFits DEF BucketFits
  <2> HIDE DEF b, j
  <2>10. BucketFits(k, j)
    BY <2>2, <2>5, <2>6, <2>7, <2>8, <2>9 DEF BucketFits
  <2> QED
    BY <1>4, <2>10 DEF b, j
<1> QED
  BY <1>1, <1>2, <1>3, <1>4

LEMMA ReceiveFits == ASSUME TypeOK, Fits, NEW r \in reports, Receive(r) PROVE Fits'
<1>1. UNCHANGED <<press, sequence, routing, events>> /\ Copies' \subseteq Copies
  BY DEF Receive, Copies, air
<1>2. CASE UNCHANGED memory
  BY <1>1, <1>2, QuietFits DEF Fits, memory
<1>3. CASE /\ terminals' = IF r.complete /\ SequenceOf(r) # None
                           THEN [terminals EXCEPT ![SequenceOf(r)] = Cache]
                           ELSE terminals
           /\ completed' = [k \in Keys |-> IF k \in Superseded(r) THEN Cache
                                           ELSE completed[k]]
           /\ pending' = Collected(r)
  <2>1. BucketsFit'
    BY <1>1, <1>3, CollectedFits, FramesKept DEF BucketsFit, BucketFits
  <2>2. ASSUME NEW k \in Keys, completed'[k] > 0
        PROVE  \E p \in Presses, part \in Parts :
                  Numbered(p) /\ PartFits(p, part) /\ k = FrameKey(p, part)
    <3>1. CASE k \in Superseded(r)
      <4>1. "prefix" \in Parts /\ PartFits(r.press, "prefix") /\ Numbered(r.press)
            /\ k = FrameKey(r.press, "prefix") /\ r.press \in Presses
        BY <3>1, OnlyItsPrefix, ReportFits DEF IsFrame, Parts
      <4> QED
        BY <4>1
    <3>2. CASE k \notin Superseded(r)
      BY <1>3, <2>2, <3>2 DEF Fits, CacheFits
    <3> QED
      BY <3>1, <3>2
  <2>3. ASSUME NEW n \in Sequences, terminals'[n] > 0
        PROVE  \E p \in Presses : Numbered(p) /\ press[p].by # {} /\ n = LastOf(p)
    <3>1. CASE terminals'[n] = terminals[n]
      BY <2>3, <3>1 DEF Fits, CacheFits
    <3>2. CASE r.complete /\ SequenceOf(r) # None /\ n = SequenceOf(r)
      <4>1. /\ r.press \in Presses /\ Numbered(r.press) /\ press[r.press].by # {}
            /\ IsFrame(r.press, r.part) /\ Key(r) = FrameKey(r.press, r.part)
            /\ n = Key(r)[1]
        BY <3>2, ReportFits
      <4>2. n = NumberOf(r.press, r.part)
        BY <4>1, FrameNumber DEF Fits
      <4>3. r.part = "terminal" <=> press[r.press].kind = "tilt"
        BY <3>2, ReportFits
      <4> QED
        BY <4>1, <4>2, <4>3 DEF LastOf, NumberOf
    <3> QED
      BY <1>3, <3>1, <3>2 DEF TypeOK
  <2>4. CacheFits'
    BY <1>1, <2>2, <2>3, FramesKept DEF CacheFits
  <2> QED
    BY <1>1, <2>1, <2>4, QuietFits DEF Fits
<1> QED
  BY <1>2, <1>3 DEF Receive

\* The task of a bucket.
LEMMA RoutedFits ==
    ASSUME TypeOK, Fits, NEW k \in Keys, Flush(k)
    PROVE  /\ pending[k] # None /\ pending[k] \in Buckets
           /\ routing' = IF Targets(pending[k]) = {} THEN routing
                         ELSE routing \cup {TaskOf(pending[k])}
           /\ LET t == TaskOf(pending[k])
              IN  /\ t.presses = pending[k].presses /\ t.part = pending[k].part
                  /\ t.at = None /\ t.todo = Targets(pending[k])
                  /\ t.heard = pending[k].completeSources
<1>1. pending[k] # None /\ Route(pending[k]) /\ pending[k] \in Buckets
  BY DEF Flush, TypeOK
<1> QED
  BY <1>1, TaskTyped

LEMMA FlushFits == ASSUME TypeOK, Fits, NEW k \in Keys, Flush(k) PROVE Fits'
<1>1. UNCHANGED <<press, sequence, Copies, terminals, events>>
  BY DEF Flush, Copies, air
<1>2. /\ pending' = [pending EXCEPT ![k] = None]
      /\ completed' = IF k[1] # None THEN [completed EXCEPT ![k] = Cache] ELSE completed
  BY DEF Flush, CacheAfterFlush
<1>3. BucketsFit'
  <2>1. pending \in [Keys -> Buckets \cup {None}]
    BY DEF TypeOK
  <2>2. \A c \in Keys : pending'[c] # None => pending'[c] = pending[c]
    BY <1>2, <2>1
  <2> QED
    BY <1>1, <2>2, FramesKept DEF Fits, BucketsFit, BucketFits
<1>4. TasksFit'
  <2> DEFINE b == pending[k]
             t == TaskOf(b)
  <2>1. t.presses = b.presses /\ t.part = b.part /\ routing' \subseteq routing \cup {t}
    BY RoutedFits
  <2>2. /\ b.presses # {}
        /\ \A p \in b.presses : IsFrame(p, b.part) /\ (Numbered(p) => b.presses = {p})
    BY RoutedFits, BucketIsOne DEF BucketFits
  <2> HIDE DEF b, t
  <2> QED
    BY <1>1, <2>1, <2>2, FramesKept DEF Fits, TasksFit
<1>5. CacheFits'
  <2>1. ASSUME NEW c \in Keys, completed'[c] > 0
        PROVE  \E p \in Presses, part \in Parts :
                  Numbered(p) /\ PartFits(p, part) /\ c = FrameKey(p, part)
    <3>1. CASE completed'[c] = completed[c]
      BY <2>1, <3>1 DEF Fits, CacheFits
    <3>2. CASE c = k /\ k[1] # None
      <4>1. pending[k] # None /\ pending[k].part \in Parts
        BY RoutedFits, BucketFields
      <4>2. PICK p \in pending[k].presses : /\ p \in Presses /\ IsFrame(p, pending[k].part)
                                           /\ k = FrameKey(p, pending[k].part) /\ Numbered(p)
        BY <3>2, <4>1, BucketIsOne DEF BucketFits
      <4> QED
        BY <3>2, <4>1, <4>2 DEF IsFrame
    <3> QED
      BY <1>2, <3>1, <3>2 DEF TypeOK
  <2>2. \A n \in Sequences : terminals'[n] > 0 =>
           \E p \in Presses : Numbered(p) /\ press[p].by # {} /\ n = LastOf(p)
    BY <1>1 DEF Fits, CacheFits
  <2> QED
    BY <1>1, <2>1, <2>2, FramesKept DEF CacheFits
<1> QED
  BY <1>1, <1>3, <1>4, <1>5, QuietFits DEF Fits

LEMMA ReconnectFits == ASSUME TypeOK, Fits, NEW r \in statuses, Reconnect(r) PROVE Fits'
<1>1. UNCHANGED <<press, sequence, routing, events, memory>> /\ Copies' \subseteq Copies
  BY DEF Reconnect, Copies
<1> QED
  BY <1>1, QuietFits DEF Fits, memory

\* A report but for its age.
Alike(r, e) ==
    e.by = r.by /\ e.press = r.press /\ e.part = r.part /\ e.complete = r.complete

LEMMA RestartFits == ASSUME TypeOK, Fits, Restart PROVE Fits'
<1>1. UNCHANGED <<press, sequence, events>>
  BY DEF Restart
<1>2. ReportsFit'
  <2>1. ASSUME NEW e \in Copies' PROVE \E r \in Copies : Alike(r, e)
    <3>1. PICK r \in statuses : e = [r EXCEPT !.left = 0]
      BY <2>1 DEF Copies, Restart
    <3>2. r \in Reports /\ r \in Copies
      BY DEF TypeOK, Copies
    <3>3. Alike(r, e)
      BY <3>1, <3>2 DEF Alike, Reports
    <3> QED
      BY <3>2, <3>3
  <2> QED
    BY <1>1, <2>1, FramesKept DEF Fits, ReportsFit, Alike
<1>3. BucketsFit' /\ TasksFit'
  BY DEF Restart, BucketsFit, TasksFit
<1>4. CacheFits'
  BY DEF Restart, CacheFits
<1> QED
  BY <1>1, <1>2, <1>3, <1>4, QuietFits DEF Fits

\* A task that goes on is of the same frame.
LEMMA BecomesFits ==
    ASSUME Fits, UNCHANGED press, NEW t \in routing, NEW u, Becomes(t, u),
           u.presses = t.presses, u.part = t.part
    PROVE  TasksFit'
<1>1. routing' \subseteq routing \cup {u}
  BY DEF Becomes
<1> QED
  BY <1>1, FramesKept DEF Fits, TasksFit

LEMMA DeliverFits ==
    ASSUME TypeOK, Fits, NEW t \in routing, NEW s \in t.todo, Deliver(t, s) PROVE Fits'
<1>1. UNCHANGED <<press, sequence, Copies, memory>>
  BY DEF Deliver, Copies, air
<1>2. t \in Tasks /\ s \in Shutters
  BY DEF TypeOK, Tasks
<1>3. TasksFit'
  <2> DEFINE u == IF owner[s] \in t.heard THEN [t EXCEPT !.todo = @ \ {s}]
                  ELSE [t EXCEPT !.at = s]
  <2>1. Becomes(t, u)
    BY DEF Deliver
  <2>2. u.presses = t.presses /\ u.part = t.part
    BY <1>2 DEF Tasks
  <2> HIDE DEF u
  <2> QED
    BY <1>1, <2>1, <2>2, BecomesFits
<1>4. EventsFit'
  <2>1. ASSUME NEW p \in Presses, NEW part \in Parts, NEW z \in Shutters, events'[p][part][z] > 0
        PROVE  IsFrame(p, part)
    <3>1. events'[p] = IF p \in t.presses THEN [events[p] EXCEPT ![t.part][s] = @ + 1]
                       ELSE events[p]
      BY DEF Deliver
    <3>2. CASE p \in t.presses /\ part = t.part
      BY <3>2 DEF Fits, TasksFit
    <3>3. CASE ~(p \in t.presses /\ part = t.part)
      <4>1. events[p] \in [Parts -> [Shutters -> Nat]]
        BY DEF TypeOK
      <4>2. events'[p][part] = events[p][part]
        BY <3>1, <3>3, <4>1
      <4> QED
        BY <2>1, <4>2 DEF Fits, EventsFit
    <3> QED
      BY <3>2, <3>3
  <2> QED
    BY <1>1, <2>1, FramesKept DEF EventsFit
<1> QED
  BY <1>1, <1>3, <1>4, QuietFits DEF Fits, memory

LEMMA EndsFits ==
    ASSUME TypeOK, Fits, NEW t \in routing, Forwarded(t) \/ ForwardFails(t) PROVE Fits'
<1>1. UNCHANGED <<press, sequence, Copies, memory, events>>
  BY DEF Forwarded, ForwardFails, Copies, air
<1>2. t \in Tasks /\ t.at \in Shutters
  BY DEF TypeOK, Tasks, Forwarded, ForwardFails
<1>3. TasksFit'
  <2> DEFINE u == [t EXCEPT !.at = None, !.todo = @ \ {t.at}]
  <2>1. Becomes(t, u) /\ u.presses = t.presses /\ u.part = t.part
    BY <1>2, TaskFields DEF Forwarded, ForwardFails
  <2> HIDE DEF u
  <2> QED
    BY <1>1, <2>1, BecomesFits
<1> QED
  BY <1>1, <1>3, QuietFits DEF Fits, memory

\* What time does: it only lets the timers run.
Older(r, e) == e \in Reports /\ Alike(r, e) /\ e.left = Less(r.left)

LEMMA TickEffect ==
    ASSUME TypeOK, Tick
    PROVE  /\ \A e \in reports' : \E r \in reports : Older(r, e)
           /\ \A r \in reports : \E e \in reports' : Older(r, e)
           /\ \A e \in Copies' : \E r \in Copies : Older(r, e)
           /\ \A k \in Keys :
                 /\ pending'[k] = None <=> pending[k] = None
                 /\ pending[k] # None =>
                       /\ pending'[k].sources = pending[k].sources
                       /\ pending'[k].completeSources = pending[k].completeSources
                       /\ pending'[k].complete = pending[k].complete
                       /\ pending'[k].presses = pending[k].presses
                       /\ pending'[k].part = pending[k].part
                       /\ pending'[k].left = pending[k].left - 1
           /\ \A k \in Keys : completed'[k] = Less(completed[k])
           /\ \A n \in Sequences : terminals'[n] = Less(terminals[n])
<1>1. ASSUME NEW r \in Reports PROVE Older(r, Aged(r))
  <2>1. Aged(r) \in Reports
    BY AgedTyped
  <2> QED
    BY <2>1 DEF Older, Alike, Aged, Reports
<1>2. /\ reports' = {Aged(r) : r \in reports} /\ statuses' = {Aged(r) : r \in statuses}
      /\ reports \subseteq Reports /\ statuses \subseteq Reports
  BY DEF Tick, TypeOK
<1>3. /\ \A e \in reports' : \E r \in reports : Older(r, e)
      /\ \A r \in reports : \E e \in reports' : Older(r, e)
      /\ \A e \in Copies' : \E r \in Copies : Older(r, e)
  BY <1>1, <1>2 DEF Copies
<1>4. ASSUME NEW k \in Keys, pending[k] # None
      PROVE  /\ pending'[k] # None
             /\ pending'[k].sources = pending[k].sources
             /\ pending'[k].completeSources = pending[k].completeSources
             /\ pending'[k].complete = pending[k].complete
             /\ pending'[k].presses = pending[k].presses
             /\ pending'[k].part = pending[k].part
             /\ pending'[k].left = pending[k].left - 1
  <2>1. pending'[k] = [pending[k] EXCEPT !.left = @ - 1]
    BY <1>4 DEF Tick
  <2>2. pending[k] \in Buckets
    BY <1>4 DEF TypeOK
  <2>3. pending'[k] \in Buckets
    <3>1. pending[k].left > 0
      BY <1>4 DEF Tick
    <3>2. pending[k].left - 1 \in 0 .. Window
      BY <2>2, <3>1, Bounds, BucketFields
    <3> QED
      BY <2>1, <2>2, <3>2 DEF Buckets
  <2> QED
    BY <2>1, <2>2, <2>3, BucketFields DEF Buckets
<1>5. \A k \in Keys : pending[k] = None => pending'[k] = None
  BY DEF Tick
<1>6. /\ \A k \in Keys : completed'[k] = Less(completed[k])
      /\ \A n \in Sequences : terminals'[n] = Less(terminals[n])
  BY DEF Tick
<1> QED
  BY <1>3, <1>4, <1>5, <1>6

LEMMA TickFits == ASSUME TypeOK, Fits, Tick PROVE Fits'
<1>1. UNCHANGED <<press, sequence, routing, events>>
  BY DEF Tick
<1>2. ReportsFit'
  BY <1>1, TickEffect, FramesKept DEF Fits, ReportsFit, Older, Alike
<1>3. BucketsFit'
  BY <1>1, TickEffect, FramesKept DEF Fits, BucketsFit, BucketFits
<1>4. CacheFits'
  <2>1. \A k \in Keys : completed'[k] > 0 => completed[k] > 0
    BY TickEffect, Bounds DEF Less, TypeOK
  <2>2. \A n \in Sequences : terminals'[n] > 0 => terminals[n] > 0
    BY TickEffect, Bounds DEF Less, TypeOK
  <2> QED
    BY <1>1, <2>1, <2>2, FramesKept DEF Fits, CacheFits
<1> QED
  BY <1>1, <1>2, <1>3, <1>4, QuietFits DEF Fits

-----------------------------------------------------------------------------
(* The remote is pressed *)

\* A report of the new press.
NewReport(r, p, k, whole, prefix, terminal) ==
    /\ r.press = p /\ r.left = MaxDelay
    /\ \/ r.by \in whole /\ r.part = "whole" /\ r.complete
       \/ r.by \in prefix /\ r.part = (IF k = "tilt" THEN "prefix" ELSE "whole") /\ ~r.complete
       \/ r.by \in terminal /\ r.part = "terminal" /\ r.complete

LEMMA PressEffect ==
    ASSUME TypeOK, Fits, NEW p \in Presses, NEW k \in Kinds,
           NEW whole \in SUBSET Bridges, NEW prefix \in SUBSET Bridges,
           NEW terminal \in SUBSET Bridges, PressedNow(p, k, whole, prefix, terminal)
    PROVE  /\ IsNext(p) /\ Pressed(p)' /\ press'[p].kind = k /\ press'[p].first = sequence
           /\ press'[p].by = whole \cup terminal
           /\ UNCHANGED <<pending, completed, terminals, routing, events, disturbed,
                          owner, paired, group>>
           /\ \A q \in Presses \ {p} : press'[q] = press[q]
           /\ \A r \in reports' : r \in reports \/ NewReport(r, p, k, whole, prefix, terminal)
           /\ \A r \in Copies' : r \in Copies \/ NewReport(r, p, k, whole, prefix, terminal)
           /\ reports \subseteq reports'
           /\ \A q \in Presses \ {p} : moves'[q] = moves[q]
           /\ \A s \in Shutters : moves'[p][s] =
                 IF s \in Mapped /\ owner[s] \in whole \cup terminal THEN 1 ELSE 0
<1>0. Press(p, k, whole, prefix, terminal)
  BY DEF PressedNow
<1>1. IsNext(p)
  BY <1>0 DEF Press, IsNext, Pressed
<1> DEFINE x == [kind |-> k, first |-> sequence, by |-> whole \cup terminal]
<1>2. /\ press'[p] = x /\ \A q \in Presses \ {p} : press'[q] = press[q]
  BY <1>0 DEF Press, TypeOK
<1>3. x \in PressRecords
  BY DEF PressRecords, TypeOK
<1>4. x # None /\ x.kind = k /\ x.first = sequence /\ x.by = whole \cup terminal
  BY <1>3, PressFields
<1>5. Pressed(p)'
  BY <1>2, <1>4 DEF Pressed
<1>6. reports' = reports
             \cup {[by |-> b, press |-> p, part |-> "whole", complete |-> TRUE,
                    left |-> MaxDelay] : b \in whole}
             \cup {[by |-> b, press |-> p, part |-> IF k = "tilt" THEN "prefix" ELSE "whole",
                    complete |-> FALSE, left |-> MaxDelay] : b \in prefix}
             \cup {[by |-> b, press |-> p, part |-> "terminal", complete |-> TRUE,
                    left |-> MaxDelay] : b \in terminal}
  BY <1>0 DEF Press
<1>7. ASSUME NEW r \in reports', r \notin reports
      PROVE  NewReport(r, p, k, whole, prefix, terminal)
  BY <1>6, <1>7 DEF NewReport
<1>11. \A r \in Copies' : r \in Copies \/ NewReport(r, p, k, whole, prefix, terminal)
  <2>1. statuses' \subseteq statuses \cup reports'
    BY <1>0 DEF Press
  <2> QED
    BY <1>7, <2>1 DEF Copies
<1>8. /\ \A q \in Presses \ {p} : moves'[q] = moves[q]
      /\ \A s \in Shutters : moves'[p][s] =
            IF s \in Mapped /\ owner[s] \in whole \cup terminal THEN 1 ELSE 0
  BY <1>0 DEF Press, TypeOK
<1>9. UNCHANGED <<pending, completed, terminals, routing, events, disturbed,
                  owner, paired, group>>
  BY <1>0 DEF Press, memory, site
<1>10. reports \subseteq reports'
  BY <1>6
<1> HIDE DEF x
<1> QED
  BY <1>1, <1>2, <1>4, <1>5, <1>7, <1>8, <1>9, <1>10, <1>11

\* What is known of the frames of the other presses stays so.
LEMMA OtherFramesKept ==
    ASSUME NEW q, press'[q] = press[q]
    PROVE  /\ Pressed(q)' = Pressed(q) /\ Numbered(q)' = Numbered(q)
           /\ LastOf(q)' = LastOf(q)
           /\ \A part : /\ PartFits(q, part)' = PartFits(q, part)
                        /\ IsFrame(q, part)' = IsFrame(q, part)
                        /\ FrameKey(q, part)' = FrameKey(q, part)
  BY DEF Pressed, Numbered, LastOf, PartFits, IsFrame, FrameKey, Key, SequenceOf

\* The numbers of the next press follow.
LEMMA PressNumbers ==
    ASSUME TypeOK, Fits, NEW p \in Presses, NEW k \in Kinds,
           NEW whole \in SUBSET Bridges, NEW prefix \in SUBSET Bridges,
           NEW terminal \in SUBSET Bridges, PressedNow(p, k, whole, prefix, terminal)
    PROVE  NumbersFit'
<1>1. /\ IsNext(p) /\ Pressed(p)' /\ press'[p].kind = k /\ press'[p].first = sequence
      /\ \A q \in Presses \ {p} : press'[q] = press[q]
  BY PressEffect
<1>2. /\ ~Pressed(p) /\ \A q \in 1 .. (p - 1) : Pressed(q)
      /\ Offset(sequence) <= 2 * (p - 1)
      /\ \A q \in 1 .. (p - 1) :
            Offset(press[q].first) + Width(press[q].kind) <= Offset(sequence)
  BY <1>1 DEF Fits, NumbersFit, IsNext
<1>3. p \in Nat /\ 1 <= p /\ p <= MaxPresses /\ MaxPresses \in Nat /\ Presses = 1 .. MaxPresses
  BY Bounds DEF Presses
<1>4. ASSUME NEW x \in Presses, Pressed(x), NEW q \in 1 .. (x - 1) PROVE q \in Presses /\ Pressed(q)
  BY <1>3, <1>4 DEF Fits, NumbersFit
<1>5. \A q \in Presses \ {p} : Pressed(q)' = Pressed(q)
  BY <1>1, OtherFramesKept
<1>6. ASSUME NEW x \in Presses, Pressed(x)' PROVE \A q \in 1 .. (x - 1) : Pressed(q)'
  <2> SUFFICES ASSUME NEW q \in 1 .. (x - 1) PROVE Pressed(q)'
    OBVIOUS
  <2>1. q \in Presses
    BY <1>3
  <2>2. CASE x = p
    BY <1>2, <1>5, <2>1, <2>2
  <2>3. CASE x # p
    BY <1>1, <1>4, <1>5, <1>6, <2>1, <2>3
  <2> QED
    BY <2>2, <2>3
<1>7. ASSUME NEW x \in Presses, Pressed(x)' PROVE Offset(press'[x].first) <= 2 * (x - 1)
  BY <1>1, <1>2, <1>5, <1>7 DEF Fits, NumbersFit
<1>8. ASSUME NEW x \in Presses, NEW q \in Presses, q < x, Pressed(x)'
      PROVE  Offset(press'[q].first) + Width(press'[q].kind) <= Offset(press'[x].first)
  <2>1. q \in 1 .. (x - 1)
    BY <1>3, <1>8
  <2>2. CASE x = p
    <3>1. q # p
      BY <1>8, <2>2, <1>3
    <3> QED
      BY <1>1, <1>2, <2>1, <2>2, <3>1
  <2>3. CASE x # p
    <3>1. Pressed(x)
      BY <1>5, <1>8, <2>3
    <3>2. q # p
      BY <1>2, <1>4, <2>1, <3>1
    <3> QED
      BY <1>1, <1>8, <2>3, <3>1, <3>2 DEF Fits, NumbersFit
  <2> QED
    BY <2>2, <2>3
<1>9. ASSUME NEW x \in Presses, ~Pressed(x)', \A q \in 1 .. (x - 1) : Pressed(q)'
      PROVE  /\ Offset(sequence') <= 2 * (x - 1)
             /\ \A q \in 1 .. (x - 1) :
                   Offset(press'[q].first) + Width(press'[q].kind) <= Offset(sequence')
  <2>1. x # p /\ ~Pressed(x)
    BY <1>1, <1>5, <1>9
  <2>2. ~(x < p)
    BY <1>2, <1>3, <2>1
  <2>3. ~(p + 1 < x)
    <3>1. ASSUME p + 1 < x PROVE FALSE
      <4>1. p + 1 \in Presses /\ p + 1 \in 1 .. (x - 1) /\ p + 1 # p /\ p \in 1 .. ((p + 1) - 1)
        BY <1>3, <3>1
      <4>2. Pressed(p + 1)
        BY <1>5, <1>9, <4>1
      <4> QED
        BY <1>2, <1>4, <4>1, <4>2
    <3> QED
      BY <3>1
  <2>4. x = p + 1 /\ p + 1 <= MaxPresses
    BY <1>3, <2>1, <2>2, <2>3
  <2>5. Offset(sequence') = Offset(sequence) + Width(k)
    <3>1. sequence \in Sequences /\ Offset(sequence) \in Nat
      BY OffsetFits, Bounds DEF TypeOK
    <3>2. Offset(sequence) < SeqMod - 1 /\ Offset(sequence) + 1 < SeqMod - 1
      BY <1>2, <1>3, <2>4, <3>1, Bounds
    <3>3. After(sequence) \in Sequences /\ Offset(After(sequence)) = Offset(sequence) + 1
      BY <3>1, <3>2, OffsetFits, NextNumber
    <3>4. Offset(After(After(sequence))) = Offset(sequence) + 2
      BY <3>1, <3>2, <3>3, OffsetFits
    <3>5. CASE k = "stop"
      BY <3>1, <3>5 DEF PressedNow, Width
    <3>6. CASE k = "my"
      BY <3>3, <3>6 DEF PressedNow, Width
    <3>7. CASE k = "tilt"
      BY <3>4, <3>7 DEF PressedNow, Width
    <3> QED
      BY <3>5, <3>6, <3>7 DEF Kinds
  <2>6. Width(k) \in 0 .. 2 /\ Offset(sequence) \in Nat
    BY OffsetFits, Bounds DEF TypeOK, Width, Kinds
  <2>7. Offset(sequence') <= 2 * (x - 1)
    BY <1>2, <1>3, <2>4, <2>5, <2>6
  <2>8. ASSUME NEW q \in 1 .. (x - 1)
        PROVE  Offset(press'[q].first) + Width(press'[q].kind) <= Offset(sequence')
    <3>1. CASE q = p
      BY <1>1, <2>5, <2>6, <3>1
    <3>2. CASE q # p
      <4>1. q \in 1 .. (p - 1) /\ q \in Presses
        BY <1>3, <2>4, <3>2
      <4>2. /\ press'[q] = press[q] /\ press[q] \in PressRecords
            /\ Offset(press[q].first) + Width(press[q].kind) <= Offset(sequence)
        BY <1>1, <1>2, <3>2, <4>1 DEF Pressed, TypeOK
      <4>3. Offset(press[q].first) \in Nat /\ Width(press[q].kind) \in Nat
        BY <4>2, PressFields, OffsetFits, Bounds DEF Width, Kinds
      <4> QED
        BY <2>5, <2>6, <4>2, <4>3
    <3> QED
      BY <3>1, <3>2
  <2> QED
    BY <2>7, <2>8
<1>10. ASSUME NEW x \in Presses, IsNext(x)'
       PROVE  ~Pressed(x)' /\ \A q \in 1 .. (x - 1) : Pressed(q)'
  BY <1>10 DEF IsNext
<1> QED
  BY <1>6, <1>7, <1>8, <1>9, <1>10 DEF NumbersFit

LEMMA PressFits ==
    ASSUME TypeOK, Fits, NEW p \in Presses, NEW k \in Kinds,
           NEW whole \in SUBSET Bridges, NEW prefix \in SUBSET Bridges,
           NEW terminal \in SUBSET Bridges, PressedNow(p, k, whole, prefix, terminal)
    PROVE  Fits'
<1>1. /\ ~Pressed(p) /\ Pressed(p)' /\ press'[p].kind = k
      /\ press'[p].by = whole \cup terminal
      /\ UNCHANGED <<pending, completed, terminals, routing, events>>
      /\ \A q \in Presses \ {p} : press'[q] = press[q]
      /\ \A r \in Copies' : r \in Copies \/ NewReport(r, p, k, whole, prefix, terminal)
  <2>1. /\ IsNext(p) /\ Pressed(p)' /\ press'[p].kind = k
        /\ \A q \in Presses \ {p} : press'[q] = press[q]
        /\ \A r \in Copies' : r \in Copies \/ NewReport(r, p, k, whole, prefix, terminal)
    BY PressEffect
  <2>4. press'[p].by = whole \cup terminal
    BY DEF PressedNow, Press, TypeOK
  <2>2. ~Pressed(p)
    BY <2>1 DEF IsNext
  <2>3. UNCHANGED <<pending, completed, terminals, routing, events>>
    BY DEF PressedNow, Press, memory
  <2> QED
    BY <2>1, <2>2, <2>3, <2>4
<1>2. ASSUME NEW q \in Presses, Pressed(q)
      PROVE  /\ press'[q] = press[q] /\ Pressed(q)' /\ Numbered(q)' = Numbered(q)
             /\ LastOf(q)' = LastOf(q)
             /\ \A part : /\ PartFits(q, part)' = PartFits(q, part)
                          /\ IsFrame(q, part)' = IsFrame(q, part)
                          /\ FrameKey(q, part)' = FrameKey(q, part)
  <2>1. press'[q] = press[q]
    BY <1>1, <1>2
  <2> QED
    BY <1>2, <2>1, OtherFramesKept
<1>3. ReportsFit'
  <2>1. ASSUME NEW r \in Copies'
        PROVE  /\ IsFrame(r.press, r.part)'
               /\ r.complete <=> IF press'[r.press].kind = "tilt" THEN r.part = "terminal"
                                 ELSE r.by \in press'[r.press].by
               /\ r.complete => r.by \in press'[r.press].by
               /\ press'[r.press].kind = "my" => r.complete
    <3>1. CASE r \in Copies
      <4>1. r.press \in Presses /\ Pressed(r.press)
        BY <3>1, CopyFits DEF IsFrame
      <4>2. press'[r.press] = press[r.press] /\ IsFrame(r.press, r.part)' = IsFrame(r.press, r.part)
        BY <1>2, <4>1
      <4> QED
        BY <3>1, <4>2 DEF Fits, ReportsFit
    <3>2. CASE NewReport(r, p, k, whole, prefix, terminal)
      <4>1. /\ r.press = p
            /\ k = "stop" => terminal = {}
            /\ k = "my" => prefix = {} /\ terminal = {}
            /\ k = "tilt" => whole = {}
            /\ whole \cap prefix = {}
        BY <3>2 DEF NewReport, PressedNow
      <4>2. IsFrame(p, r.part)'
        BY <1>1, <3>2, <4>1 DEF NewReport, IsFrame, PartFits, Kinds
      <4> QED
        BY <1>1, <3>2, <4>1, <4>2 DEF NewReport, Kinds
    <3> QED
      BY <1>1, <3>1, <3>2
  <2> QED
    BY <2>1 DEF ReportsFit
<1>4. BucketsFit'
  <2>1. ASSUME NEW c \in Keys, pending[c] # None PROVE BucketFits(c, pending[c])'
    <3>1. pending[c].presses # {} /\ pending[c] = pending'[c]
      BY <1>1, <2>1, BucketIsOne DEF BucketFits
    <3>2. ASSUME NEW q \in pending[c].presses
          PROVE  /\ IsFrame(q, pending[c].part)' /\ c = FrameKey(q, pending[c].part)'
                 /\ pending[c].part = "prefix" => ~pending[c].complete
                 /\ pending[c].part = "terminal" \/ press'[q].kind = "my" => pending[c].complete
                 /\ pending[c].part = "terminal" => press'[q].by # {}
      <4>1. q \in Presses /\ IsFrame(q, pending[c].part) /\ Pressed(q)
        BY <2>1, BucketIsOne DEF IsFrame
      <4>2. /\ c = FrameKey(q, pending[c].part)
            /\ pending[c].part = "prefix" => ~pending[c].complete
            /\ pending[c].part = "terminal" \/ press[q].kind = "my" => pending[c].complete
            /\ pending[c].part = "terminal" => press[q].by # {}
        BY <2>1, BucketIsOne DEF BucketFits
      <4>3. /\ press'[q] = press[q]
            /\ IsFrame(q, pending[c].part)' = IsFrame(q, pending[c].part)
            /\ FrameKey(q, pending[c].part)' = FrameKey(q, pending[c].part)
        <5>1. /\ press'[q] = press[q]
              /\ \A part : /\ IsFrame(q, part)' = IsFrame(q, part)
                           /\ FrameKey(q, part)' = FrameKey(q, part)
          BY <1>2, <4>1
        <5> QED
          BY <1>1, <5>1
      <4> QED
        BY <4>1, <4>2, <4>3
    <3> QED
      BY <3>1, <3>2 DEF BucketFits
  <2> QED
    BY <1>1, <2>1 DEF BucketsFit, BucketFits
<1>5. TasksFit'
  <2>1. ASSUME NEW t \in routing, NEW q \in t.presses
        PROVE  IsFrame(q, t.part)' /\ (Numbered(q)' => t.presses = {q})
    <3>1. q \in Presses
      BY DEF TypeOK, Tasks
    <3>2. IsFrame(q, t.part) /\ (Numbered(q) => t.presses = {q}) /\ Pressed(q)
      BY DEF Fits, TasksFit, IsFrame
    <3> QED
      BY <1>2, <3>1, <3>2
  <2> QED
    BY <1>1, <2>1 DEF Fits, TasksFit
<1>6. CacheFits'
  <2>1. ASSUME NEW c \in Keys, completed[c] > 0
        PROVE  \E q \in Presses, part \in Parts :
                  Numbered(q)' /\ PartFits(q, part)' /\ c = FrameKey(q, part)'
    <3>1. PICK q \in Presses, part \in Parts :
             Numbered(q) /\ PartFits(q, part) /\ c = FrameKey(q, part)
      BY <2>1 DEF Fits, CacheFits
    <3> QED
      BY <1>2, <3>1 DEF Numbered
  <2>2. ASSUME NEW n \in Sequences, terminals[n] > 0
        PROVE  \E q \in Presses : Numbered(q)' /\ press'[q].by # {} /\ n = LastOf(q)'
    <3>1. PICK q \in Presses : Numbered(q) /\ press[q].by # {} /\ n = LastOf(q)
      BY <2>2 DEF Fits, CacheFits
    <3>2. Pressed(q)
      BY <3>1 DEF Numbered
    <3> QED
      BY <1>2, <3>1, <3>2
  <2> QED
    BY <1>1, <2>1, <2>2 DEF CacheFits
<1>7. EventsFit'
  <2>1. ASSUME NEW q \in Presses, NEW part \in Parts, NEW s \in Shutters, events[q][part][s] > 0
        PROVE  IsFrame(q, part)'
    <3>1. IsFrame(q, part) /\ Pressed(q)
      BY <2>1 DEF Fits, EventsFit, IsFrame
    <3> QED
      BY <1>2, <3>1
  <2> QED
    BY <1>1, <2>1 DEF EventsFit
<1> QED
  BY <1>3, <1>4, <1>5, <1>6, <1>7, PressNumbers DEF Fits

LEMMA StepFits == ASSUME TypeOK, Fits, [Next]_vars PROVE Fits'
<1>1. ASSUME NEW p \in Presses, PressStop(p) \/ PressMy(p) \/ PressTilt(p) PROVE Fits'
  BY <1>1, OnePress, PressFits
<1>2. CASE UNCHANGED vars
  BY <1>2, QuietFits DEF Fits, vars, memory, Copies, air
<1> QED
  BY <1>1, <1>2, ReceiveFits, ReconnectFits, FlushFits, DeliverFits, EndsFits, TickFits,
     RestartFits DEF Next

-----------------------------------------------------------------------------
(* A frame makes one event *)

\* The numbers of the next press are of no frame before it.
LEMMA FreshKey ==
    ASSUME TypeOK, Fits, NEW p \in Presses, NEW k \in Kinds,
           NEW whole \in SUBSET Bridges, NEW prefix \in SUBSET Bridges,
           NEW terminal \in SUBSET Bridges, PressedNow(p, k, whole, prefix, terminal),
           k # "stop", NEW part, PartFits(p, part)'
    PROVE  /\ FrameKey(p, part)' \in Keys
           /\ FrameKey(p, part)'[1] = IF part = "terminal" THEN After(sequence) ELSE sequence
           /\ FrameKey(p, part)'[1] \in Sequences
           /\ \A q \in Presses : \A b : IsFrame(q, b) => FrameKey(q, b)[1] # FrameKey(p, part)'[1]
<1>1. /\ IsNext(p) /\ ~Pressed(p) /\ press'[p].kind = k /\ press'[p].first = sequence
  BY PressEffect DEF IsNext
<1> DEFINE n == IF part = "terminal" THEN After(sequence) ELSE sequence
<1>2. FrameKey(p, part)' = <<n, IF part = "terminal" THEN "tilt_clockwise" ELSE "stop_my">>
  BY <1>1 DEF FrameKey, Key, SequenceOf
<1>3. sequence \in Sequences /\ n \in Sequences
  BY NextNumber DEF TypeOK
<1>4. p \in Nat /\ 1 <= p /\ p <= MaxPresses /\ MaxPresses \in Nat /\ Presses = 1 .. MaxPresses
  BY Bounds DEF Presses
<1>5. /\ Offset(sequence) <= 2 * (p - 1)
      /\ \A q \in 1 .. (p - 1) :
            Offset(press[q].first) + Width(press[q].kind) <= Offset(sequence)
  BY <1>1 DEF Fits, NumbersFit
<1>6. Offset(sequence) \in Nat /\ Offset(n) \in Nat /\ Offset(sequence) <= Offset(n)
  <2>1. Offset(sequence) \in Nat /\ Offset(n) \in Nat
    BY <1>3, OffsetFits, Bounds
  <2>2. Offset(sequence) < SeqMod - 1
    BY <1>4, <1>5, <2>1, Bounds
  <2>3. Offset(After(sequence)) = Offset(sequence) + 1
    BY <1>3, <2>2, OffsetFits
  <2> QED
    BY <2>1, <2>3
<1>7. n # None
  BY <1>3, NoneIsNoValue DEF NoneIsNoValue
<1> HIDE DEF n
<1>8. ASSUME NEW q \in Presses, NEW b, IsFrame(q, b), FrameKey(q, b)[1] = n PROVE FALSE
  <2>1. Numbered(q) /\ n = NumberOf(q, b) /\ Pressed(q)
        /\ Offset(n) < Offset(press[q].first) + Width(press[q].kind)
    BY <1>7, <1>8, FrameNumber DEF Fits, IsFrame
  <2>2. q # p
    BY <1>1, <2>1
  <2>3. ~(p < q)
    <3>1. p < q => p \in 1 .. (q - 1)
      BY <1>4
    <3> QED
      BY <1>1, <2>1, <3>1 DEF Fits, NumbersFit
  <2>4. q \in 1 .. (p - 1)
    BY <1>4, <2>2, <2>3
  <2>5. Offset(press[q].first) \in Nat /\ Width(press[q].kind) \in Nat
    BY <1>8, FrameNumber, PressFields, OffsetFits, Bounds DEF Width, Kinds, Fits
  <2> QED
    BY <1>5, <1>6, <2>1, <2>4, <2>5
<1>9. FrameKey(p, part)' \in Keys /\ FrameKey(p, part)'[1] = n
  BY <1>2, <1>3 DEF Keys
<1>10. \A q \in Presses : \A b : IsFrame(q, b) => FrameKey(q, b)[1] # FrameKey(p, part)'[1]
  BY <1>8, <1>9
<1> QED
  BY <1>3, <1>9, <1>10 DEF n

\* The types that the steps below refer to.
LEMMA Counts ==
    ASSUME TypeOK
    PROVE  /\ \A p \in Presses, part \in Parts, s \in Shutters : events[p][part][s] \in Nat
           /\ \A p \in Presses, s \in Shutters : moves[p][s] \in Nat
           /\ \A k \in Keys : completed[k] \in Nat /\ completed[k] <= Cache
           /\ \A n \in Sequences : terminals[n] \in Nat /\ terminals[n] <= Cache
           /\ \A t \in routing : /\ t \in Tasks /\ t.presses \subseteq Presses
                                 /\ t.part \in Parts /\ t.todo \subseteq Shutters
                                 /\ t.at \in t.todo \cup {None}
           /\ None \notin Shutters
  BY Bounds, NoneIsNoValue DEF TypeOK, Tasks, NoneIsNoValue

LEMMA InitOnce == Init => OnceInv
  BY DEF Init, OnceInv, Numbered, Pressed

\* A frame with a number.
FrameWithNumber(p, part) ==
    p \in Presses /\ part \in Parts /\ Numbered(p) /\ PartFits(p, part)

\* What no event is started by.
LEMMA OnceSame ==
    ASSUME NEW p, NEW part, Once(p, part), UNCHANGED <<press, routing, events>>,
           pending'[FrameKey(p, part)] # None => ~Begun(p, part),
           Begun(p, part) =>
              \A r \in Copies' : r.press = p /\ r.part = part /\ r.left > 0 =>
                 r.left <= completed'[FrameKey(p, part)]
    PROVE  Once(p, part)'
<1>1. FrameKey(p, part)' = FrameKey(p, part)
  BY FramesKept
<1>2. Begun(p, part)' = Begun(p, part)
  BY DEF Begun, IsTask
<1> QED
  BY <1>1, <1>2 DEF Once, IsTask

LEMMA ReceiveOnce ==
    ASSUME TypeOK, Fits, NEW r \in reports, Receive(r),
           NEW p, NEW part, FrameWithNumber(p, part), Once(p, part), p \notin stale'
    PROVE  Once(p, part)'
<1> DEFINE K == FrameKey(p, part)
<1>1. UNCHANGED <<press, routing, events>> /\ Copies' \subseteq Copies /\ r \in Copies
  BY DEF Receive, Copies, air
<1>2. /\ p \in Presses /\ IsFrame(p, part) /\ Numbered(p) /\ K \in Keys /\ K[1] # None
      /\ NumbersFit
  BY FrameNumber DEF FrameWithNumber, IsFrame, Numbered, Fits
<1>3. CASE UNCHANGED memory
  BY <1>1, <1>3, OnceSame DEF Once, memory
<1>4. CASE /\ completed' = [k \in Keys |-> IF k \in Superseded(r) THEN Cache
                                           ELSE completed[k]]
           /\ pending' = Collected(r)
  <2>1. ASSUME pending'[K] # None, Begun(p, part) PROVE FALSE
    <3>1. pending[K] = None
      BY <2>1 DEF Once
    <3>2. K = Key(r) /\ ~Repeated(r)
      BY <1>2, <1>4, <2>1, <3>1 DEF Collected
    <3>3. r.press = p /\ r.part = part
      BY <1>2, <3>2, ReportFits, KeyTells
    <3>4. r.left \in Nat /\ r.left > 0
      <4>1. r.left # 0
        BY <3>3 DEF Receive
      <4> QED
        BY <4>1, ReportFits, Bounds
    <3>5. r.left <= completed[K]
      BY <1>1, <2>1, <3>3, <3>4 DEF Once
    <3>6. ~(completed[K] > 0)
      BY <1>2, <3>2 DEF Repeated, CacheAfterFlush
    <3> QED
      BY <1>2, <3>4, <3>5, <3>6, Counts
  <2>2. ASSUME Begun(p, part), NEW e \in Copies', e.press = p, e.part = part, e.left > 0
        PROVE  e.left <= completed'[K]
    <3>1. e \in Copies /\ e.left <= completed[K]
      BY <1>1, <2>2 DEF Once
    <3>2. e.left \in 0 .. MaxDelay
      BY <3>1, CopyFits
    <3> QED
      BY <1>2, <1>4, <3>1, <3>2, Bounds
  <2> HIDE DEF K
  <2> QED
    BY <1>1, <2>1, <2>2, OnceSame DEF K
<1> QED
  BY <1>3, <1>4 DEF Receive

LEMMA TickOnce ==
    ASSUME TypeOK, Fits, Tick, NEW p, NEW part, FrameWithNumber(p, part), Once(p, part)
    PROVE  Once(p, part)'
<1> DEFINE K == FrameKey(p, part)
<1>1. UNCHANGED <<press, routing, events>>
  BY DEF Tick
<1>2. K \in Keys
  BY FrameNumber DEF FrameWithNumber, IsFrame, Numbered, Fits
<1>3. pending'[K] # None => ~Begun(p, part)
  BY <1>2, TickEffect DEF Once
<1>4. ASSUME Begun(p, part), NEW e \in Copies', e.press = p, e.part = part, e.left > 0
      PROVE  e.left <= completed'[K]
  <2>1. PICK r \in Copies : Older(r, e)
    BY TickEffect
  <2>2. r.left \in Nat /\ completed[K] \in Nat /\ e.left = Less(r.left)
        /\ completed'[K] = Less(completed[K])
    BY <1>2, <2>1, TickEffect, CopyFits, Counts, Bounds DEF Older
  <2>3. r.left > 0
    BY <1>4, <2>2 DEF Less
  <2>4. r.left <= completed[K]
    BY <1>4, <2>1, <2>3 DEF Once, Older, Alike
  <2> HIDE DEF K
  <2> QED
    BY <2>2, <2>3, <2>4 DEF Less
<1> QED
  BY <1>1, <1>3, <1>4, OnceSame

LEMMA FlushOnce ==
    ASSUME TypeOK, Fits, NEW k \in Keys, Flush(k),
           NEW p, NEW part, FrameWithNumber(p, part), Once(p, part)
    PROVE  Once(p, part)'
<1> DEFINE K == FrameKey(p, part)
           b == pending[k]
           t == TaskOf(b)
<1>1. /\ UNCHANGED <<press, Copies, events>> /\ pending' = [pending EXCEPT ![k] = None]
      /\ Copies' = Copies
  BY DEF Flush, Copies, air
<1>2. /\ p \in Presses /\ part \in Parts /\ IsFrame(p, part) /\ Numbered(p)
      /\ K \in Keys /\ K[1] # None /\ NumbersFit
  BY FrameNumber DEF FrameWithNumber, IsFrame, Numbered, Fits
<1>3. completed' = IF k[1] # None THEN [completed EXCEPT ![k] = Cache] ELSE completed
  BY DEF Flush, CacheAfterFlush
<1>4. /\ t.presses = b.presses /\ t.part = b.part /\ b # None
      /\ routing' = routing \/ routing' = routing \cup {t}
  BY RoutedFits
<1>5. p \in b.presses /\ b.part = part => k = K
  BY <1>4, BucketIsOne
<1>6. FrameKey(p, part)' = K
  BY <1>1, FramesKept
<1>7. CASE k = K
  <2>1. ~Begun(p, part)
    BY <1>4, <1>7 DEF Once
  <2>2. \A u \in routing : ~IsTask(u, p, part)
    BY <2>1 DEF Begun
  <2>3. \A s \in Shutters : events[p][part][s] = 0
    BY <1>2, <2>1, Counts DEF Begun
  <2>4. \A u \in routing' : IsTask(u, p, part)' => u = t /\ u.todo \subseteq Shutters
    <3>1. t.todo \subseteq Shutters
      BY RoutedFits DEF Targets, TypeOK
    <3> QED
      BY <1>4, <2>2, <3>1 DEF IsTask
  <2>5. pending'[K] = None
    BY <1>1, <1>2, <1>7 DEF TypeOK
  <2>6. completed'[K] = Cache
    BY <1>2, <1>3, <1>7 DEF TypeOK
  <2>7. \A r \in Copies' : r.left <= completed'[K]
    BY <1>1, <2>6, CopyFits, Bounds
  <2> HIDE DEF K, t, b
  <2> QED
    BY <1>1, <1>6, <2>3, <2>4, <2>5, <2>7 DEF Once
<1>8. CASE k # K
  <2>1. \A u \in routing' : IsTask(u, p, part)' => u \in routing /\ IsTask(u, p, part)
    BY <1>4, <1>5, <1>8 DEF IsTask
  <2>2. pending'[K] = pending[K] /\ completed'[K] = completed[K]
    BY <1>1, <1>2, <1>3, <1>8 DEF TypeOK
  <2>3. Begun(p, part)' => Begun(p, part)
    BY <1>1, <2>1 DEF Begun
  <2> HIDE DEF K, t, b
  <2> QED
    BY <1>1, <1>6, <2>1, <2>2, <2>3 DEF Once, K
<1> QED
  BY <1>7, <1>8

\* What a task has told when it goes on as u.
LEMMA DeliverEffect ==
    ASSUME TypeOK, NEW t \in routing, NEW s \in t.todo, Deliver(t, s)
    PROVE  /\ s \in Shutters /\ t.at = None
           /\ UNCHANGED <<press, reports, Copies, pending, completed, terminals, moves,
                          disturbed, owner, paired, group>>
           /\ \A p \in Presses, part \in Parts, z \in Shutters :
                 events'[p][part][z] =
                    IF p \in t.presses /\ part = t.part /\ z = s THEN events[p][part][z] + 1
                    ELSE events[p][part][z]
           /\ \E u : /\ routing' = (routing \ {t}) \cup (IF u.todo = {} THEN {} ELSE {u})
                     /\ u.presses = t.presses /\ u.part = t.part /\ u.heard = t.heard
                     /\ IF owner[s] \in t.heard THEN u.at = None /\ u.todo = t.todo \ {s}
                        ELSE u.at = s /\ u.todo = t.todo
<1>1. t \in Tasks /\ s \in Shutters /\ t.at = None
  BY DEF TypeOK, Tasks, Deliver
<1>2. UNCHANGED <<press, reports, Copies, pending, completed, terminals, moves,
                  disturbed, owner, paired, group>>
  BY DEF Deliver, memory, site, Copies, air
<1>3. ASSUME NEW p \in Presses, NEW part \in Parts, NEW z \in Shutters
      PROVE  events'[p][part][z] =
                    IF p \in t.presses /\ part = t.part /\ z = s THEN events[p][part][z] + 1
                    ELSE events[p][part][z]
  <2>1. events'[p] = IF p \in t.presses THEN [events[p] EXCEPT ![t.part][s] = @ + 1]
                     ELSE events[p]
    BY DEF Deliver
  <2>2. events[p] \in [Parts -> [Shutters -> Nat]]
    BY DEF TypeOK
  <2> QED
    BY <2>1, <2>2
<1> DEFINE u == IF owner[s] \in t.heard THEN [t EXCEPT !.todo = @ \ {s}]
                ELSE [t EXCEPT !.at = s]
<1>4. /\ routing' = (routing \ {t}) \cup (IF u.todo = {} THEN {} ELSE {u})
      /\ u.presses = t.presses /\ u.part = t.part /\ u.heard = t.heard
      /\ IF owner[s] \in t.heard THEN u.at = None /\ u.todo = t.todo \ {s}
         ELSE u.at = s /\ u.todo = t.todo
  <2>1. routing' = (routing \ {t}) \cup (IF u.todo = {} THEN {} ELSE {u})
    BY DEF Deliver, Becomes
  <2>2. CASE owner[s] \in t.heard
    <3>1. u = [t EXCEPT !.todo = @ \ {s}]
      BY <2>2
    <3>2. /\ u.presses = t.presses /\ u.part = t.part /\ u.heard = t.heard
          /\ u.at = None /\ u.todo = t.todo \ {s}
      BY <1>1, <3>1 DEF Tasks
    <3> QED
      BY <2>1, <2>2, <3>2
  <2>3. CASE owner[s] \notin t.heard
    <3>1. u = [t EXCEPT !.at = s]
      BY <2>3
    <3>2. /\ u.presses = t.presses /\ u.part = t.part /\ u.heard = t.heard
          /\ u.at = s /\ u.todo = t.todo
      BY <1>1, <3>1 DEF Tasks
    <3> QED
      BY <2>1, <2>3, <3>2
  <2> QED
    BY <2>2, <2>3
<1> HIDE DEF u
<1> QED
  BY <1>1, <1>2, <1>3, <1>4

LEMMA EndsEffect ==
    ASSUME TypeOK, NEW t \in routing, Forwarded(t) \/ ForwardFails(t)
    PROVE  /\ t.at # None /\ t.at \in Shutters /\ t.at \in t.todo
           /\ UNCHANGED <<press, reports, Copies, pending, completed, terminals, events,
                          owner, paired, group>>
           /\ \E u : /\ routing' = (routing \ {t}) \cup (IF u.todo = {} THEN {} ELSE {u})
                     /\ u.presses = t.presses /\ u.part = t.part /\ u.heard = t.heard
                     /\ u.at = None /\ u.todo = t.todo \ {t.at}
<1>1. t \in Tasks /\ t.at # None /\ t.at \in Shutters /\ t.at \in t.todo
  BY DEF TypeOK, Tasks, Forwarded, ForwardFails
<1>2. UNCHANGED <<press, reports, Copies, pending, completed, terminals, events,
                  owner, paired, group>>
  BY DEF Forwarded, ForwardFails, memory, site, Copies, air
<1> DEFINE u == [t EXCEPT !.at = None, !.todo = @ \ {t.at}]
<1>3. /\ routing' = (routing \ {t}) \cup (IF u.todo = {} THEN {} ELSE {u})
      /\ u.presses = t.presses /\ u.part = t.part /\ u.heard = t.heard
      /\ u.at = None /\ u.todo = t.todo \ {t.at}
  <2>1. routing' = (routing \ {t}) \cup (IF u.todo = {} THEN {} ELSE {u})
    BY DEF Forwarded, ForwardFails, Becomes
  <2>2. /\ u.presses = t.presses /\ u.part = t.part /\ u.heard = t.heard
        /\ u.at = None /\ u.todo = t.todo \ {t.at}
    BY <1>1 DEF Tasks
  <2> QED
    BY <2>1, <2>2
<1> HIDE DEF u
<1> QED
  BY <1>1, <1>2, <1>3

LEMMA DeliverOnce ==
    ASSUME TypeOK, Fits, NEW t \in routing, NEW s \in t.todo, Deliver(t, s),
           NEW p, NEW part, FrameWithNumber(p, part), Once(p, part)
    PROVE  Once(p, part)'
<1>1. /\ s \in Shutters /\ t.at = None
      /\ UNCHANGED <<press, Copies, pending, completed>>
      /\ \A z \in Shutters :
            events'[p][part][z] =
                    IF p \in t.presses /\ part = t.part /\ z = s THEN events[p][part][z] + 1
                    ELSE events[p][part][z]
  BY DeliverEffect DEF FrameWithNumber
<1>2. PICK u : /\ routing' = (routing \ {t}) \cup (IF u.todo = {} THEN {} ELSE {u})
               /\ u.presses = t.presses /\ u.part = t.part
               /\ \/ u.at = None /\ u.todo = t.todo \ {s}
                  \/ u.at = s /\ u.todo = t.todo
  BY DeliverEffect
<1>3. FrameKey(p, part)' = FrameKey(p, part)
  BY <1>1, FramesKept
<1>4. \A z \in Shutters : events[p][part][z] \in Nat
  BY Counts DEF FrameWithNumber
<1>5. None \notin Shutters /\ t.todo \subseteq Shutters
  BY Counts
<1>6. CASE IsTask(t, p, part)
  <2>1. Begun(p, part)
    BY <1>6 DEF Begun
  <2>2. \A e \in routing' : IsTask(e, p, part)' => e = u
    BY <1>2, <1>6 DEF Once, IsTask
  <2>3. \A z \in Shutters : z # s => events'[p][part][z] = events[p][part][z]
    BY <1>1
  <2>4. events'[p][part][s] = 1
    BY <1>1, <1>5, <1>6 DEF Once, IsTask
  <2>5. \A z \in u.todo \ {u.at} : z # s /\ z \in t.todo \ {t.at} /\ z \in Shutters
    BY <1>1, <1>2, <1>5
  <2>6. \A z \in u.todo \ {u.at} : events'[p][part][z] = 0
    BY <1>6, <2>3, <2>5 DEF Once
  <2> QED
    BY <1>1, <1>3, <2>1, <2>2, <2>3, <2>4, <2>6 DEF Once
<1>7. CASE ~IsTask(t, p, part)
  <2>1. \A z \in Shutters : events'[p][part][z] = events[p][part][z]
    BY <1>1, <1>7 DEF IsTask
  <2>2. \A e \in routing' : IsTask(e, p, part)' => e \in routing /\ IsTask(e, p, part)
    BY <1>2, <1>7 DEF IsTask
  <2>3. Begun(p, part)' => Begun(p, part)
    BY <2>1, <2>2 DEF Begun
  <2>4. \A e \in routing' : IsTask(e, p, part)' => \A z \in e.todo \ {e.at} : events'[p][part][z] = 0
    BY <2>1, <2>2, Counts DEF Once
  <2> QED
    BY <1>1, <1>3, <2>1, <2>2, <2>3, <2>4 DEF Once
<1> QED
  BY <1>6, <1>7

LEMMA EndsOnce ==
    ASSUME TypeOK, Fits, NEW t \in routing, Forwarded(t) \/ ForwardFails(t),
           NEW p, NEW part, FrameWithNumber(p, part), Once(p, part)
    PROVE  Once(p, part)'
<1>1. /\ t.at \in Shutters /\ UNCHANGED <<press, Copies, pending, completed, events>>
  BY EndsEffect
<1>2. PICK u : /\ routing' = (routing \ {t}) \cup (IF u.todo = {} THEN {} ELSE {u})
               /\ u.presses = t.presses /\ u.part = t.part
               /\ u.at = None /\ u.todo = t.todo \ {t.at}
  BY EndsEffect
<1>3. FrameKey(p, part)' = FrameKey(p, part)
  BY <1>1, FramesKept
<1>4. CASE IsTask(t, p, part)
  <2>1. Begun(p, part)
    BY <1>4 DEF Begun
  <2>2. \A e \in routing' : IsTask(e, p, part)' => e = u
    BY <1>2, <1>4 DEF Once, IsTask
  <2>3. \A z \in u.todo : events'[p][part][z] = 0
    BY <1>1, <1>2, <1>4 DEF Once
  <2> QED
    BY <1>1, <1>3, <2>1, <2>2, <2>3 DEF Once
<1>5. CASE ~IsTask(t, p, part)
  <2>1. \A e \in routing' : IsTask(e, p, part)' => e \in routing /\ IsTask(e, p, part)
    BY <1>2, <1>5 DEF IsTask
  <2>2. Begun(p, part)' => Begun(p, part)
    BY <1>1, <2>1 DEF Begun
  <2> QED
    BY <1>1, <1>3, <2>1, <2>2 DEF Once
<1> QED
  BY <1>4, <1>5

\* Nothing is known yet of a press that has not been.
LEMMA NothingYet ==
    ASSUME TypeOK, Fits, NEW p \in Presses, ~Pressed(p)
    PROVE  /\ \A r \in reports : r.press # p
           /\ \A t \in routing : p \notin t.presses
           /\ \A k \in Keys : pending[k] # None => p \notin pending[k].presses
           /\ \A part \in Parts, s \in Shutters : events[p][part][s] = 0
<1>1. \A r \in reports : r.press # p
  BY ReportFits DEF IsFrame
<1>2. \A t \in routing : p \notin t.presses
  BY DEF Fits, TasksFit, IsFrame
<1>3. \A k \in Keys : pending[k] # None => p \notin pending[k].presses
  BY BucketIsOne DEF IsFrame
<1>4. \A part \in Parts, s \in Shutters : events[p][part][s] = 0
  BY Counts DEF Fits, EventsFit, IsFrame
<1> QED
  BY <1>1, <1>2, <1>3, <1>4

LEMMA RestartOnce ==
    ASSUME TypeOK, Fits, Restart, NEW p, NEW part, FrameWithNumber(p, part), Once(p, part)
    PROVE  Once(p, part)'
<1>1. UNCHANGED <<press, events>> /\ routing' = {} /\ pending' = [k \in Keys |-> None]
  BY DEF Restart
<1>2. FrameKey(p, part)' = FrameKey(p, part) /\ FrameKey(p, part) \in Keys
  BY <1>1, FramesKept, FrameNumber DEF FrameWithNumber, IsFrame, Numbered, Fits
<1>3. \A r \in Copies' : r.left = 0
  <2>1. ASSUME NEW e \in Copies' PROVE e.left = 0
    <3>1. PICK r \in statuses : e = [r EXCEPT !.left = 0]
      BY <2>1 DEF Copies, Restart
    <3>2. r \in Reports
      BY DEF TypeOK
    <3> QED
      BY <3>1, <3>2 DEF Reports
  <2> QED
    BY <2>1
<1> QED
  BY <1>1, <1>2, <1>3 DEF Once, IsTask

LEMMA PressOnce ==
    ASSUME TypeOK, Fits, OnceInv, NEW p \in Presses, NEW k \in Kinds,
           NEW whole \in SUBSET Bridges, NEW prefix \in SUBSET Bridges,
           NEW terminal \in SUBSET Bridges, PressedNow(p, k, whole, prefix, terminal)
    PROVE  OnceInv'
<1>1. /\ ~Pressed(p) /\ press'[p].kind = k
      /\ \A q \in Presses \ {p} : press'[q] = press[q]
      /\ \A r \in Copies' : r \in Copies \/ NewReport(r, p, k, whole, prefix, terminal)
  BY PressEffect DEF IsNext
<1>2. UNCHANGED <<pending, completed, terminals, routing, events, stale>>
  BY DEF PressedNow, Press, memory
<1> SUFFICES ASSUME NEW q \in Presses \ stale, NEW part \in Parts, Numbered(q)', PartFits(q, part)'
             PROVE  Once(q, part)'
  BY <1>2 DEF OnceInv
<1>3. CASE q # p
  <2>1. /\ Numbered(q) /\ PartFits(q, part) /\ FrameKey(q, part)' = FrameKey(q, part)
    BY <1>1, <1>3, OtherFramesKept
  <2>2. Once(q, part)
    BY <2>1 DEF OnceInv
  <2>3. Begun(q, part)' = Begun(q, part) /\ \A t : IsTask(t, q, part)' = IsTask(t, q, part)
    BY <1>2 DEF Begun, IsTask
  <2>4. \A r \in Copies' : r.press = q => r \in Copies
    BY <1>1, <1>3 DEF NewReport
  <2> QED
    BY <1>2, <2>1, <2>2, <2>3, <2>4 DEF Once
<1>4. CASE q = p
  <2>1. \A t \in routing' : ~IsTask(t, p, part)'
    BY <1>1, <1>2, NothingYet DEF IsTask
  <2>2. \A s \in Shutters : events'[p][part][s] = 0
    BY <1>1, <1>2, NothingYet
  <2>3. ~Begun(p, part)'
    BY <2>1, <2>2 DEF Begun
  <2> QED
    BY <1>4, <2>1, <2>2, <2>3 DEF Once
<1> QED
  BY <1>3, <1>4

LEMMA StepOnce == ASSUME TypeOK, Fits, OnceInv, [Next]_vars PROVE OnceInv'
<1>1. ASSUME NEW p \in Presses, PressStop(p) \/ PressMy(p) \/ PressTilt(p) PROVE OnceInv'
  BY <1>1, OnePress, PressOnce
<1>2. ASSUME UNCHANGED press, stale \subseteq stale',
             \A p, part : FrameWithNumber(p, part) /\ Once(p, part) /\ p \notin stale' =>
                Once(p, part)'
      PROVE  OnceInv'
  BY <1>2, FramesKept DEF OnceInv, FrameWithNumber
<1>3. ASSUME NEW r \in reports, Receive(r) PROVE OnceInv'
  BY <1>2, <1>3, ReceiveOnce DEF Receive, air
<1>4. ASSUME NEW r \in statuses, Reconnect(r) PROVE OnceInv'
  <2>1. UNCHANGED <<press, routing, events, pending, completed, stale>> /\ Copies' = Copies
    BY <1>4 DEF Reconnect, memory, Copies
  <2>2. ASSUME NEW p, NEW part, Once(p, part) PROVE Once(p, part)'
    BY <2>1, <2>2, OnceSame DEF Once
  <2> QED
    BY <1>2, <2>1, <2>2
<1>5. ASSUME NEW k \in Keys, Flush(k) PROVE OnceInv'
  BY <1>2, <1>5, FlushOnce DEF Flush, air
<1>6. ASSUME NEW t \in routing, NEW s \in t.todo, Deliver(t, s) PROVE OnceInv'
  BY <1>2, <1>6, DeliverOnce DEF Deliver, air
<1>7. ASSUME NEW t \in routing, Forwarded(t) \/ ForwardFails(t) PROVE OnceInv'
  BY <1>2, <1>7, EndsOnce DEF Forwarded, ForwardFails, air
<1>8. ASSUME Tick PROVE OnceInv'
  BY <1>2, <1>8, TickOnce DEF Tick
<1>9. ASSUME Restart PROVE OnceInv'
  BY <1>2, <1>9, RestartOnce DEF Restart
<1>10. CASE UNCHANGED vars
  <2>1. UNCHANGED <<press, routing, events, pending, completed, stale>> /\ Copies' = Copies
    BY <1>10 DEF vars, memory, Copies, air
  <2>2. ASSUME NEW p, NEW part, Once(p, part) PROVE Once(p, part)'
    BY <2>1, <2>2, OnceSame DEF Once
  <2> QED
    BY <1>2, <2>1, <2>2
<1> QED
  BY <1>1, <1>3, <1>4, <1>5, <1>6, <1>7, <1>8, <1>9, <1>10 DEF Next

\* A frame makes one event for a shutter.
LEMMA OnceIsOne == ASSUME TypeOK, Fits, OnceInv PROVE OneEvent
<1> SUFFICES ASSUME NEW p \in Presses, NEW part \in Parts, NEW s \in Shutters,
                    press[p] # None, press[p].kind # "stop", p \notin stale
             PROVE  events[p][part][s] <= 1
  BY DEF OneEvent
<1>1. events[p][part][s] \in Nat
  BY Counts
<1>2. CASE PartFits(p, part)
  BY <1>2 DEF OnceInv, Once, Numbered, Pressed
<1>3. CASE ~PartFits(p, part)
  BY <1>1, <1>3 DEF Fits, EventsFit, IsFrame
<1> QED
  BY <1>2, <1>3

-----------------------------------------------------------------------------
(* Exactly one, when nothing goes wrong *)

\* All reports of p that are on their way have been sent in this moment.
Clean(p) ==
    /\ Pressed(p) /\ p \notin disturbed
    /\ \A r \in reports : r.press = p => r.left = MaxDelay

\* The frame that stands for the press, and its key.
Main(p) ==
    IF press[p].kind # "tilt" THEN "whole"
    ELSE IF press[p].by # {} THEN "terminal" ELSE "prefix"

MainKey(p) == FrameKey(p, Main(p))

\* Whether the press has moved the estimator of s by itself.
Base(p, s) == IF owner[s] \in press[p].by THEN 1 ELSE 0

InBucket(p, k) == pending[k] # None /\ p \in pending[k].presses

\* A complete report of the main frame by bridge b is on its way.
Comes(p, b) == \E r \in reports : r.press = p /\ r.part = Main(p) /\ r.by = b /\ r.complete

\* No entity has been told.
Silent(p) ==
    /\ \A t \in routing : p \notin t.presses
    /\ \A s \in Shutters : events[p][Main(p)][s] = 0
    /\ \A s \in Mapped : moves[p][s] = Base(p, s)

Gone(p) == (\A r \in reports : r.press # p) /\ \A k \in Keys : ~InBucket(p, k)

\* No report of the main frame has arrived.
Waiting(p) ==
    /\ Silent(p)
    /\ \E r \in reports : r.press = p /\ r.part = Main(p)
    /\ \A b \in press[p].by : Comes(p, b)
    /\ completed[MainKey(p)] = 0
    /\ \A k \in Keys : InBucket(p, k) => k # MainKey(p) /\ pending[k].left = Window

\* The bucket of the main frame has what has arrived, and nothing else.
Collecting(p) ==
    LET b == pending[MainKey(p)]
    IN  /\ Silent(p)
        /\ b # None /\ b.presses = {p} /\ b.part = Main(p)
        /\ b.completeSources \subseteq press[p].by \cap b.sources
        /\ \A c \in press[p].by : c \in b.completeSources \/ Comes(p, c)
        /\ completed[MainKey(p)] = 0
        /\ \A k \in Keys : InBucket(p, k) => k = MainKey(p)
        /\ (\E r \in reports : r.press = p) =>
              b.left = Window /\ (Main(p) = "terminal" => terminals[LastOf(p)] > 0)

\* What a task with these targets has done for shutter s.
Progress(at, todo, p, s) ==
    CASE s \in todo /\ s # at -> events[p][Main(p)][s] = 0 /\ moves[p][s] = Base(p, s)
      [] s = at -> events[p][Main(p)][s] = 1 /\ moves[p][s] = 0 /\ Base(p, s) = 0
      [] OTHER -> events[p][Main(p)][s] = 1 /\ moves[p][s] = 1

\* One task serves the entities.
Serving(p) ==
    /\ Gone(p)
    /\ \E t \in routing :
          /\ t.presses = {p} /\ t.part = Main(p) /\ t.heard = press[p].by
          /\ \A u \in routing : p \in u.presses => u = t
          /\ \A s \in Resolvable(p) : Progress(t.at, t.todo, p, s)

\* Every entity has been told, and every estimator has moved, once.
Served(p) ==
    /\ Gone(p)
    /\ \A t \in routing : p \notin t.presses
    /\ \A s \in Resolvable(p) : events[p][Main(p)][s] = 1 /\ moves[p][s] = 1

OthersSilent(p) ==
    \A part \in Parts \ {Main(p)}, s \in Shutters : events[p][part][s] = 0

Stage(p) == Waiting(p) \/ Collecting(p) \/ Serving(p) \/ Served(p)

CleanInv == \A p \in Presses : Clean(p) => Stage(p) /\ OthersSilent(p)

\* When everything has gone, the press has been served.
LEMMA SettledIsServed ==
    ASSUME TypeOK, Fits, CleanInv
    PROVE  UpdatesOnce /\ EstimatorOnce
<1> SUFFICES ASSUME NEW p \in Presses, Settled(p), NEW s \in Resolvable(p)
             PROVE  EventsOf(p, s) = 1 /\ moves[p][s] = 1
  BY DEF UpdatesOnce, EstimatorOnce
<1>1. Clean(p) /\ Gone(p) /\ \A t \in routing : p \notin t.presses
  BY DEF Settled, Clean, Pressed, Gone, InBucket
<1>2. MainKey(p) \in Keys
  <2>1. IsFrame(p, Main(p))
    BY <1>1 DEF Clean, Main, IsFrame, PartFits
  <2> QED
    BY <2>1, FrameNumber DEF MainKey, Fits
<1>3. ~Waiting(p)
  BY <1>1 DEF Gone, Waiting
<1>4. ~Collecting(p)
  BY <1>1, <1>2 DEF Gone, Collecting, InBucket
<1>5. ~Serving(p)
  BY <1>1 DEF Serving
<1>6. Served(p) /\ OthersSilent(p)
  BY <1>1, <1>3, <1>4, <1>5 DEF CleanInv, Stage
<1>7. s \in Shutters
  BY DEF Resolvable, TypeOK
<1>8. \A part \in Parts \ {Main(p)} : events[p][part][s] = 0
  BY <1>6, <1>7 DEF OthersSilent
<1>9. events[p][Main(p)][s] = 1 /\ moves[p][s] = 1
  BY <1>6 DEF Served
<1> QED
  BY <1>8, <1>9 DEF EventsOf, Parts, Main

LEMMA InitClean == Init => CleanInv
  BY DEF Init, CleanInv, Clean, Pressed

\* The main frame of a press.
LEMMA MainFrame ==
    ASSUME TypeOK, Fits, NEW p \in Presses, Pressed(p)
    PROVE  /\ IsFrame(p, Main(p)) /\ PartFits(p, Main(p)) /\ Main(p) \in Parts
           /\ MainKey(p) = FrameKey(p, Main(p)) /\ MainKey(p) \in Keys
           /\ MainKey(p)[1] # None <=> Numbered(p)
           /\ press[p] \in PressRecords /\ press[p].by \subseteq Bridges
           /\ Resolvable(p) \subseteq Mapped /\ Mapped \subseteq Shutters
<1>1. IsFrame(p, Main(p)) /\ PartFits(p, Main(p))
  BY DEF Main, IsFrame, PartFits
<1>2. /\ Main(p) \in Parts /\ MainKey(p) = FrameKey(p, Main(p)) /\ MainKey(p) \in Keys
      /\ MainKey(p)[1] # None <=> Numbered(p)
  BY <1>1, FrameNumber DEF MainKey, Fits
<1>3. press[p] \in PressRecords
  BY DEF Pressed, TypeOK
<1>4. Resolvable(p) \subseteq Mapped /\ Mapped \subseteq Shutters
  BY DEF Resolvable, Mapped, TypeOK
<1> QED
  BY <1>1, <1>2, <1>3, <1>4, PressFields

\* Who was clean after a step other than its press was clean before.
LEMMA CleanBefore ==
    ASSUME TypeOK, NEW p, Clean(p)', press'[p] = press[p], disturbed \subseteq disturbed',
           \A r \in reports : r.press = p => r \in reports' \/ r.left = MaxDelay
    PROVE  Clean(p)
<1>1. Pressed(p)' = Pressed(p)
  BY OtherFramesKept
<1> QED
  BY <1>1 DEF Clean

\* What a step leaves of press p when it changes nothing of it.
NothingOf(p) ==
    /\ press'[p] = press[p] /\ UNCHANGED <<owner, paired, group>>
    /\ \A r : r.press = p => (r \in reports' <=> r \in reports)
    /\ \A t : p \in t.presses => (t \in routing' <=> t \in routing)
    /\ \A s \in Shutters : /\ moves'[p][s] = moves[p][s]
                           /\ \A part \in Parts : events'[p][part][s] = events[p][part][s]
    /\ \A k \in Keys : /\ InBucket(p, k)' <=> InBucket(p, k)
                       /\ InBucket(p, k) => pending'[k] = pending[k]
    /\ completed[MainKey(p)] = 0 => completed'[MainKey(p)] = 0
    /\ terminals[LastOf(p)] > 0 => terminals'[LastOf(p)] > 0

\* What a press is to its shutters does not change.
LEMMA SameMain ==
    ASSUME NEW p, press'[p] = press[p], UNCHANGED <<owner, paired, group>>
    PROVE  /\ Main(p)' = Main(p) /\ MainKey(p)' = MainKey(p) /\ LastOf(p)' = LastOf(p)
           /\ Resolvable(p)' = Resolvable(p) /\ Mapped' = Mapped
           /\ \A s : Base(p, s)' = Base(p, s)
  BY DEF Main, MainKey, LastOf, Resolvable, Mapped, Base, FrameKey, Key, SequenceOf

LEMMA NothingChanged ==
    ASSUME TypeOK, Fits, NEW p \in Presses, Pressed(p), Stage(p), OthersSilent(p), NothingOf(p)
    PROVE  Stage(p)' /\ OthersSilent(p)'
<1>1. /\ Main(p)' = Main(p) /\ MainKey(p)' = MainKey(p) /\ LastOf(p)' = LastOf(p)
      /\ Resolvable(p)' = Resolvable(p) /\ Mapped' = Mapped
      /\ \A s : Base(p, s)' = Base(p, s)
  BY SameMain DEF NothingOf
<1>2. /\ Main(p) \in Parts /\ MainKey(p) \in Keys
      /\ Resolvable(p) \subseteq Mapped /\ Mapped \subseteq Shutters
  BY MainFrame
<1>3. /\ press'[p] = press[p]
      /\ \A r : r.press = p => (r \in reports' <=> r \in reports)
      /\ \A t : p \in t.presses => (t \in routing' <=> t \in routing)
      /\ \A s \in Shutters : /\ moves'[p][s] = moves[p][s]
                             /\ \A part \in Parts : events'[p][part][s] = events[p][part][s]
  BY DEF NothingOf
<1>4. /\ \A k \in Keys : /\ InBucket(p, k)' <=> InBucket(p, k)
                         /\ InBucket(p, k) => pending'[k] = pending[k]
      /\ completed[MainKey(p)] = 0 => completed'[MainKey(p)] = 0
      /\ terminals[LastOf(p)] > 0 => terminals'[LastOf(p)] > 0
  BY DEF NothingOf
<1>5. OthersSilent(p)'
  BY <1>1, <1>3 DEF OthersSilent
<1>6. Silent(p) => Silent(p)'
  BY <1>1, <1>2, <1>3 DEF Silent
<1>7. \A b : Comes(p, b)' <=> Comes(p, b)
  BY <1>1, <1>3 DEF Comes
<1>8. Gone(p) => Gone(p)'
  BY <1>3, <1>4 DEF Gone
<1>9. ASSUME Waiting(p) PROVE Waiting(p)'
  BY <1>1, <1>2, <1>3, <1>4, <1>6, <1>7, <1>9 DEF Waiting
<1>10. ASSUME Collecting(p) PROVE Collecting(p)'
  <2>1. InBucket(p, MainKey(p))
    BY <1>10 DEF Collecting, InBucket
  <2>2. pending'[MainKey(p)] = pending[MainKey(p)]
    BY <1>2, <1>4, <2>1
  <2> QED
    BY <1>1, <1>2, <1>3, <1>4, <1>6, <1>7, <1>10, <2>2 DEF Collecting
<1>11. ASSUME Serving(p) PROVE Serving(p)'
  <2>1. PICK t \in routing :
          /\ t.presses = {p} /\ t.part = Main(p) /\ t.heard = press[p].by
          /\ \A u \in routing : p \in u.presses => u = t
          /\ \A s \in Resolvable(p) : Progress(t.at, t.todo, p, s)
    BY <1>11 DEF Serving
  <2>2. \A s \in Resolvable(p) : Progress(t.at, t.todo, p, s)'
    BY <1>1, <1>2, <1>3, <2>1 DEF Progress
  <2>3. t \in routing' /\ \A u \in routing' : p \in u.presses => u = t
    BY <1>3, <2>1
  <2> QED
    BY <1>1, <1>3, <1>8, <1>11, <2>1, <2>2, <2>3 DEF Serving
<1>12. ASSUME Served(p) PROVE Served(p)'
  BY <1>1, <1>2, <1>3, <1>8, <1>12 DEF Served
<1> QED
  BY <1>5, <1>9, <1>10, <1>11, <1>12 DEF Stage

LEMMA ReconnectClean ==
    ASSUME TypeOK, Fits, CleanInv, NEW r \in statuses, Reconnect(r),
           NEW p \in Presses, Clean(p)'
    PROVE  Stage(p)' /\ OthersSilent(p)'
<1>1. /\ UNCHANGED <<press, owner, paired, group, pending, completed, terminals, routing,
                     events, moves>>
      /\ reports' = reports \cup {r} /\ disturbed' = disturbed \cup {r.press}
  BY DEF Reconnect, site, memory
<1>2. r.press # p
  BY <1>1 DEF Clean
<1>3. Clean(p)
  BY <1>1, <1>2, CleanBefore
<1>4. NothingOf(p)
  BY <1>1, <1>2 DEF NothingOf, InBucket
<1> QED
  BY <1>3, <1>4, NothingChanged DEF CleanInv, Clean

\* A restart disturbs every press there has been.
LEMMA RestartClean ==
    ASSUME Restart, NEW p \in Presses, Clean(p)' PROVE FALSE
  BY DEF Restart, Clean, Pressed

LEMMA StutterClean ==
    ASSUME TypeOK, Fits, CleanInv, UNCHANGED vars, NEW p \in Presses, Clean(p)'
    PROVE  Stage(p)' /\ OthersSilent(p)'
<1>1. UNCHANGED <<press, owner, paired, group, pending, completed, terminals, routing,
                  events, moves, reports, disturbed>>
  BY DEF vars, site, memory, air
<1>2. Clean(p) /\ NothingOf(p)
  BY <1>1, CleanBefore DEF NothingOf, InBucket
<1> QED
  BY <1>2, NothingChanged DEF CleanInv, Clean

\* The task of a clean press is the one that serves it.
LEMMA TheTask ==
    ASSUME NEW p, Stage(p), NEW t \in routing, p \in t.presses
    PROVE  /\ Gone(p) /\ t.presses = {p} /\ t.part = Main(p) /\ t.heard = press[p].by
           /\ \A u \in routing : p \in u.presses => u = t
           /\ \A s \in Resolvable(p) : Progress(t.at, t.todo, p, s)
<1>1. Serving(p)
  BY DEF Stage, Waiting, Collecting, Silent, Served
<1>2. PICK u \in routing :
          /\ u.presses = {p} /\ u.part = Main(p) /\ u.heard = press[p].by
          /\ \A v \in routing : p \in v.presses => v = u
          /\ \A s \in Resolvable(p) : Progress(u.at, u.todo, p, s)
  BY <1>1 DEF Serving
<1> QED
  BY <1>1, <1>2 DEF Serving

\* A task that goes on serves on, and one that ends has served.
LEMMA TaskGoesOn ==
    ASSUME TypeOK, Fits, NEW p \in Presses, Pressed(p),
           UNCHANGED <<press, owner, paired, group, reports, pending>>,
           Gone(p), NEW t \in routing, NEW u,
           \A v \in routing : p \in v.presses => v = t,
           routing' = (routing \ {t}) \cup (IF u.todo = {} THEN {} ELSE {u}),
           u.presses = {p}, u.part = Main(p), u.heard = press[p].by, u.at \in u.todo \cup {None},
           \A s \in Resolvable(p) : Progress(u.at, u.todo, p, s)'
    PROVE  Stage(p)'
<1>1. /\ Main(p)' = Main(p) /\ Resolvable(p)' = Resolvable(p)
  BY SameMain
<1>2. Gone(p)'
  BY DEF Gone, InBucket
<1>3. CASE u.todo = {}
  <2>1. \A v \in routing' : p \notin v.presses
    BY <1>3
  <2>2. \A s \in Resolvable(p) : s # None
    BY Counts, MainFrame
  <2>3. \A s \in Resolvable(p) : events'[p][Main(p)][s] = 1 /\ moves'[p][s] = 1
    BY <1>1, <1>3, <2>2 DEF Progress
  <2> QED
    BY <1>1, <1>2, <2>1, <2>3 DEF Stage, Served
<1>4. CASE u.todo # {}
  <2>1. u \in routing' /\ \A v \in routing' : p \in v.presses => v = u
    BY <1>4
  <2> QED
    BY <1>1, <1>2, <2>1 DEF Stage, Serving
<1> QED
  BY <1>3, <1>4

LEMMA DeliverClean ==
    ASSUME TypeOK, Fits, CleanInv, NEW t \in routing, NEW s \in t.todo, Deliver(t, s),
           NEW p \in Presses, Clean(p)'
    PROVE  Stage(p)' /\ OthersSilent(p)'
<1>1. /\ s \in Shutters /\ t.at = None
      /\ UNCHANGED <<press, reports, pending, completed, terminals, moves, disturbed,
                     owner, paired, group>>
      /\ \A part \in Parts, z \in Shutters :
            events'[p][part][z] =
                    IF p \in t.presses /\ part = t.part /\ z = s THEN events[p][part][z] + 1
                    ELSE events[p][part][z]
  BY DeliverEffect
<1>2. PICK u : /\ routing' = (routing \ {t}) \cup (IF u.todo = {} THEN {} ELSE {u})
               /\ u.presses = t.presses /\ u.part = t.part /\ u.heard = t.heard
               /\ IF owner[s] \in t.heard THEN u.at = None /\ u.todo = t.todo \ {s}
                  ELSE u.at = s /\ u.todo = t.todo
  BY DeliverEffect
<1>3. Clean(p)
  BY <1>1, CleanBefore
<1>4. Stage(p) /\ OthersSilent(p) /\ Pressed(p)
  BY <1>3 DEF CleanInv, Clean
<1>5. CASE p \notin t.presses
  <2>1. NothingOf(p)
    BY <1>1, <1>2, <1>5 DEF NothingOf, InBucket
  <2> QED
    BY <1>4, <2>1, NothingChanged
<1>6. CASE p \in t.presses
  <2>1. /\ Gone(p) /\ t.presses = {p} /\ t.part = Main(p) /\ t.heard = press[p].by
        /\ \A v \in routing : p \in v.presses => v = t
        /\ \A z \in Resolvable(p) : Progress(t.at, t.todo, p, z)
    BY <1>4, <1>6, TheTask
  <2>2. /\ Main(p)' = Main(p) /\ \A z : Base(p, z)' = Base(p, z)
    BY <1>1, SameMain
  <2>3. Main(p) \in Parts /\ Resolvable(p) \subseteq Shutters /\ None \notin Shutters
    BY <1>4, MainFrame, Counts
  <2>4. ASSUME NEW z \in Resolvable(p) PROVE Progress(u.at, u.todo, p, z)'
    <3>1. z \in Shutters /\ z # None /\ s # None
      BY <1>1, <2>3
    <3>2. CASE z = s
      <4>1. events[p][Main(p)][s] = 0 /\ moves[p][s] = Base(p, s)
        BY <1>1, <2>1, <2>4, <3>1, <3>2 DEF Progress
      <4>2. events'[p][Main(p)][s] = 1
        BY <1>1, <1>6, <2>1, <2>3, <4>1
      <4>3. CASE owner[s] \in t.heard
        <5>1. moves'[p][s] = 1
          BY <1>1, <2>1, <4>1, <4>3 DEF Base
        <5> QED
          BY <1>2, <2>2, <3>1, <3>2, <4>2, <4>3, <5>1 DEF Progress
      <4>4. CASE owner[s] \notin t.heard
        <5>1. moves'[p][s] = 0 /\ Base(p, s) = 0
          BY <1>1, <2>1, <4>1, <4>4 DEF Base
        <5> QED
          BY <1>2, <2>2, <3>2, <4>2, <4>4, <5>1 DEF Progress
      <4> QED
        BY <4>3, <4>4
    <3>3. CASE z # s
      <4>1. events'[p][Main(p)][z] = events[p][Main(p)][z] /\ moves'[p][z] = moves[p][z]
        BY <1>1, <2>3, <3>1, <3>3
      <4>2. z # u.at /\ z # t.at /\ (z \in u.todo <=> z \in t.todo)
        BY <1>1, <1>2, <3>1, <3>3
      <4> QED
        BY <2>1, <2>2, <2>4, <4>1, <4>2 DEF Progress
    <3> QED
      BY <3>2, <3>3
  <2>5. u.at \in u.todo \cup {None}
    BY <1>2
  <2>6. Stage(p)'
    BY <1>1, <1>2, <1>4, <2>1, <2>4, <2>5, TaskGoesOn
  <2>7. OthersSilent(p)'
    BY <1>1, <1>4, <2>1, <2>2 DEF OthersSilent
  <2> QED
    BY <2>6, <2>7
<1> QED
  BY <1>5, <1>6

LEMMA EndsClean ==
    ASSUME TypeOK, Fits, CleanInv, NEW t \in routing, Forwarded(t) \/ ForwardFails(t),
           NEW p \in Presses, Clean(p)'
    PROVE  Stage(p)' /\ OthersSilent(p)'
<1>1. /\ t.at # None /\ t.at \in Shutters /\ t.at \in t.todo
      /\ UNCHANGED <<press, reports, pending, completed, terminals, events,
                     owner, paired, group>>
  BY EndsEffect
<1>2. PICK u : /\ routing' = (routing \ {t}) \cup (IF u.todo = {} THEN {} ELSE {u})
               /\ u.presses = t.presses /\ u.part = t.part /\ u.heard = t.heard
               /\ u.at = None /\ u.todo = t.todo \ {t.at}
  BY EndsEffect
<1>3. Clean(p)
  <2>1. disturbed \subseteq disturbed'
    BY DEF Forwarded, ForwardFails
  <2> QED
    BY <1>1, <2>1, CleanBefore
<1>4. Stage(p) /\ OthersSilent(p) /\ Pressed(p)
  BY <1>3 DEF CleanInv, Clean
<1>5. \A z \in Shutters : moves'[p][z] =
         IF Forwarded(t) /\ p \in t.presses /\ z = t.at THEN moves[p][z] + 1 ELSE moves[p][z]
  <2>1. CASE Forwarded(t)
    <3>1. moves'[p] = IF p \in t.presses THEN [moves[p] EXCEPT ![t.at] = @ + 1] ELSE moves[p]
      BY <2>1 DEF Forwarded
    <3>2. moves[p] \in [Shutters -> Nat]
      BY DEF TypeOK
    <3> QED
      BY <2>1, <3>1, <3>2
  <2>2. CASE ~Forwarded(t)
    BY <2>2 DEF ForwardFails
  <2> QED
    BY <2>1, <2>2
<1>6. CASE p \notin t.presses
  <2>1. NothingOf(p)
    BY <1>1, <1>2, <1>5, <1>6 DEF NothingOf, InBucket
  <2> QED
    BY <1>4, <2>1, NothingChanged
<1>7. CASE p \in t.presses
  <2>0. Forwarded(t)
    BY <1>7 DEF ForwardFails, Clean
  <2>1. /\ Gone(p) /\ t.presses = {p} /\ t.part = Main(p) /\ t.heard = press[p].by
        /\ \A v \in routing : p \in v.presses => v = t
        /\ \A z \in Resolvable(p) : Progress(t.at, t.todo, p, z)
    BY <1>4, <1>7, TheTask
  <2>2. /\ Main(p)' = Main(p) /\ \A z : Base(p, z)' = Base(p, z)
    BY <1>1, SameMain
  <2>3. Main(p) \in Parts /\ Resolvable(p) \subseteq Shutters /\ None \notin Shutters
    BY <1>4, MainFrame, Counts
  <2>4. ASSUME NEW z \in Resolvable(p) PROVE Progress(u.at, u.todo, p, z)'
    <3>1. z \in Shutters /\ z # None
      BY <2>3
    <3>2. CASE z = t.at
      <4>1. events[p][Main(p)][z] = 1 /\ moves[p][z] = 0
        BY <2>1, <2>4, <3>2 DEF Progress
      <4>2. events'[p][Main(p)][z] = 1 /\ moves'[p][z] = 1
        BY <1>1, <1>5, <1>7, <2>0, <3>1, <3>2, <4>1
      <4> QED
        BY <1>2, <2>2, <3>1, <3>2, <4>2 DEF Progress
    <3>3. CASE z # t.at
      <4>1. moves'[p][z] = moves[p][z]
        BY <1>5, <3>1, <3>3
      <4>2. z # u.at /\ (z \in u.todo <=> z \in t.todo)
        BY <1>2, <3>1, <3>3
      <4> QED
        BY <1>1, <2>1, <2>2, <2>4, <3>3, <4>1, <4>2 DEF Progress
    <3> QED
      BY <3>2, <3>3
  <2>5. u.at \in u.todo \cup {None}
    BY <1>2
  <2>6. Stage(p)'
    BY <1>1, <1>2, <1>4, <2>1, <2>4, <2>5, TaskGoesOn
  <2>7. OthersSilent(p)'
    BY <1>1, <1>4, <2>2 DEF OthersSilent
  <2> QED
    BY <2>6, <2>7
<1> QED
  BY <1>6, <1>7

\* Time passes for a clean press only when no report of it is on its way.
LEMMA TickClean ==
    ASSUME TypeOK, Fits, CleanInv, Tick, NEW p \in Presses, Clean(p)'
    PROVE  Stage(p)' /\ OthersSilent(p)'
<1>1. UNCHANGED <<press, owner, paired, group, routing, events, moves, disturbed>>
  BY DEF Tick, site
<1>2. /\ Main(p)' = Main(p) /\ MainKey(p)' = MainKey(p) /\ LastOf(p)' = LastOf(p)
      /\ Resolvable(p)' = Resolvable(p) /\ Mapped' = Mapped
      /\ \A s : Base(p, s)' = Base(p, s)
  BY <1>1, SameMain
<1>3. \A r \in reports : r.press # p
  <2>1. ASSUME NEW r \in reports, r.press = p PROVE FALSE
    <3>1. PICK e \in reports' : Older(r, e)
      BY TickEffect
    <3>2. e.left = MaxDelay /\ e.left = Less(r.left)
      BY <2>1, <3>1 DEF Clean, Older, Alike
    <3>3. r.left \in 0 .. MaxDelay
      BY ReportFits
    <3> QED
      BY <3>2, <3>3, Bounds DEF Less
  <2> QED
    BY <2>1
<1>4. \A e \in reports' : e.press # p
  BY <1>3, TickEffect DEF Older, Alike
<1>5. Clean(p)
  BY <1>1, <1>3, CleanBefore
<1>6. Stage(p) /\ OthersSilent(p) /\ Pressed(p)
  BY <1>5 DEF CleanInv, Clean
<1>7. ~Waiting(p)
  BY <1>3 DEF Waiting
<1>8. \A k \in Keys : InBucket(p, k)' <=> InBucket(p, k)
  BY TickEffect DEF InBucket
<1>9. OthersSilent(p)'
  BY <1>1, <1>2, <1>6 DEF OthersSilent
<1>10. ASSUME Collecting(p) PROVE Collecting(p)'
  <2> DEFINE K == MainKey(p)
  <2>1. K \in Keys
    BY <1>6, MainFrame
  <2>2. /\ pending'[K] # None /\ pending'[K].presses = pending[K].presses
        /\ pending'[K].part = pending[K].part /\ pending'[K].sources = pending[K].sources
        /\ pending'[K].completeSources = pending[K].completeSources
        /\ completed'[K] = Less(completed[K])
    BY <1>10, <2>1, TickEffect DEF Collecting
  <2>3. completed'[K] = 0
    BY <1>10, <2>2 DEF Collecting, Less
  <2>4. Silent(p)'
    BY <1>1, <1>2, <1>10 DEF Collecting, Silent
  <2>5. ~\E c : Comes(p, c)
    BY <1>3 DEF Comes
  <2> HIDE DEF K
  <2> QED
    BY <1>1, <1>2, <1>4, <1>8, <1>10, <2>2, <2>3, <2>4, <2>5 DEF Collecting, K
<1>11. Gone(p) => Gone(p)'
  BY <1>4, <1>8 DEF Gone
<1>12. ASSUME Serving(p) PROVE Serving(p)'
  <2>1. PICK t \in routing :
          /\ t.presses = {p} /\ t.part = Main(p) /\ t.heard = press[p].by
          /\ \A u \in routing : p \in u.presses => u = t
          /\ \A s \in Resolvable(p) : Progress(t.at, t.todo, p, s)
    BY <1>12 DEF Serving
  <2>2. \A s \in Resolvable(p) : Progress(t.at, t.todo, p, s)'
    BY <1>1, <1>2, <2>1 DEF Progress
  <2> QED
    BY <1>1, <1>2, <1>11, <1>12, <2>1, <2>2 DEF Serving
<1>13. Served(p) => Served(p)'
  BY <1>1, <1>2, <1>11 DEF Served
<1> QED
  BY <1>6, <1>7, <1>9, <1>10, <1>12, <1>13 DEF Stage

LEMMA FlushClean ==
    ASSUME TypeOK, Fits, CleanInv, NEW k \in Keys, Flush(k), NEW p \in Presses, Clean(p)'
    PROVE  Stage(p)' /\ OthersSilent(p)'
<1> DEFINE b == pending[k]
           K == MainKey(p)
<1>0. PICK t : t = TaskOf(b)
  OBVIOUS
<1>1. /\ UNCHANGED <<press, owner, paired, group, reports, terminals, events, moves, disturbed>>
      /\ pending' = [pending EXCEPT ![k] = None] /\ b.left = 0
  BY DEF Flush, site, air
<1>2. completed' = IF k[1] # None THEN [completed EXCEPT ![k] = Cache] ELSE completed
  BY DEF Flush, CacheAfterFlush
<1>3. /\ t.presses = b.presses /\ t.part = b.part /\ t.at = None /\ t.todo = Targets(b)
      /\ t.heard = b.completeSources /\ b # None
      /\ routing' = IF Targets(b) = {} THEN routing ELSE routing \cup {t}
  BY <1>0, RoutedFits
<1>4. Clean(p)
  BY <1>1, CleanBefore
<1>5. Stage(p) /\ OthersSilent(p) /\ Pressed(p) /\ K \in Keys
  BY <1>4, MainFrame DEF CleanInv, Clean
<1>6. \A c \in Keys : pending'[c] = IF c = k THEN None ELSE pending[c]
  BY <1>1 DEF TypeOK
<1>7. CASE ~InBucket(p, k)
  <2>1. p \notin b.presses
    BY <1>3, <1>7 DEF InBucket
  <2>2. completed[K] = 0 => completed'[K] = 0
    <3>1. CASE k = K
      <4>1. k[1] = None
        <5>1. PICK q \in b.presses : q \in Presses /\ IsFrame(q, b.part) /\ k = FrameKey(q, b.part)
                                     /\ (k[1] # None <=> Numbered(q))
          BY <1>3, BucketIsOne DEF BucketFits
        <5>2. Numbered(q) => q = p
          BY <1>5, <3>1, <5>1, MainFrame, KeyTells DEF Fits
        <5> QED
          BY <2>1, <5>1, <5>2
      <4> QED
        BY <1>2, <4>1
    <3>2. CASE k # K
      BY <1>2, <1>5, <3>2 DEF TypeOK
    <3> QED
      BY <3>1, <3>2
  <2>3. \A e : p \in e.presses => (e \in routing' <=> e \in routing)
    BY <1>3, <2>1
  <2>4. \A c \in Keys : /\ InBucket(p, c)' <=> InBucket(p, c)
                        /\ InBucket(p, c) => pending'[c] = pending[c]
    BY <1>6, <1>7 DEF InBucket
  <2> HIDE DEF b, K
  <2>5. NothingOf(p)
    BY <1>1, <2>2, <2>3, <2>4 DEF NothingOf, K
  <2> QED
    BY <1>5, <2>5, NothingChanged
<1>8. CASE InBucket(p, k)
  <2>1. Collecting(p)
    <3>1. ~Waiting(p)
      BY <1>1, <1>8, Bounds DEF Waiting
    <3>2. ~Gone(p)
      BY <1>8 DEF Gone
    <3> QED
      BY <1>5, <3>1, <3>2 DEF Stage, Serving, Served
  <2>2. k = K
    BY <1>8, <2>1 DEF Collecting
  <2>3. /\ Silent(p) /\ b.presses = {p} /\ b.part = Main(p)
        /\ b.completeSources \subseteq press[p].by \cap b.sources
        /\ \A c \in press[p].by : c \in b.completeSources \/ Comes(p, c)
        /\ \A c \in Keys : InBucket(p, c) => c = K
        /\ (\E r \in reports : r.press = p) => b.left = Window
    BY <2>1, <2>2 DEF Collecting
  <2>4. \A r \in reports : r.press # p
    BY <1>1, <2>3, Bounds
  <2>5. b.completeSources = press[p].by /\ press[p].by \subseteq b.sources
    BY <2>3, <2>4 DEF Comes
  <2>6. Resolvable(p) \subseteq Targets(b)
    BY <2>5 DEF Resolvable, Targets
  <2>7. /\ Main(p)' = Main(p) /\ Resolvable(p)' = Resolvable(p)
        /\ \A s : Base(p, s)' = Base(p, s)
    BY <1>1, SameMain
  <2>8. Gone(p)'
    BY <1>1, <1>6, <2>2, <2>3, <2>4 DEF Gone, InBucket
  <2>9. OthersSilent(p)'
    BY <1>1, <1>5, <2>7 DEF OthersSilent
  <2>10. CASE Targets(b) = {}
    <3>1. Served(p)'
      BY <1>3, <2>3, <2>6, <2>7, <2>8, <2>10 DEF Served, Silent
    <3> QED
      BY <2>9, <3>1 DEF Stage
  <2>11. CASE Targets(b) # {}
    <3>1. \A s \in Resolvable(p) :
            s \in t.todo /\ s # t.at /\ events[p][Main(p)][s] = 0 /\ moves[p][s] = Base(p, s)
      BY <1>3, <1>5, <2>3, <2>6, Counts, MainFrame DEF Silent
    <3>2. \A s \in Resolvable(p) : Progress(t.at, t.todo, p, s)'
      BY <1>1, <2>7, <3>1 DEF Progress
    <3>3. t \in routing' /\ \A u \in routing' : p \in u.presses => u = t
      BY <1>3, <2>3, <2>11 DEF Silent
    <3>4. t.presses = {p} /\ t.part = Main(p) /\ t.heard = press'[p].by
      BY <1>1, <1>3, <2>3, <2>5
    <3>5. Serving(p)'
      BY <2>7, <2>8, <3>2, <3>3, <3>4 DEF Serving
    <3> QED
      BY <2>9, <3>5 DEF Stage
  <2> QED
    BY <2>10, <2>11
<1> QED
  BY <1>7, <1>8

LEMMA PressClean ==
    ASSUME TypeOK, Fits, CleanInv, NEW p \in Presses, NEW k \in Kinds,
           NEW whole \in SUBSET Bridges, NEW prefix \in SUBSET Bridges,
           NEW terminal \in SUBSET Bridges, PressedNow(p, k, whole, prefix, terminal),
           NEW q \in Presses, Clean(q)'
    PROVE  Stage(q)' /\ OthersSilent(q)'
<1>1. /\ ~Pressed(p) /\ press'[p].kind = k
      /\ \A x \in Presses \ {p} : press'[x] = press[x]
      /\ \A r \in reports' : r \in reports \/ NewReport(r, p, k, whole, prefix, terminal)
      /\ reports \subseteq reports'
      /\ \A x \in Presses \ {p} : moves'[x] = moves[x]
      /\ \A s \in Shutters : moves'[p][s] =
            IF s \in Mapped /\ owner[s] \in whole \cup terminal THEN 1 ELSE 0
  <2>1. /\ IsNext(p) /\ press'[p].kind = k
        /\ \A x \in Presses \ {p} : press'[x] = press[x]
        /\ \A r \in reports' : r \in reports \/ NewReport(r, p, k, whole, prefix, terminal)
        /\ \A x \in Presses \ {p} : moves'[x] = moves[x]
    BY PressEffect
  <2>2. \A s \in Shutters : moves'[p][s] =
           IF s \in Mapped /\ owner[s] \in whole \cup terminal THEN 1 ELSE 0
    BY DEF PressedNow, Press, TypeOK
  <2>3. ~Pressed(p) /\ reports \subseteq reports'
    BY <2>1 DEF IsNext, PressedNow, Press
  <2> QED
    BY <2>1, <2>2, <2>3
<1>2. UNCHANGED <<pending, completed, terminals, routing, events, disturbed,
                  owner, paired, group>>
  BY DEF PressedNow, Press, memory, site
<1>3. press'[p].by = whole \cup terminal
  BY DEF PressedNow, Press, TypeOK
<1>4. CASE q # p
  <2>1. press'[q] = press[q]
    BY <1>1, <1>4
  <2>2. Clean(q)
    BY <1>1, <1>2, <2>1, CleanBefore
  <2>3. NothingOf(q)
    BY <1>1, <1>2, <1>4, <2>1 DEF NothingOf, InBucket, NewReport
  <2> QED
    BY <2>2, <2>3, NothingChanged DEF CleanInv, Clean
<1>5. CASE q = p
  <2>1. /\ \A t \in routing' : p \notin t.presses
        /\ \A c \in Keys : ~InBucket(p, c)'
        /\ \A part \in Parts, s \in Shutters : events'[p][part][s] = 0
    BY <1>1, <1>2, NothingYet DEF InBucket
  <2> DEFINE m == IF k # "tilt" THEN "whole"
                  ELSE IF whole \cup terminal # {} THEN "terminal" ELSE "prefix"
  <2>2. Main(p)' = m /\ m \in Parts
    BY <1>1, <1>3 DEF Main, Parts
  <2>3. \A s : Base(p, s)' = IF owner[s] \in whole \cup terminal THEN 1 ELSE 0
    BY <1>2, <1>3 DEF Base
  <2>4. Silent(p)'
    <3>1. \A s \in Mapped : s \in Shutters
      BY DEF Mapped, TypeOK
    <3>2. Mapped' = Mapped
      BY <1>2 DEF Mapped
    <3>3. \A s \in Mapped : moves'[p][s] = IF owner[s] \in whole \cup terminal THEN 1 ELSE 0
      BY <1>1, <3>1
    <3> HIDE DEF m
    <3> QED
      BY <2>1, <2>2, <2>3, <3>2, <3>3 DEF Silent
  <2>5. /\ k = "stop" => terminal = {}
        /\ k = "my" => prefix = {} /\ terminal = {}
        /\ k = "tilt" => whole = {}
        /\ whole \cup prefix \cup terminal # {}
        /\ reports' = reports
             \cup {[by |-> b, press |-> p, part |-> "whole", complete |-> TRUE,
                    left |-> MaxDelay] : b \in whole}
             \cup {[by |-> b, press |-> p, part |-> IF k = "tilt" THEN "prefix" ELSE "whole",
                    complete |-> FALSE, left |-> MaxDelay] : b \in prefix}
             \cup {[by |-> b, press |-> p, part |-> "terminal", complete |-> TRUE,
                    left |-> MaxDelay] : b \in terminal}
    BY DEF PressedNow, Press
  <2>6. /\ \A b \in whole : \E r \in reports' :
              r.press = p /\ r.part = "whole" /\ r.by = b /\ r.complete
        /\ \A b \in terminal : \E r \in reports' :
              r.press = p /\ r.part = "terminal" /\ r.by = b /\ r.complete
        /\ \A b \in prefix : \E r \in reports' :
              r.press = p /\ r.part = (IF k = "tilt" THEN "prefix" ELSE "whole")
    <3>1. ASSUME NEW b \in whole
          PROVE  \E r \in reports' : r.press = p /\ r.part = "whole" /\ r.by = b /\ r.complete
      <4>1. [by |-> b, press |-> p, part |-> "whole", complete |-> TRUE,
             left |-> MaxDelay] \in reports'
        BY <2>5
      <4> QED
        BY <4>1
    <3>2. ASSUME NEW b \in terminal
          PROVE  \E r \in reports' : r.press = p /\ r.part = "terminal" /\ r.by = b /\ r.complete
      <4>1. [by |-> b, press |-> p, part |-> "terminal", complete |-> TRUE,
             left |-> MaxDelay] \in reports'
        BY <2>5
      <4> QED
        BY <4>1
    <3>3. ASSUME NEW b \in prefix
          PROVE  \E r \in reports' :
                    r.press = p /\ r.part = (IF k = "tilt" THEN "prefix" ELSE "whole")
      <4>1. [by |-> b, press |-> p, part |-> IF k = "tilt" THEN "prefix" ELSE "whole",
             complete |-> FALSE, left |-> MaxDelay] \in reports'
        BY <2>5
      <4> QED
        BY <4>1
    <3> QED
      BY <3>1, <3>2, <3>3
  <2>7. \E r \in reports' : r.press = p /\ r.part = m
    <3>1. CASE k = "tilt"
      <4>1. CASE terminal # {}
        BY <2>6, <3>1, <4>1
      <4>2. CASE terminal = {}
        BY <2>5, <2>6, <3>1, <4>2
      <4> QED
        BY <4>1, <4>2
    <3>2. CASE k # "tilt"
      <4>1. terminal = {}
        BY <2>5, <3>2 DEF Kinds
      <4>2. CASE whole # {}
        BY <2>6, <3>2, <4>2
      <4>3. CASE whole = {}
        BY <2>5, <2>6, <3>2, <4>1, <4>3
      <4> QED
        BY <4>2, <4>3
    <3> QED
      BY <3>1, <3>2
  <2>8. \A b \in whole \cup terminal : \E r \in reports' :
           r.press = p /\ r.part = m /\ r.by = b /\ r.complete
    <3>1. CASE k = "tilt"
      BY <2>5, <2>6, <3>1
    <3>2. CASE k # "tilt"
      BY <2>5, <2>6, <3>2 DEF Kinds
    <3> QED
      BY <3>1, <3>2
  <2>9. completed'[MainKey(p)'] = 0
    <3>1. MainKey(p)' = <<IF k = "stop" THEN None
                          ELSE IF m = "terminal" THEN After(press'[p].first) ELSE press'[p].first,
                          IF m = "terminal" THEN "tilt_clockwise" ELSE "stop_my">>
      BY <1>1, <2>2 DEF MainKey, FrameKey, Key, SequenceOf
    <3>2. MainKey(p)' \in Keys /\ ~(completed[MainKey(p)'] > 0)
      <4>1. CASE k = "stop"
        <5>1. MainKey(p)' = <<None, "stop_my">>
          BY <3>1, <4>1
        <5>2. <<None, "stop_my">> \in Keys
          BY DEF Keys
        <5>3. ~(completed[<<None, "stop_my">>] > 0)
          BY <5>2, FrameNumber DEF Fits, CacheFits, IsFrame, Numbered
        <5> QED
          BY <5>1, <5>2, <5>3
      <4>2. CASE k # "stop"
        <5>1. PartFits(p, Main(p))'
          BY DEF PartFits, Main
        <5>2. PartFits(p, m)' /\ MainKey(p)' = FrameKey(p, m)'
          BY <1>1, <2>2, <5>1 DEF PartFits, MainKey, FrameKey, Key, SequenceOf
        <5> HIDE DEF m
        <5>3. /\ FrameKey(p, m)' \in Keys
              /\ \A x \in Presses : \A y : IsFrame(x, y) => FrameKey(x, y)[1] # FrameKey(p, m)'[1]
          BY <4>2, <5>2, FreshKey
        <5>4. ~(completed[FrameKey(p, m)'] > 0)
          BY <5>3 DEF Fits, CacheFits, IsFrame, Numbered
        <5> QED
          BY <5>2, <5>3, <5>4
      <4> QED
        BY <4>1, <4>2
    <3> QED
      BY <1>2, <3>2, Counts
  <2> HIDE DEF m
  <2>10. \A b \in press'[p].by : Comes(p, b)'
    BY <1>3, <2>2, <2>8 DEF Comes
  <2>11. Waiting(p)'
    BY <2>1, <2>2, <2>4, <2>7, <2>9, <2>10 DEF Waiting
  <2>12. OthersSilent(p)'
    BY <2>1 DEF OthersSilent
  <2> QED
    BY <1>5, <2>11, <2>12 DEF Stage
<1> QED
  BY <1>4, <1>5

\* What a report does to the buckets, for a press that stays clean.
LEMMA ReceiveEffect ==
    ASSUME TypeOK, Fits, NEW r \in reports, Receive(r)
    PROVE  /\ UNCHANGED <<press, owner, paired, group, routing, events, moves>>
           /\ reports' = reports \ {r} /\ disturbed \subseteq disturbed'
           /\ r.left < MaxDelay => r.press \in disturbed'
           /\ \A k \in Keys : pending'[k] # None =>
                 pending'[k].presses \subseteq disturbed'
                 \/ \A p, q \in pending'[k].presses : p = q
           /\ \/ Overtaken(r) /\ UNCHANGED <<pending, completed, terminals>>
              \/ /\ ~Overtaken(r)
                 /\ \A n \in Sequences : terminals'[n] =
                       IF r.complete /\ n = SequenceOf(r) THEN Cache ELSE terminals[n]
                 /\ \A k \in Keys :
                       /\ completed'[k] = IF k \in Superseded(r) THEN Cache ELSE completed[k]
                       /\ pending'[k] =
                             IF k \in Superseded(r) THEN None
                             ELSE IF k = Key(r) /\ ~Repeated(r)
                             THEN IF pending[k] = None THEN NewBucket(r) ELSE Joined(pending[k], r)
                             ELSE pending[k]
<1>1. /\ UNCHANGED <<press, owner, paired, group, routing, events, moves>>
      /\ reports' = reports \ {r} /\ disturbed \subseteq disturbed'
      /\ r.left < MaxDelay => r.press \in disturbed'
  BY DEF Receive, site, air
<1>2. ASSUME NEW k \in Keys, pending'[k] # None
      PROVE  \/ pending'[k].presses \subseteq disturbed'
             \/ \A p, q \in pending'[k].presses : p = q
  <2>1. CASE Cardinality(pending'[k].presses) > 1
    BY <1>2, <2>1 DEF Receive
  <2>2. CASE ~(Cardinality(pending'[k].presses) > 1)
    <3>1. pending' \in [Keys -> Buckets \cup {None}]
      BY ReceiveTyped DEF TypeOK
    <3>2. pending'[k].presses \subseteq Presses
      BY <1>2, <3>1, BucketFields
    <3>3. IsFiniteSet(Presses)
      BY Bounds, FS_Interval DEF Presses
    <3>4. IsFiniteSet(pending'[k].presses)
      BY <3>2, <3>3, FS_Subset
    <3> DEFINE S == pending'[k].presses
    <3>5. ASSUME NEW p \in S, NEW q \in S, p # q PROVE FALSE
      <4>1. Cardinality(S) \in Nat /\ Cardinality(S) >= 2
        BY ONLY <3>4, <3>5, TwoElements
      <4> QED
        BY <2>2, <4>1
    <3> QED
      BY <3>5
  <2> QED
    BY <2>1, <2>2
<1>3. CASE Overtaken(r) /\ UNCHANGED memory
  BY <1>1, <1>2, <1>3 DEF memory
<1>4. CASE /\ ~Overtaken(r)
           /\ terminals' = IF r.complete /\ SequenceOf(r) # None
                           THEN [terminals EXCEPT ![SequenceOf(r)] = Cache]
                           ELSE terminals
           /\ completed' = [k \in Keys |-> IF k \in Superseded(r) THEN Cache
                                           ELSE completed[k]]
           /\ pending' = Collected(r)
  <2>1. \A n \in Sequences : terminals'[n] =
                       IF r.complete /\ n = SequenceOf(r) THEN Cache ELSE terminals[n]
    BY <1>4, NoneIsNoValue DEF TypeOK, NoneIsNoValue
  <2>2. \A k \in Keys :
           /\ completed'[k] = IF k \in Superseded(r) THEN Cache ELSE completed[k]
           /\ pending'[k] =
                 IF k \in Superseded(r) THEN None
                 ELSE IF k = Key(r) /\ ~Repeated(r)
                 THEN IF pending[k] = None THEN NewBucket(r) ELSE Joined(pending[k], r)
                 ELSE pending[k]
    BY <1>4 DEF Collected
  <2> QED
    BY <1>1, <1>2, <1>4, <2>1, <2>2
<1> QED
  BY <1>3, <1>4 DEF Receive

\* The number that ends a press is one of the numbers.
LEMMA LastNumber ==
    ASSUME TypeOK, Fits, NEW p \in Presses, Numbered(p)
    PROVE  LastOf(p) \in Sequences
<1>1. press[p].first \in Sequences
  BY PressFields DEF TypeOK, Numbered, Pressed
<1> QED
  BY <1>1, NextNumber DEF LastOf

\* A report of another press changes nothing of a clean one.
LEMMA ReceiveOther ==
    ASSUME TypeOK, Fits, NEW r \in reports, Receive(r), NEW p \in Presses, Pressed(p),
           p \notin disturbed', r.press # p
    PROVE  NothingOf(p)
<1>1. /\ UNCHANGED <<press, owner, paired, group, routing, events, moves>>
      /\ reports' = reports \ {r}
      /\ \A k \in Keys : pending'[k] # None =>
            pending'[k].presses \subseteq disturbed'
            \/ \A x, y \in pending'[k].presses : x = y
  BY ReceiveEffect
<1>2. CASE UNCHANGED <<pending, completed, terminals>>
  BY <1>1, <1>2 DEF NothingOf, InBucket
<1>3. CASE /\ \A n \in Sequences : terminals'[n] =
                 IF r.complete /\ n = SequenceOf(r) THEN Cache ELSE terminals[n]
           /\ \A k \in Keys :
                 /\ completed'[k] = IF k \in Superseded(r) THEN Cache ELSE completed[k]
                 /\ pending'[k] =
                       IF k \in Superseded(r) THEN None
                       ELSE IF k = Key(r) /\ ~Repeated(r)
                       THEN IF pending[k] = None THEN NewBucket(r) ELSE Joined(pending[k], r)
                       ELSE pending[k]
  <2>1. ASSUME NEW k \in Keys
        PROVE  /\ InBucket(p, k)' <=> InBucket(p, k)
               /\ InBucket(p, k) => pending'[k] = pending[k]
    <3>1. k \in Superseded(r) => ~InBucket(p, k)
      BY OnlyItsPrefix DEF InBucket
    <3>2. CASE k \in Superseded(r)
      BY <1>3, <3>1, <3>2 DEF InBucket
    <3>3. CASE k \notin Superseded(r) /\ ~(k = Key(r) /\ ~Repeated(r))
      BY <1>3, <3>3 DEF InBucket
    <3>4. CASE k \notin Superseded(r) /\ k = Key(r) /\ ~Repeated(r) /\ pending[k] = None
      <4>1. pending'[k] = NewBucket(r)
        BY <1>3, <3>4
      <4>2. NewBucket(r).presses = {r.press}
        BY ReportFits, NewBucketTyped
      <4> QED
        BY <3>4, <4>1, <4>2 DEF InBucket
    <3>5. CASE k \notin Superseded(r) /\ k = Key(r) /\ ~Repeated(r) /\ pending[k] # None
      <4>1. pending'[k] = Joined(pending[k], r) /\ pending[k] \in Buckets
        BY <1>3, <3>5 DEF TypeOK
      <4>2. Joined(pending[k], r).presses = pending[k].presses \cup {r.press}
            /\ Joined(pending[k], r) # None
        BY <4>1, ReportFits, JoinedTyped, BucketFields
      <4>3. p \notin pending[k].presses
        BY <1>1, <4>1, <4>2
      <4> QED
        BY <4>1, <4>2, <4>3 DEF InBucket
    <3> QED
      BY <3>2, <3>3, <3>4, <3>5
  <2>2. completed'[MainKey(p)] = completed[MainKey(p)]
    <3>1. MainKey(p) \in Superseded(r) => FALSE
      <4>1. ASSUME MainKey(p) \in Superseded(r) PROVE FALSE
        <5>1. /\ FrameKey(p, Main(p)) = FrameKey(r.press, "prefix") /\ Numbered(r.press)
              /\ IsFrame(r.press, "prefix") /\ r.press \in Presses /\ IsFrame(p, Main(p))
          BY <4>1, OnlyItsPrefix, MainFrame, ReportFits
        <5>2. NumbersFit
          BY DEF Fits
        <5> QED
          BY <5>1, <5>2, KeyTells
      <4> QED
        BY <4>1
    <3> QED
      BY <1>3, <3>1, MainFrame
  <2>3. terminals[LastOf(p)] > 0 => terminals'[LastOf(p)] > 0
    <3>1. CASE LastOf(p) \in Sequences
      BY <1>3, <3>1, Bounds
    <3>2. CASE LastOf(p) \notin Sequences
      <4>1. press[p].first \in Sequences
        BY MainFrame, PressFields
      <4> QED
        BY <3>2, <4>1, NextNumber DEF LastOf
    <3> QED
      BY <3>1, <3>2
  <2> QED
    BY <1>1, <2>1, <2>2, <2>3 DEF NothingOf
<1> QED
  BY <1>2, <1>3, ReceiveEffect

\* What a report of a clean press does to the rest of the press.
OwnReport(r, p) ==
    /\ r.press = p /\ r.left = MaxDelay
    /\ Pressed(p) /\ Stage(p) /\ OthersSilent(p) /\ p \notin disturbed'

LEMMA OwnRest ==
    ASSUME TypeOK, Fits, NEW r \in reports, Receive(r), NEW p \in Presses, OwnReport(r, p)
    PROVE  /\ Waiting(p) \/ Collecting(p)
           /\ Silent(p)' /\ OthersSilent(p)' /\ press' = press /\ reports' = reports \ {r}
           /\ Main(p)' = Main(p) /\ MainKey(p)' = MainKey(p) /\ LastOf(p)' = LastOf(p)
           /\ \A b : Comes(p, b) =>
                 Comes(p, b)' \/ (r.part = Main(p) /\ r.by = b /\ r.complete)
<1>1. UNCHANGED <<press, owner, paired, group, routing, events, moves>> /\ reports' = reports \ {r}
  BY ReceiveEffect
<1>2. Waiting(p) \/ Collecting(p)
  BY DEF OwnReport, Stage, Serving, Served, Gone
<1>3. /\ Main(p)' = Main(p) /\ MainKey(p)' = MainKey(p) /\ LastOf(p)' = LastOf(p)
      /\ Mapped' = Mapped /\ \A s : Base(p, s)' = Base(p, s)
  BY <1>1, SameMain
<1>4. Silent(p)'
  BY <1>1, <1>2, <1>3 DEF Waiting, Collecting, Silent
<1>5. OthersSilent(p)'
  BY <1>1, <1>3 DEF OwnReport, OthersSilent
<1>6. \A b : Comes(p, b) => Comes(p, b)' \/ (r.part = Main(p) /\ r.by = b /\ r.complete)
  BY <1>1, <1>3 DEF Comes
<1> QED
  BY <1>1, <1>2, <1>3, <1>4, <1>5, <1>6

\* A report that is not of the main frame is the prefix of a tilt whose end was heard.
LEMMA NotMain ==
    ASSUME TypeOK, Fits, NEW r \in reports, r.part # Main(r.press)
    PROVE  /\ r.part = "prefix" /\ ~r.complete /\ Main(r.press) = "terminal"
           /\ press[r.press].kind = "tilt" /\ Numbered(r.press)
           /\ LastOf(r.press) = After(SequenceOf(r)) /\ SequenceOf(r) # None
           /\ Key(r) = FrameKey(r.press, "prefix") /\ Key(r) # MainKey(r.press)
           /\ Superseded(r) = {}
<1> DEFINE p == r.press
<1>1. p \in Presses /\ IsFrame(p, r.part) /\ press[p] \in PressRecords
      /\ Key(r) = FrameKey(p, r.part) /\ SequenceOf(r) = Key(r)[1]
  BY ReportFits
<1>2. press[p].kind = "tilt"
  BY <1>1, ReportFits DEF Main
<1>3. r.part = "prefix" /\ Main(p) = "terminal"
  BY <1>1, <1>2, ReportFits DEF Main
<1>4. ~r.complete
  BY <1>2, <1>3, ReportFits
<1>5. Numbered(p)
  BY <1>1, <1>2 DEF Numbered, IsFrame
<1> HIDE DEF p
<1>6. NumbersFit
  BY DEF Fits
<1>7. SequenceOf(r) = press[p].first /\ SequenceOf(r) # None
  BY <1>1, <1>3, <1>5, <1>6, FrameNumber DEF NumberOf
<1>8. LastOf(p) = After(SequenceOf(r))
  BY <1>2, <1>7 DEF LastOf
<1>9. Key(r) # MainKey(p)
  <2>1. IsFrame(p, "terminal") /\ MainKey(p) = FrameKey(p, "terminal")
    BY <1>1, <1>2, <1>3 DEF IsFrame, PartFits, MainKey
  <2> QED
    BY <1>1, <1>3, <1>6, <2>1, KeyTells
<1>10. Superseded(r) = {}
  BY <1>4 DEF Superseded, Supersedes
<1> QED
  BY <1>1, <1>2, <1>3, <1>4, <1>5, <1>7, <1>8, <1>9, <1>10 DEF p

\* The prefix of a clean press arrives.
LEMMA ReceivePrefix ==
    ASSUME TypeOK, Fits, NEW r \in reports, Receive(r), NEW p \in Presses, OwnReport(r, p),
           r.part # Main(p)
    PROVE  Stage(p)'
<1>1. r.press = p /\ p \notin disturbed' /\ Pressed(p)
  BY DEF OwnReport
<1>2. /\ Waiting(p) \/ Collecting(p)
      /\ Silent(p)' /\ press' = press /\ reports' = reports \ {r}
      /\ Main(p)' = Main(p) /\ MainKey(p)' = MainKey(p) /\ LastOf(p)' = LastOf(p)
      /\ \A b : Comes(p, b) => Comes(p, b)'
  BY OwnRest
<1>3. /\ r.part = "prefix" /\ ~r.complete /\ Main(p) = "terminal" /\ Numbered(p)
      /\ LastOf(p) = After(SequenceOf(r)) /\ SequenceOf(r) # None
      /\ Key(r) = FrameKey(p, "prefix") /\ Key(r) # MainKey(p) /\ Superseded(r) = {}
  BY <1>1, NotMain
<1>4. MainKey(p) \in Keys /\ Key(r) \in Keys /\ IsFrame(p, "prefix")
  BY <1>1, <1>3, MainFrame, ReportFits
<1>5. CASE UNCHANGED <<pending, completed, terminals>>
  <2>1. \A k \in Keys : InBucket(p, k)' <=> InBucket(p, k)
    BY <1>5 DEF InBucket
  <2>2. ASSUME Waiting(p) PROVE Waiting(p)'
    <3>1. \E e \in reports' : e.press = p /\ e.part = Main(p)
      BY <1>2, <2>2 DEF Waiting
    <3> QED
      BY <1>2, <1>5, <2>1, <2>2, <3>1 DEF Waiting
  <2>3. ASSUME Collecting(p) PROVE Collecting(p)'
    BY <1>2, <1>5, <2>1, <2>3 DEF Collecting
  <2> QED
    BY <1>2, <2>2, <2>3 DEF Stage
<1>6. CASE /\ ~Overtaken(r)
           /\ \A k \in Keys :
                 /\ completed'[k] = IF k \in Superseded(r) THEN Cache ELSE completed[k]
                 /\ pending'[k] =
                       IF k \in Superseded(r) THEN None
                       ELSE IF k = Key(r) /\ ~Repeated(r)
                       THEN IF pending[k] = None THEN NewBucket(r) ELSE Joined(pending[k], r)
                       ELSE pending[k]
  <2>1. ~Collecting(p)
    <3>1. Collecting(p) => terminals[LastOf(p)] > 0
      BY <1>1, <1>3 DEF Collecting
    <3> QED
      BY <1>3, <1>6, <3>1 DEF Overtaken
  <2>2. Waiting(p)
    BY <1>2, <2>1
  <2>3. completed'[MainKey(p)] = 0
    BY <1>3, <1>4, <1>6, <2>2 DEF Waiting
  <2>4. \E e \in reports' : e.press = p /\ e.part = Main(p)
    BY <1>2, <2>2 DEF Waiting
  <2>5. ASSUME NEW k \in Keys, InBucket(p, k)'
        PROVE  k # MainKey(p) /\ pending'[k].left = Window
    <3>1. CASE k = Key(r) /\ ~Repeated(r) /\ pending[k] = None
      <4>1. pending'[k] = NewBucket(r)
        BY <1>3, <1>6, <3>1
      <4> QED
        BY <1>3, <3>1, <4>1, ReportFits, NewBucketTyped
    <3>2. CASE k = Key(r) /\ ~Repeated(r) /\ pending[k] # None
      <4>1. pending'[k] = Joined(pending[k], r) /\ pending[k] \in Buckets
        BY <1>3, <1>6, <3>2 DEF TypeOK
      <4>2. pending'[k].left = pending[k].left
        BY <4>1, ReportFits, JoinedTyped
      <4>3. InBucket(p, k)
        <5>1. PICK q \in pending[k].presses : q \in Presses /\ IsFrame(q, pending[k].part)
                                              /\ k = FrameKey(q, pending[k].part)
          BY <3>2, BucketIsOne DEF BucketFits
        <5>2. q = p
          BY <1>3, <1>4, <3>2, <5>1, KeyTells DEF Fits
        <5> QED
          BY <3>2, <5>1, <5>2 DEF InBucket
      <4> QED
        BY <1>3, <2>2, <3>2, <4>2, <4>3 DEF Waiting
    <3>3. CASE ~(k = Key(r) /\ ~Repeated(r))
      <4>1. pending'[k] = pending[k]
        BY <1>3, <1>6, <3>3
      <4>2. InBucket(p, k)
        BY <2>5, <4>1 DEF InBucket
      <4> QED
        BY <2>2, <4>1, <4>2 DEF Waiting
    <3> QED
      BY <3>1, <3>2, <3>3
  <2>6. Waiting(p)'
    BY <1>2, <2>2, <2>3, <2>4, <2>5 DEF Waiting
  <2> QED
    BY <2>6 DEF Stage
<1> QED
  BY <1>5, <1>6, ReceiveEffect

\* A copy of the main frame of a clean press arrives.
LEMMA ReceiveMain ==
    ASSUME TypeOK, Fits, NEW r \in reports, Receive(r), NEW p \in Presses, OwnReport(r, p),
           r.part = Main(p)
    PROVE  Stage(p)'
<1> DEFINE K == MainKey(p)
<1>1. r.press = p /\ p \notin disturbed' /\ Pressed(p)
  BY DEF OwnReport
<1>2. /\ Waiting(p) \/ Collecting(p)
      /\ Silent(p)' /\ press' = press /\ reports' = reports \ {r}
      /\ Main(p)' = Main(p) /\ MainKey(p)' = K /\ LastOf(p)' = LastOf(p)
      /\ \A b : Comes(p, b) => Comes(p, b)' \/ (r.by = b /\ r.complete)
  BY OwnRest
<1>3. /\ K \in Keys /\ K = FrameKey(p, Main(p)) /\ IsFrame(p, Main(p)) /\ Key(r) = K
      /\ (K[1] # None <=> Numbered(p)) /\ NumbersFit /\ completed[K] = 0
      /\ r \in Reports /\ r.complete \in BOOLEAN
      /\ r.complete => r.by \in press[p].by
  BY <1>1, <1>2, MainFrame, ReportFits DEF Fits, Waiting, Collecting
<1>4. ~Overtaken(r)
  <2>1. Overtaken(r) => Main(p) = "terminal" /\ r.part = "prefix"
    BY <1>1, OnlyItsTerminal DEF Main
  <2> QED
    BY <2>1
<1>5. ~Repeated(r)
  BY <1>3 DEF Repeated
<1>6. K \notin Superseded(r)
  <2>1. ASSUME K \in Superseded(r) PROVE FALSE
    <3>1. K = FrameKey(p, "prefix") /\ IsFrame(p, "prefix") /\ r.part = "terminal"
      BY <1>1, <2>1, OnlyItsPrefix
    <3>2. Main(p) = "prefix"
      <4>1. FrameKey(p, Main(p)) = FrameKey(p, "prefix") /\ NumbersFit /\ IsFrame(p, Main(p))
        BY <1>3, <3>1
      <4> QED
        BY <3>1, <4>1, KeyTells
    <3> QED
      BY <3>1, <3>2
  <2> QED
    BY <2>1
<1>7. /\ \A n \in Sequences : terminals'[n] =
            IF r.complete /\ n = SequenceOf(r) THEN Cache ELSE terminals[n]
      /\ \A k \in Keys :
            /\ completed'[k] = IF k \in Superseded(r) THEN Cache ELSE completed[k]
            /\ pending'[k] =
                  IF k \in Superseded(r) THEN None
                  ELSE IF k = Key(r) /\ ~Repeated(r)
                  THEN IF pending[k] = None THEN NewBucket(r) ELSE Joined(pending[k], r)
                  ELSE pending[k]
      /\ \A k \in Keys : pending'[k] # None =>
            pending'[k].presses \subseteq disturbed'
            \/ \A x, y \in pending'[k].presses : x = y
  BY <1>4, ReceiveEffect
<1>8. completed'[K] = 0
  BY <1>3, <1>6, <1>7
<1>9. pending'[K] = IF pending[K] = None THEN NewBucket(r) ELSE Joined(pending[K], r)
  BY <1>3, <1>5, <1>6, <1>7
<1>10. CASE Waiting(p)
  <2>1. pending[K] = None
    <3>1. ASSUME pending[K] # None PROVE FALSE
      <4>1. PICK q \in pending[K].presses : q # p
        <5>1. p \notin pending[K].presses /\ pending[K].presses # {}
          BY <1>3, <1>10, <3>1, BucketIsOne DEF Waiting, InBucket, BucketFits
        <5> QED
          BY <5>1
      <4>2. pending[K] \in Buckets /\ pending'[K] = Joined(pending[K], r)
        BY <1>3, <1>9, <3>1 DEF TypeOK
      <4>3. Joined(pending[K], r).presses = pending[K].presses \cup {p}
            /\ Joined(pending[K], r) # None
        BY <1>1, <1>3, <4>2, JoinedTyped, BucketFields
      <4>4. p \in pending'[K].presses /\ q \in pending'[K].presses /\ pending'[K] # None
        BY <4>1, <4>2, <4>3
      <4> QED
        BY <1>1, <1>3, <1>7, <4>1, <4>4
    <3> QED
      BY <3>1
  <2>2. pending'[K] = NewBucket(r)
    BY <1>9, <2>1
  <2>3. /\ pending'[K] # None /\ pending'[K].presses = {p} /\ pending'[K].part = Main(p)
        /\ pending'[K].sources = {r.by} /\ pending'[K].left = Window
        /\ pending'[K].completeSources = (IF r.complete THEN {r.by} ELSE {})
    BY <1>1, <1>3, <2>2, NewBucketTyped, BucketFields
  <2>4. ASSUME NEW k \in Keys, InBucket(p, k)' PROVE k = K
    <3>1. ASSUME k # K PROVE FALSE
      <4>1. k \notin Superseded(r) /\ pending'[k] = pending[k]
        BY <1>3, <1>7, <2>4, <3>1 DEF InBucket
      <4>2. InBucket(p, k)
        BY <2>4, <4>1 DEF InBucket
      <4> DEFINE b == pending[k]
      <4>3. /\ b # None /\ p \in b.presses /\ IsFrame(p, b.part) /\ k = FrameKey(p, b.part)
            /\ (k[1] # None <=> Numbered(p))
            /\ b.part = "terminal" => press[p].by # {}
            /\ b.part = "prefix" => ~b.complete
        BY <4>2, BucketIsOne DEF InBucket, BucketFits
      <4> HIDE DEF b
      <4>4. b.part # Main(p)
        BY <1>3, <3>1, <4>3
      <4>5. press[p].kind = "tilt" /\ b.part = "prefix" /\ Main(p) = "terminal" /\ Numbered(p)
        BY <4>3, <4>4 DEF IsFrame, PartFits, Main, Numbered
      <4>6. r.complete
        BY <1>1, <4>5, ReportFits
      <4>7. k[1] = press[p].first
        BY <1>3, <4>3, <4>5, FrameNumber DEF NumberOf
      <4>8. SequenceOf(r) = After(k[1])
        BY <1>1, <4>5, <4>7 DEF SequenceOf, Numbered
      <4>9. k \in Superseded(r)
        BY <4>3, <4>5, <4>6, <4>8 DEF Superseded, Supersedes, b
      <4> QED
        BY <4>1, <4>9
    <3> QED
      BY <3>1
  <2>5. Main(p) = "terminal" => terminals'[LastOf(p)] > 0
    <3>1. ASSUME Main(p) = "terminal" PROVE terminals'[LastOf(p)] > 0
      <4>1. press[p].kind = "tilt" /\ r.complete /\ Numbered(p)
        BY <1>1, <3>1, ReportFits DEF Main, Numbered
      <4>2. SequenceOf(r) = LastOf(p)
        BY <1>1, <3>1, <4>1 DEF SequenceOf, LastOf
      <4> QED
        BY <1>7, <4>1, <4>2, LastNumber, Bounds
    <3> QED
      BY <3>1
  <2>6. \A c \in press[p].by : c \in pending'[K].completeSources \/ Comes(p, c)'
    BY <1>2, <1>10, <2>3 DEF Waiting
  <2>7. pending'[K].completeSources \subseteq press[p].by \cap pending'[K].sources
    BY <1>3, <2>3
  <2> HIDE DEF K
  <2>8. Collecting(p)'
    BY <1>2, <1>8, <2>3, <2>4, <2>5, <2>6, <2>7 DEF Collecting
  <2> QED
    BY <2>8 DEF Stage
<1>11. CASE Collecting(p)
  <2> DEFINE b == pending[K]
  <2>1. /\ b # None /\ b.presses = {p} /\ b.part = Main(p)
        /\ b.completeSources \subseteq press[p].by \cap b.sources
        /\ \A c \in press[p].by : c \in b.completeSources \/ Comes(p, c)
        /\ \A k \in Keys : InBucket(p, k) => k = K
        /\ b.left = Window /\ (Main(p) = "terminal" => terminals[LastOf(p)] > 0)
    BY <1>1, <1>11 DEF Collecting
  <2>2. b \in Buckets /\ pending'[K] = Joined(b, r)
    BY <1>3, <1>9, <2>1 DEF TypeOK
  <2> HIDE DEF b
  <2>3. /\ pending'[K] # None /\ pending'[K].presses = {p} /\ pending'[K].part = Main(p)
        /\ pending'[K].sources = b.sources \cup {r.by} /\ pending'[K].left = Window
        /\ pending'[K].completeSources =
              b.completeSources \cup (IF r.complete THEN {r.by} ELSE {})
    BY <1>1, <1>3, <2>1, <2>2, JoinedTyped, BucketFields
  <2>4. ASSUME NEW k \in Keys, InBucket(p, k)' PROVE k = K
    <3>1. ASSUME k # K PROVE FALSE
      <4>1. pending'[k] = pending[k]
        BY <1>3, <1>7, <2>4, <3>1 DEF InBucket
      <4> QED
        BY <2>1, <2>4, <3>1, <4>1 DEF InBucket
    <3> QED
      BY <3>1
  <2>5. Main(p) = "terminal" => terminals'[LastOf(p)] > 0
    <3>1. ASSUME Main(p) = "terminal" PROVE terminals'[LastOf(p)] > 0
      <4>1. LastOf(p) \in Sequences
        BY <1>1, <3>1, LastNumber DEF Main, Numbered
      <4> QED
        BY <1>7, <2>1, <3>1, <4>1, Bounds
    <3> QED
      BY <3>1
  <2>6. \A c \in press[p].by : c \in pending'[K].completeSources \/ Comes(p, c)'
    BY <1>2, <2>1, <2>3
  <2>7. pending'[K].completeSources \subseteq press[p].by \cap pending'[K].sources
    BY <1>3, <2>1, <2>3
  <2> HIDE DEF K
  <2>8. Collecting(p)'
    BY <1>2, <1>8, <2>3, <2>4, <2>5, <2>6, <2>7 DEF Collecting
  <2> QED
    BY <2>8 DEF Stage
<1> QED
  BY <1>2, <1>10, <1>11

LEMMA ReceiveClean ==
    ASSUME TypeOK, Fits, CleanInv, NEW r \in reports, Receive(r), NEW p \in Presses, Clean(p)'
    PROVE  Stage(p)' /\ OthersSilent(p)'
<1>1. /\ UNCHANGED press /\ reports' = reports \ {r} /\ disturbed \subseteq disturbed'
      /\ r.left < MaxDelay => r.press \in disturbed'
  BY ReceiveEffect
<1>2. p \notin disturbed'
  BY DEF Clean
<1>3. r.press = p => r.left = MaxDelay
  BY <1>1, <1>2, ReportFits, Bounds
<1>4. Clean(p)
  BY <1>1, <1>3, CleanBefore
<1>5. Pressed(p) /\ Stage(p) /\ OthersSilent(p)
  BY <1>4 DEF CleanInv, Clean
<1>6. CASE r.press # p
  BY <1>2, <1>5, <1>6, ReceiveOther, NothingChanged
<1>7. CASE r.press = p
  <2>1. OwnReport(r, p)
    BY <1>2, <1>3, <1>5, <1>7 DEF OwnReport
  <2> QED
    BY <2>1, OwnRest, ReceivePrefix, ReceiveMain
<1> QED
  BY <1>6, <1>7

LEMMA StepClean == ASSUME TypeOK, Fits, CleanInv, [Next]_vars PROVE CleanInv'
<1> SUFFICES ASSUME NEW q \in Presses, Clean(q)' PROVE Stage(q)' /\ OthersSilent(q)'
  BY DEF CleanInv
<1>1. ASSUME NEW p \in Presses, PressStop(p) \/ PressMy(p) \/ PressTilt(p)
      PROVE  Stage(q)' /\ OthersSilent(q)'
  BY <1>1, OnePress, PressClean
<1> QED
  BY <1>1, ReceiveClean, ReconnectClean, FlushClean, DeliverClean, EndsClean, TickClean,
     RestartClean, StutterClean DEF Next

-----------------------------------------------------------------------------
(* The theorems *)

ObservationInv == TypeOK /\ Fits /\ OnceInv /\ CleanInv

LEMMA ObservationInvariance == Spec => []ObservationInv
<1>1. Init => ObservationInv
  BY InitTyped, InitFits, InitOnce, InitClean DEF ObservationInv
<1>2. ObservationInv /\ [Next]_vars => ObservationInv'
  BY StepTyped, StepFits, StepOnce, StepClean DEF ObservationInv
<1> QED
  BY <1>1, <1>2, PTL DEF Spec

\* A frame with a sequence number makes at most one event for a shutter, in whatever
\* order its copies arrive and however often a bridge publishes one again, with every
\* report lost or forward failed, until a copy arrives that is as old as the
\* coordinator's memory (MaxDelay, at most Cache) or older than its last restart.
THEOREM OneEventForEach == Spec => []OneEvent
<1>1. ObservationInv => OneEvent
  BY OnceIsOne DEF ObservationInv
<1> QED
  BY <1>1, ObservationInvariance, PTL

\* A press that nothing went wrong with makes exactly one event for every shutter that
\* can be resolved, the prefix and the end of a tilt together.
THEOREM UpdatedOnce == Spec => []UpdatesOnce
<1>1. ObservationInv => UpdatesOnce
  BY SettledIsServed DEF ObservationInv
<1> QED
  BY <1>1, ObservationInvariance, PTL

\* Such a press moves the estimator of each of these shutters exactly once, in the
\* firmware of the owner or by a forward to it.
THEOREM EstimatedOnce == Spec => []EstimatorOnce
<1>1. ObservationInv => EstimatorOnce
  BY SettledIsServed DEF ObservationInv
<1> QED
  BY <1>1, ObservationInvariance, PTL

=============================================================================
