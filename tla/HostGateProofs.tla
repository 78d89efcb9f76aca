---------------------------- MODULE HostGateProofs ----------------------------
(***************************************************************************)
(* Theorems of HostGate: types, slots, exclusive calls and wake-ups, for   *)
(* any numbers of calls, models and slots.  The gate is a record and its   *)
(* functions map records to records, so each is shown to keep the          *)
(* invariant.                                                              *)
(***************************************************************************)
EXTENDS HostGate, FiniteSetTheorems, SequenceTheorems, TLAPS

Slotted == Ordinary \cup Exclusive

Holders(g, m) == {c \in Slotted : ModelOf[c] = m /\ g.state[c] = "admitted"}
TrackedOn(g, m) == {c \in Tracked : ModelOf[c] = m /\ g.state[c] = "admitted"}

\* The counters count.
Counts(g) ==
    \A m \in Model :
        /\ g.inFlight[m] = Cardinality(Holders(g, m)) /\ g.inFlight[m] <= MaxInflight
        /\ g.trackedInFlight[m] = Cardinality(TrackedOn(g, m))

\* A queue holds waiting calls, each once, an ordinary one those of its model.
Distinct(q) == \A i, j \in 1..Len(q) : q[i] = q[j] => i = j
OrdinaryQueue(g, m) ==
    /\ Distinct(g.waitQueues[m])
    /\ \A i \in 1..Len(g.waitQueues[m]) :
          ModelOf[g.waitQueues[m][i]] = m /\ g.state[g.waitQueues[m][i]] = "waiting"
ExclusiveQueue(g) ==
    /\ Distinct(g.exclusiveWaitQueue)
    /\ \A i \in 1..Len(g.exclusiveWaitQueue) : g.state[g.exclusiveWaitQueue[i]] = "waiting"
Queues(g) == ExclusiveQueue(g) /\ \A m \in Model : OrdinaryQueue(g, m)

\* An admitted exclusive call owns the host, alone.
Alone(g) ==
    \A x \in Exclusive : g.state[x] = "admitted" =>
        /\ g.exclusiveHost = ModelOf[x]
        /\ \A c \in Slotted : g.state[c] = "admitted" => c = x

GateOk(g) == g \in Gate /\ Counts(g) /\ Queues(g) /\ Alone(g)

-----------------------------------------------------------------------------
LEMMA CallsAre ==
    /\ Slotted \cap Tracked = {} /\ Slotted \subseteq Call /\ Tracked \subseteq Call
    /\ Ordinary \subseteq Slotted /\ Exclusive \subseteq Slotted /\ Ordinary \cap Exclusive = {}
    /\ \A c \in Call : ModelOf[c] \in Model /\ ModelOf[c] # None
    /\ MaxInflight \in Nat /\ MaxInflight > 0
BY GateConstants DEF Slotted, Call

LEMMA SetsFinite ==
    ASSUME NEW g, NEW m
    PROVE  /\ IsFiniteSet(Holders(g, m)) /\ Cardinality(Holders(g, m)) \in Nat
           /\ IsFiniteSet(TrackedOn(g, m)) /\ Cardinality(TrackedOn(g, m)) \in Nat
<1>1. IsFiniteSet(Call) /\ Holders(g, m) \in SUBSET Call /\ TrackedOn(g, m) \in SUBSET Call
    BY CallsAre, GateConstants DEF Holders, TrackedOn
<1> QED
    BY <1>1, FS_Subset, FS_CardinalityType

\* The counters when no call enters or leaves.
LEMMA CountsSame ==
    ASSUME NEW g, NEW h, Counts(g),
           h.inFlight = g.inFlight, h.trackedInFlight = g.trackedInFlight,
           \A c \in Call : h.state[c] = "admitted" <=> g.state[c] = "admitted"
    PROVE  Counts(h)
<1>1. \A m \in Model : Holders(h, m) = Holders(g, m) /\ TrackedOn(h, m) = TrackedOn(g, m)
    BY CallsAre DEF Holders, TrackedOn
<1> QED
    BY <1>1 DEF Counts

\* A call takes a slot.
LEMMA CountsEnter ==
    ASSUME NEW g \in Gate, NEW h, Counts(g), NEW c \in Slotted, g.state[c] # "admitted",
           g.inFlight[ModelOf[c]] < MaxInflight,
           h.inFlight = [g.inFlight EXCEPT ![ModelOf[c]] = @ + 1],
           h.trackedInFlight = g.trackedInFlight,
           h.state = [g.state EXCEPT ![c] = "admitted"]
    PROVE  Counts(h)
<1>1. /\ g.inFlight \in [Model -> Nat] /\ g.state \in [Call -> {"new", "waiting", "admitted", "ended"}]
      /\ c \in Call /\ c \notin Tracked
    BY CallsAre DEF Gate
<1>2. \A d \in Call : h.state[d] = IF d = c THEN "admitted" ELSE g.state[d]
    BY <1>1
<1> SUFFICES ASSUME NEW m \in Model
             PROVE  /\ h.inFlight[m] = Cardinality(Holders(h, m)) /\ h.inFlight[m] <= MaxInflight
                    /\ h.trackedInFlight[m] = Cardinality(TrackedOn(h, m))
    BY DEF Counts
<1>3. TrackedOn(h, m) = TrackedOn(g, m)
    BY <1>1, <1>2, CallsAre DEF TrackedOn
<1>4. CASE m = ModelOf[c]
    <2>1. Holders(h, m) = Holders(g, m) \cup {c} /\ c \notin Holders(g, m)
        BY <1>2, <1>4, CallsAre DEF Holders
    <2>2. Cardinality(Holders(h, m)) = Cardinality(Holders(g, m)) + 1
        BY <2>1, SetsFinite, FS_AddElement
    <2>3. h.inFlight[m] = g.inFlight[m] + 1
        BY <1>1, <1>4
    <2>4. g.inFlight[m] \in Nat /\ MaxInflight \in Nat
        BY <1>1, CallsAre
    <2> QED
        BY <1>3, <1>4, <2>2, <2>3, <2>4 DEF Counts
<1>5. CASE m # ModelOf[c]
    <2>1. Holders(h, m) = Holders(g, m)
        BY <1>2, <1>5, CallsAre DEF Holders
    <2>2. h.inFlight[m] = g.inFlight[m]
        BY <1>1, <1>5
    <2> QED
        BY <1>3, <2>1, <2>2 DEF Counts
<1> QED
    BY <1>4, <1>5

\* A call gives its slot back.
LEMMA CountsLeave ==
    ASSUME NEW g \in Gate, NEW h, Counts(g), NEW c \in Slotted, g.state[c] = "admitted",
           h.inFlight = [g.inFlight EXCEPT ![ModelOf[c]] = @ - 1],
           h.trackedInFlight = g.trackedInFlight,
           h.state = [g.state EXCEPT ![c] = "ended"]
    PROVE  /\ Counts(h) /\ h.inFlight \in [Model -> Nat]
           /\ h.inFlight[ModelOf[c]] < MaxInflight
<1>1. /\ g.inFlight \in [Model -> Nat] /\ g.state \in [Call -> {"new", "waiting", "admitted", "ended"}]
      /\ c \in Call /\ c \notin Tracked /\ ModelOf[c] \in Model
    BY CallsAre DEF Gate
<1>2. \A d \in Call : h.state[d] = IF d = c THEN "ended" ELSE g.state[d]
    BY <1>1
<1>3. \A m \in Model : TrackedOn(h, m) = TrackedOn(g, m)
    BY <1>1, <1>2, CallsAre DEF TrackedOn
<1> DEFINE k == ModelOf[c]
<1>4. Holders(h, k) = Holders(g, k) \ {c} /\ c \in Holders(g, k)
    BY <1>2, CallsAre DEF Holders
<1>5. Cardinality(Holders(h, k)) = Cardinality(Holders(g, k)) - 1
    BY <1>4, SetsFinite, FS_RemoveElement
<1>6. g.inFlight[k] = Cardinality(Holders(g, k)) /\ g.inFlight[k] <= MaxInflight
    BY <1>1 DEF Counts
<1>7. h.inFlight[k] = g.inFlight[k] - 1 /\ \A m \in Model : m # k => h.inFlight[m] = g.inFlight[m]
    BY <1>1
<1>8. h.inFlight[k] = Cardinality(Holders(h, k)) /\ h.inFlight[k] \in Nat
    BY <1>5, <1>6, <1>7, SetsFinite
<1>9. g.inFlight[k] \in Nat /\ MaxInflight \in Nat
    BY <1>1, CallsAre
<1>10. h.inFlight[k] < MaxInflight /\ h.inFlight[k] <= MaxInflight
    BY <1>6, <1>7, <1>9
<1>11. \A m \in Model : m # k => Holders(h, m) = Holders(g, m)
    BY <1>2, CallsAre DEF Holders
<1>12. Counts(h)
    BY <1>3, <1>7, <1>8, <1>10, <1>11 DEF Counts
<1>13. h.inFlight \in [Model -> Nat]
    BY <1>1, <1>7, <1>8
<1> QED
    BY <1>10, <1>12, <1>13

\* An idle host holds no call, and one without an owner no exclusive one.
LEMMA IdleIsEmpty ==
    ASSUME NEW g, GateOk(g), HostIdle(g), NEW c \in Slotted
    PROVE  g.state[c] # "admitted"
<1>1. ModelOf[c] \in Model
    BY CallsAre
<1>2. Cardinality(Holders(g, ModelOf[c])) = 0
    BY <1>1 DEF GateOk, Counts, HostIdle
<1>3. Holders(g, ModelOf[c]) = {}
    BY <1>2, SetsFinite, FS_EmptySet
<1> QED
    BY <1>3 DEF Holders

LEMMA UnownedHasNoExclusive ==
    ASSUME NEW g, GateOk(g), g.exclusiveHost = None, NEW x \in Exclusive
    PROVE  g.state[x] # "admitted"
BY CallsAre DEF GateOk, Alone

-----------------------------------------------------------------------------
(* The fields of a gate.                                                     *)

State == {"new", "waiting", "admitted", "ended"}

LEMMA Fields ==
    ASSUME NEW g \in Gate
    PROVE  /\ g.inFlight \in [Model -> Nat] /\ g.trackedInFlight \in [Model -> Nat]
           /\ g.waitQueues \in [Model -> Seq(Ordinary)] /\ g.exclusiveWaitQueue \in Seq(Exclusive)
           /\ g.exclusiveHost \in Model \cup {None} /\ g.state \in [Call -> State]
           /\ g = [inFlight |-> g.inFlight, trackedInFlight |-> g.trackedInFlight,
                   waitQueues |-> g.waitQueues, exclusiveWaitQueue |-> g.exclusiveWaitQueue,
                   exclusiveHost |-> g.exclusiveHost, state |-> g.state]
BY DEF Gate, State

LEMMA AdmitFields ==
    ASSUME NEW g \in Gate, NEW m \in Model, NEW c \in Call
    PROVE  /\ Admit(g, m, c) \in Gate
           /\ Admit(g, m, c).inFlight = [g.inFlight EXCEPT ![m] = @ + 1]
           /\ Admit(g, m, c).trackedInFlight = g.trackedInFlight
           /\ Admit(g, m, c).waitQueues = g.waitQueues
           /\ Admit(g, m, c).exclusiveWaitQueue = g.exclusiveWaitQueue
           /\ Admit(g, m, c).exclusiveHost = g.exclusiveHost
           /\ Admit(g, m, c).state = [g.state EXCEPT ![c] = "admitted"]
<1>1. Admit(g, m, c) = [inFlight |-> [g.inFlight EXCEPT ![m] = @ + 1],
                        trackedInFlight |-> g.trackedInFlight,
                        waitQueues |-> g.waitQueues,
                        exclusiveWaitQueue |-> g.exclusiveWaitQueue,
                        exclusiveHost |-> g.exclusiveHost,
                        state |-> [g.state EXCEPT ![c] = "admitted"]]
    <2>1. Admit(g, m, c) = [[g EXCEPT !.inFlight = [g.inFlight EXCEPT ![m] = @ + 1]]
                               EXCEPT !.state = [g.state EXCEPT ![c] = "admitted"]]
        BY DEF Admit
    <2> QED
        BY <2>1, Fields
<1>2. [g.inFlight EXCEPT ![m] = @ + 1] \in [Model -> Nat]
    BY Fields
<1>3. [g.state EXCEPT ![c] = "admitted"] \in [Call -> State]
    BY Fields DEF State
<1> QED
    BY <1>1, <1>2, <1>3, Fields DEF Gate, State

LEMMA LeaveFields ==
    ASSUME NEW g \in Gate, NEW c \in Call, g.inFlight[ModelOf[c]] > 0
    PROVE  /\ Leave(g, c) \in Gate
           /\ Leave(g, c).inFlight = [g.inFlight EXCEPT ![ModelOf[c]] = @ - 1]
           /\ Leave(g, c).trackedInFlight = g.trackedInFlight
           /\ Leave(g, c).waitQueues = g.waitQueues
           /\ Leave(g, c).exclusiveWaitQueue = g.exclusiveWaitQueue
           /\ Leave(g, c).exclusiveHost = g.exclusiveHost
           /\ Leave(g, c).state = [g.state EXCEPT ![c] = "ended"]
<1>1. Leave(g, c) = [inFlight |-> [g.inFlight EXCEPT ![ModelOf[c]] = @ - 1],
                        trackedInFlight |-> g.trackedInFlight,
                        waitQueues |-> g.waitQueues,
                        exclusiveWaitQueue |-> g.exclusiveWaitQueue,
                        exclusiveHost |-> g.exclusiveHost,
                        state |-> [g.state EXCEPT ![c] = "ended"]]
    <2>1. Leave(g, c) = [[g EXCEPT !.inFlight = [g.inFlight EXCEPT ![ModelOf[c]] = @ - 1]]
                            EXCEPT !.state = [g.state EXCEPT ![c] = "ended"]]
        BY DEF Leave
    <2> QED
        BY <2>1, Fields
<1>2. [g.inFlight EXCEPT ![ModelOf[c]] = @ - 1] \in [Model -> Nat]
    <2>1. ModelOf[c] \in Model /\ g.inFlight[ModelOf[c]] - 1 \in Nat
        BY Fields, CallsAre
    <2> QED
        BY <2>1, Fields
<1>3. [g.state EXCEPT ![c] = "ended"] \in [Call -> State]
    BY Fields DEF State
<1> QED
    BY <1>1, <1>2, <1>3, Fields DEF Gate, State

\* One field at a time.
LEMMA QueueFields ==
    ASSUME NEW g \in Gate, NEW m \in Model, NEW q \in Seq(Ordinary)
    PROVE  /\ [g EXCEPT !.waitQueues[m] = q] \in Gate
           /\ [g EXCEPT !.waitQueues[m] = q] = [g EXCEPT !.waitQueues = [g.waitQueues EXCEPT ![m] = q]]
           /\ [g EXCEPT !.waitQueues[m] = q].waitQueues = [g.waitQueues EXCEPT ![m] = q]
           /\ [g EXCEPT !.waitQueues[m] = q].inFlight = g.inFlight
           /\ [g EXCEPT !.waitQueues[m] = q].trackedInFlight = g.trackedInFlight
           /\ [g EXCEPT !.waitQueues[m] = q].exclusiveWaitQueue = g.exclusiveWaitQueue
           /\ [g EXCEPT !.waitQueues[m] = q].exclusiveHost = g.exclusiveHost
           /\ [g EXCEPT !.waitQueues[m] = q].state = g.state
<1>1. [g.waitQueues EXCEPT ![m] = q] \in [Model -> Seq(Ordinary)]
    BY Fields
<1> QED
    BY <1>1, Fields DEF Gate

-----------------------------------------------------------------------------
(* Queues.                                                                   *)

LEMMA Shorter ==
    ASSUME NEW S, NEW q \in Seq(S), q # <<>>, Distinct(q)
    PROVE  /\ Tail(q) \in Seq(S) /\ Distinct(Tail(q)) /\ Len(q) \in Nat \ {0} /\ Head(q) = q[1]
           /\ \A i \in 1..Len(Tail(q)) :
                 i + 1 \in 1..Len(q) /\ Tail(q)[i] = q[i + 1] /\ q[i + 1] # q[1]
<1>1. Len(q) \in Nat \ {0} /\ Head(q) = q[1] /\ Len(Tail(q)) = Len(q) - 1 /\ Tail(q) \in Seq(S)
      /\ \A i \in 1..Len(Tail(q)) : Tail(q)[i] = q[i + 1]
    BY EmptySeq, HeadTailProperties
<1>2. \A i \in 1..Len(Tail(q)) : i + 1 \in 1..Len(q) /\ i + 1 # 1
    BY <1>1
<1> QED
    BY <1>1, <1>2 DEF Distinct

LEMMA Longer ==
    ASSUME NEW S, NEW q \in Seq(S), NEW c \in S, Distinct(q), \A i \in 1..Len(q) : q[i] # c
    PROVE  /\ Append(q, c) \in Seq(S) /\ Distinct(Append(q, c))
           /\ \A i \in 1..Len(Append(q, c)) :
                 Append(q, c)[i] = c \/ (i \in 1..Len(q) /\ Append(q, c)[i] = q[i])
<1>1. /\ Append(q, c) \in Seq(S) /\ Len(Append(q, c)) = Len(q) + 1 /\ Len(q) \in Nat
      /\ \A i \in 1..Len(q) : Append(q, c)[i] = q[i]
      /\ Append(q, c)[Len(q) + 1] = c
    BY AppendProperties, LenProperties
<1>2. \A i \in 1..Len(Append(q, c)) : i \in 1..Len(q) \/ i = Len(q) + 1
    BY <1>1
<1> QED
    BY <1>1, <1>2 DEF Distinct

\* What is left behind the first k.
Rest(q, k) == SubSeq(q, k + 1, Len(q))

LEMMA Dropped ==
    ASSUME NEW S, NEW q \in Seq(S), NEW k \in 0..Len(q), Distinct(q)
    PROVE  /\ Rest(q, k) \in Seq(S) /\ Distinct(Rest(q, k))
           /\ \A i \in 1..Len(Rest(q, k)) :
                 /\ k + i \in 1..Len(q) /\ Rest(q, k)[i] = q[k + i]
                 /\ \A j \in 1..k : q[j] # q[k + i]
<1> DEFINE r == SubSeq(q, k + 1, Len(q))
<1>1. Len(q) \in Nat /\ \A i \in (k + 1)..Len(q) : q[i] \in S
    BY LenProperties, ElementOfSeq
<1>2. /\ r \in Seq(S) /\ Len(r) = IF k + 1 <= Len(q) THEN Len(q) - (k + 1) + 1 ELSE 0
      /\ \A i \in 1..Len(q) - (k + 1) + 1 : r[i] = q[k + 1 + i - 1]
    BY <1>1, SubSeqProperties
<1>3. Len(r) = Len(q) - k
    BY <1>1, <1>2
<1>4. \A i \in 1..Len(r) : k + i \in 1..Len(q) /\ r[i] = q[k + i]
    BY <1>1, <1>2, <1>3
<1>5. ASSUME NEW i \in 1..Len(r), NEW j \in 1..k PROVE j \in 1..Len(q) /\ j # k + i
    BY <1>1, <1>3
<1>6. ASSUME NEW i \in 1..Len(r), NEW j \in 1..Len(r), r[i] = r[j] PROVE i = j
    <2>1. k + i = k + j
        BY <1>4, <1>6 DEF Distinct
    <2> QED
        BY <2>1, <1>1, <1>3
<1> QED
    BY <1>2, <1>4, <1>5, <1>6 DEF Distinct, Rest

LEMMA WithoutKnows ==
    ASSUME NEW S, NEW q \in Seq(S), NEW c, Distinct(q)
    PROVE  /\ Without(q, c) \in Seq(S) /\ Distinct(Without(q, c))
           /\ \A i \in 1..Len(Without(q, c)) :
                 \E j \in 1..Len(q) : Without(q, c)[i] = q[j] /\ q[j] # c
<1> DEFINE w == Without(q, c)
           n == IF Len(q) = 0 THEN 0 ELSE Len(q) - 1
           Gone(i) == \E j \in 1..i : q[j] = c
           At(i) == IF Gone(i) THEN i + 1 ELSE i
<1>1. Len(q) \in Nat /\ n \in Nat /\ 1..Len(q) - 1 = 1..n
    BY LenProperties
<1>2. \A i \in 1..n : At(i) \in 1..Len(q) /\ q[At(i)] # c
    BY <1>1 DEF Distinct
<1>3. w = [i \in 1..n |-> q[At(i)]]
    BY <1>1 DEF Without
<1>4. \A i \in 1..n : q[At(i)] \in S
    BY <1>2, ElementOfSeq
<1>5. w \in Seq(S) /\ Len(w) = n
    <2> HIDE DEF At
    <2> QED
        BY <1>1, <1>3, <1>4
<1>6. ASSUME NEW i \in 1..n, NEW j \in 1..n, At(i) = At(j) PROVE i = j
    BY <1>1, <1>6
<1>7. ASSUME NEW i \in 1..n, NEW j \in 1..n, w[i] = w[j] PROVE i = j
    <2> HIDE DEF At
    <2> QED
        BY <1>2, <1>3, <1>6, <1>7 DEF Distinct
<1>8. \A i \in 1..n : w[i] = q[At(i)]
    <2> HIDE DEF At
    <2> QED
        BY <1>3
<1> HIDE DEF At, w
<1>9. Distinct(w)
    BY <1>5, <1>7 DEF Distinct
<1> QED
    BY <1>2, <1>5, <1>8, <1>9 DEF w

-----------------------------------------------------------------------------
(* Admissions.                                                               *)

\* From g to h no ordinary call passes a waiting exclusive one, and no
\* exclusive call starts to wait.
NotPassed(g, h) ==
    /\ g.exclusiveWaitQueue = <<>> => h.exclusiveWaitQueue = <<>>
    /\ \A c \in Ordinary : g.state[c] # "admitted" /\ h.state[c] = "admitted"
                              => h.exclusiveWaitQueue = <<>>

LEMMA NotPassedTransitive ==
    ASSUME NEW f, NEW g, NEW h, NotPassed(f, g), NotPassed(g, h)
    PROVE  NotPassed(f, h)
BY DEF NotPassed

LEMMA QueueElements ==
    ASSUME NEW g \in Gate
    PROVE  /\ \A m \in Model : /\ g.waitQueues[m] \in Seq(Ordinary) /\ Len(g.waitQueues[m]) \in Nat
                               /\ \A i \in 1..Len(g.waitQueues[m]) : g.waitQueues[m][i] \in Ordinary
           /\ g.exclusiveWaitQueue \in Seq(Exclusive) /\ Len(g.exclusiveWaitQueue) \in Nat
           /\ \A i \in 1..Len(g.exclusiveWaitQueue) : g.exclusiveWaitQueue[i] \in Exclusive
<1>1. g.waitQueues \in [Model -> Seq(Ordinary)] /\ g.exclusiveWaitQueue \in Seq(Exclusive)
    BY Fields
<1> QED
    BY <1>1, ElementOfSeq, LenProperties

\* The queues when no waiter leaves.
LEMMA QueuesSame ==
    ASSUME NEW g \in Gate, NEW h, Queues(g),
           h.waitQueues = g.waitQueues, h.exclusiveWaitQueue = g.exclusiveWaitQueue,
           \A c \in Slotted : g.state[c] = "waiting" => h.state[c] = "waiting"
    PROVE  Queues(h)
<1>1. Ordinary \subseteq Slotted /\ Exclusive \subseteq Slotted
    BY CallsAre
<1>2. ExclusiveQueue(h)
    BY <1>1, QueueElements DEF Queues, ExclusiveQueue
<1>3. ASSUME NEW m \in Model PROVE OrdinaryQueue(h, m)
    BY <1>1, QueueElements DEF Queues, OrdinaryQueue
<1> QED
    BY <1>2, <1>3 DEF Queues

\* An ordinary call arrives at an open host with a free slot.
LEMMA ArrivalAdmitted ==
    ASSUME NEW g, GateOk(g), NEW c \in Ordinary, g.state[c] = "new",
           OpenToOrdinary(g), g.inFlight[ModelOf[c]] < MaxInflight
    PROVE  GateOk(Admit(g, ModelOf[c], c)) /\ NotPassed(g, Admit(g, ModelOf[c], c))
<1> DEFINE h == Admit(g, ModelOf[c], c)
<1>1. g \in Gate /\ c \in Slotted /\ c \in Call /\ ModelOf[c] \in Model /\ c \notin Exclusive
    BY CallsAre DEF GateOk
<1>2. /\ h \in Gate
      /\ h.inFlight = [g.inFlight EXCEPT ![ModelOf[c]] = @ + 1]
      /\ h.trackedInFlight = g.trackedInFlight
      /\ h.waitQueues = g.waitQueues
      /\ h.exclusiveWaitQueue = g.exclusiveWaitQueue
      /\ h.state = [g.state EXCEPT ![c] = "admitted"]
    BY <1>1, AdmitFields
<1>3. \A d \in Call : h.state[d] = IF d = c THEN "admitted" ELSE g.state[d]
    BY <1>1, <1>2, Fields
<1> HIDE DEF h
<1>4. Counts(h)
    BY <1>1, <1>2, CountsEnter DEF GateOk
<1>5. Queues(h)
    BY <1>1, <1>2, <1>3, CallsAre, QueuesSame DEF GateOk
<1>6. \A x \in Exclusive : g.state[x] # "admitted"
    BY UnownedHasNoExclusive DEF OpenToOrdinary
<1>7. Alone(h)
    BY <1>1, <1>3, <1>6, CallsAre DEF Alone
<1>8. g.exclusiveWaitQueue = <<>>
    BY DEF OpenToOrdinary, HasExclusiveWaiters
<1> QED
    BY <1>2, <1>4, <1>5, <1>7, <1>8 DEF GateOk, NotPassed, h

\* The first waiter of a model, and the gate that has admitted it.
LEMMA NextFields ==
    ASSUME NEW g, GateOk(g), NEW m \in Model,
           OpenToOrdinary(g), g.waitQueues[m] # <<>>
    PROVE  /\ Head(g.waitQueues[m]) \in Ordinary
           /\ ModelOf[Head(g.waitQueues[m])] = m
           /\ g.state[Head(g.waitQueues[m])] = "waiting"
           /\ AdmitNextLocalWaiter(g, m) \in Gate
           /\ AdmitNextLocalWaiter(g, m).inFlight[m] = g.inFlight[m] + 1
           /\ \A k \in Model : k # m =>
                 AdmitNextLocalWaiter(g, m).inFlight[k] = g.inFlight[k]
           /\ AdmitNextLocalWaiter(g, m).trackedInFlight = g.trackedInFlight
           /\ AdmitNextLocalWaiter(g, m).exclusiveWaitQueue = g.exclusiveWaitQueue
           /\ AdmitNextLocalWaiter(g, m).exclusiveHost = g.exclusiveHost
           /\ AdmitNextLocalWaiter(g, m).waitQueues[m] = Tail(g.waitQueues[m])
           /\ \A k \in Model : k # m =>
                 AdmitNextLocalWaiter(g, m).waitQueues[k] = g.waitQueues[k]
           /\ \A d \in Call : AdmitNextLocalWaiter(g, m).state[d] =
                 IF d = Head(g.waitQueues[m]) THEN "admitted" ELSE g.state[d]
<1> DEFINE q == g.waitQueues[m]
           c == Head(q)
           a == Admit(g, m, c)
           h == AdmitNextLocalWaiter(g, m)
           r == Tail(q)
<1>1. g \in Gate /\ q \in Seq(Ordinary) /\ Distinct(q)
    BY QueueElements DEF GateOk, Queues, OrdinaryQueue
<1>2. r \in Seq(Ordinary) /\ Len(q) \in Nat \ {0} /\ c = q[1]
    BY <1>1, Shorter
<1>3. c \in Ordinary /\ c \in Call /\ ModelOf[c] = m /\ g.state[c] = "waiting"
    <2>1. 1 \in 1..Len(q)
        BY <1>2
    <2> QED
        BY <1>1, <1>2, <2>1, ElementOfSeq, CallsAre DEF GateOk, Queues, OrdinaryQueue
<1>4. /\ a \in Gate /\ a.inFlight = [g.inFlight EXCEPT ![m] = @ + 1]
      /\ a.trackedInFlight = g.trackedInFlight
      /\ a.waitQueues = g.waitQueues
      /\ a.exclusiveWaitQueue = g.exclusiveWaitQueue
      /\ a.exclusiveHost = g.exclusiveHost
      /\ a.state = [g.state EXCEPT ![c] = "admitted"]
    BY <1>1, <1>3, AdmitFields
<1>5. h = [a EXCEPT !.waitQueues[m] = r]
    BY <1>4 DEF AdmitNextLocalWaiter
<1> HIDE DEF a, h, r, c, q
<1>6. /\ h \in Gate /\ h.inFlight = a.inFlight
      /\ h.trackedInFlight = a.trackedInFlight
      /\ h.waitQueues = [g.waitQueues EXCEPT ![m] = r]
      /\ h.exclusiveWaitQueue = g.exclusiveWaitQueue
      /\ h.exclusiveHost = g.exclusiveHost /\ h.state = a.state
    BY <1>2, <1>4, <1>5, QueueFields
<1>7. h.waitQueues[m] = r /\ \A k \in Model : k # m => h.waitQueues[k] = g.waitQueues[k]
    BY <1>1, <1>6, Fields
<1>8. \A d \in Call : h.state[d] = IF d = c THEN "admitted" ELSE g.state[d]
    BY <1>1, <1>3, <1>4, <1>6, Fields
<1>9. h.inFlight[m] = g.inFlight[m] + 1
      /\ \A k \in Model : k # m => h.inFlight[k] = g.inFlight[k]
    BY <1>1, <1>4, <1>6, Fields
<1> QED
    BY <1>3, <1>4, <1>6, <1>7, <1>8, <1>9 DEF h, r, c, q

\* The first waiter of a model gets the slot another call gave back.
LEMMA NextAdmitted ==
    ASSUME NEW g, GateOk(g), NEW m \in Model, g.inFlight[m] < MaxInflight
    PROVE  /\ GateOk(AdmitNextLocalWaiter(g, m))
           /\ NotPassed(g, AdmitNextLocalWaiter(g, m))
<1>1. CASE ~(OpenToOrdinary(g) /\ g.waitQueues[m] # <<>>)
    BY <1>1 DEF AdmitNextLocalWaiter, NotPassed
<1>2. CASE OpenToOrdinary(g) /\ g.waitQueues[m] # <<>>
    <2> DEFINE q == g.waitQueues[m]
               c == Head(q)
               h == AdmitNextLocalWaiter(g, m)
    <2>1. g \in Gate /\ q \in Seq(Ordinary) /\ Distinct(q)
        BY QueueElements DEF GateOk, Queues, OrdinaryQueue
    <2>2. /\ Tail(q) \in Seq(Ordinary) /\ Distinct(Tail(q)) /\ Len(q) \in Nat \ {0} /\ c = q[1]
          /\ \A i \in 1..Len(Tail(q)) :
                 i + 1 \in 1..Len(q) /\ Tail(q)[i] = q[i + 1] /\ q[i + 1] # q[1]
        BY <1>2, <2>1, Shorter
    <2>3. /\ c \in Ordinary /\ c \in Slotted /\ c \in Call /\ c \notin Exclusive
          /\ ModelOf[c] = m /\ g.state[c] = "waiting"
          /\ h \in Gate
          /\ h.inFlight[m] = g.inFlight[m] + 1
          /\ \A k \in Model : k # m => h.inFlight[k] = g.inFlight[k]
          /\ h.trackedInFlight = g.trackedInFlight
          /\ h.exclusiveWaitQueue = g.exclusiveWaitQueue
          /\ h.waitQueues[m] = Tail(q)
          /\ \A k \in Model : k # m => h.waitQueues[k] = g.waitQueues[k]
          /\ \A d \in Call : h.state[d] = IF d = c THEN "admitted" ELSE g.state[d]
        BY <1>2, NextFields, CallsAre
    <2> HIDE DEF h, c, q
    <2>4. Counts(h)
        <3>1. /\ h.inFlight = [g.inFlight EXCEPT ![m] = @ + 1]
              /\ h.state = [g.state EXCEPT ![c] = "admitted"]
            <4>1. /\ h.inFlight \in [Model -> Nat] /\ g.inFlight \in [Model -> Nat]
                  /\ h.state \in [Call -> State] /\ g.state \in [Call -> State]
                BY <2>1, <2>3, Fields
            <4> QED
                BY <2>3, <4>1
        <3> QED
            BY <2>1, <2>3, <3>1, CountsEnter DEF GateOk
    <2>5. ExclusiveQueue(h)
        <3>1. /\ h.exclusiveWaitQueue = g.exclusiveWaitQueue
              /\ \A d \in Exclusive : d \in Call /\ h.state[d] = g.state[d]
            BY <2>3, CallsAre
        <3> QED
            BY <2>1, <3>1, QueueElements DEF GateOk, Queues, ExclusiveQueue
    <2>6. OrdinaryQueue(h, m)
        <3>1. ASSUME NEW i \in 1..Len(Tail(q))
              PROVE  ModelOf[Tail(q)[i]] = m /\ h.state[Tail(q)[i]] = "waiting"
            <4>1. i + 1 \in 1..Len(q) /\ Tail(q)[i] = q[i + 1] /\ q[i + 1] # c
                BY <2>2
            <4>2. ModelOf[q[i + 1]] = m /\ g.state[q[i + 1]] = "waiting" /\ q[i + 1] \in Call
                BY <2>1, <4>1, QueueElements, CallsAre DEF GateOk, Queues, OrdinaryQueue, q
            <4> QED
                BY <2>3, <4>1, <4>2
        <3> QED
            BY <2>2, <2>3, <3>1 DEF OrdinaryQueue
    <2>7. ASSUME NEW k \in Model, k # m PROVE OrdinaryQueue(h, k)
        <3>1. OrdinaryQueue(g, k) /\ h.waitQueues[k] = g.waitQueues[k]
            BY <2>3, <2>7 DEF GateOk, Queues
        <3>2. \A i \in 1..Len(g.waitQueues[k]) :
                 g.waitQueues[k][i] \in Call /\ g.waitQueues[k][i] # c
            BY <2>1, <2>3, <2>7, <3>1, QueueElements, CallsAre DEF OrdinaryQueue
        <3> QED
            BY <2>3, <3>1, <3>2 DEF OrdinaryQueue
    <2>8. \A x \in Exclusive : g.state[x] # "admitted"
        BY <1>2, UnownedHasNoExclusive DEF OpenToOrdinary
    <2>9. Alone(h)
        BY <2>3, <2>8, CallsAre DEF Alone
    <2>10. g.exclusiveWaitQueue = <<>>
        BY <1>2 DEF OpenToOrdinary, HasExclusiveWaiters
    <2>11. GateOk(h)
        BY <2>3, <2>4, <2>5, <2>6, <2>7, <2>9 DEF GateOk, Queues
    <2>12. NotPassed(g, h)
        BY <2>3, <2>10 DEF NotPassed
    <2> QED
        BY <2>11, <2>12 DEF h
<1> QED
    BY <1>1, <1>2

\* An idle host without an owner goes to an exclusive call.
LEMMA OwnFields ==
    ASSUME NEW g, GateOk(g), HostIdle(g), g.exclusiveHost = None,
           NEW x \in Exclusive
    PROVE  /\ Own(g, x) \in Gate
           /\ Own(g, x).waitQueues = g.waitQueues
           /\ Own(g, x).exclusiveWaitQueue = g.exclusiveWaitQueue
           /\ \A d \in Call : Own(g, x).state[d] = IF d = x THEN "admitted" ELSE g.state[d]
           /\ Counts(Own(g, x)) /\ Alone(Own(g, x))
<1> DEFINE m == ModelOf[x]
           a == Admit(g, m, x)
           h == Own(g, x)
<1>1. g \in Gate /\ x \in Slotted /\ x \in Call /\ m \in Model
    BY CallsAre DEF GateOk
<1>2. /\ a \in Gate
      /\ a.inFlight = [g.inFlight EXCEPT ![m] = @ + 1]
      /\ a.trackedInFlight = g.trackedInFlight
      /\ a.waitQueues = g.waitQueues
      /\ a.exclusiveWaitQueue = g.exclusiveWaitQueue
      /\ a.state = [g.state EXCEPT ![x] = "admitted"]
    BY <1>1, AdmitFields
<1>3. h = [a EXCEPT !.exclusiveHost = m]
    BY DEF Own
<1>4. /\ h \in Gate /\ h.inFlight = a.inFlight /\ h.trackedInFlight = a.trackedInFlight
      /\ h.waitQueues = a.waitQueues /\ h.exclusiveWaitQueue = a.exclusiveWaitQueue
      /\ h.exclusiveHost = m /\ h.state = a.state
    <2> HIDE DEF a, h, m
    <2> QED
        BY <1>1, <1>2, <1>3, Fields DEF Gate, State
<1>5. \A d \in Call : h.state[d] = IF d = x THEN "admitted" ELSE g.state[d]
    BY <1>1, <1>2, <1>4, Fields
<1>6. g.inFlight[m] < MaxInflight
    BY <1>1, CallsAre DEF HostIdle
<1>7. \A d \in Slotted : g.state[d] # "admitted"
    BY IdleIsEmpty
<1> HIDE DEF a, h
<1>8. Counts(h)
    BY <1>1, <1>2, <1>4, <1>6, <1>7, CountsEnter DEF GateOk
<1>9. Alone(h)
    BY <1>4, <1>5, <1>7, CallsAre DEF Alone
<1> QED
    BY <1>2, <1>4, <1>5, <1>8, <1>9 DEF h

LEMMA ArrivalOwns ==
    ASSUME NEW g, GateOk(g), NEW x \in Exclusive, g.state[x] = "new", MayOwn(g)
    PROVE  GateOk(Own(g, x)) /\ NotPassed(g, Own(g, x))
<1> DEFINE h == Own(g, x)
<1>1. /\ h \in Gate /\ h.waitQueues = g.waitQueues
      /\ h.exclusiveWaitQueue = g.exclusiveWaitQueue
      /\ \A d \in Call : h.state[d] = IF d = x THEN "admitted" ELSE g.state[d]
      /\ Counts(h) /\ Alone(h)
    BY OwnFields DEF MayOwn
<1>2. g.exclusiveWaitQueue = <<>>
    BY DEF MayOwn, HasExclusiveWaiters
<1> HIDE DEF h
<1>3. Queues(h)
    BY <1>1, CallsAre, QueuesSame DEF GateOk
<1> QED
    BY <1>1, <1>2, <1>3 DEF GateOk, NotPassed, h
\* The first exclusive waiter, and the gate that has given it the host.
LEMMA NextOwnsFields ==
    ASSUME NEW g, GateOk(g), g.exclusiveHost = None, HostIdle(g), HasExclusiveWaiters(g)
    PROVE  /\ Head(g.exclusiveWaitQueue) \in Exclusive
           /\ g.state[Head(g.exclusiveWaitQueue)] = "waiting"
           /\ DrainHost(g) \in Gate /\ Counts(DrainHost(g)) /\ Alone(DrainHost(g))
           /\ DrainHost(g).waitQueues = g.waitQueues
           /\ DrainHost(g).exclusiveWaitQueue = Tail(g.exclusiveWaitQueue)
           /\ \A d \in Call : DrainHost(g).state[d] =
                 IF d = Head(g.exclusiveWaitQueue) THEN "admitted" ELSE g.state[d]
<1> DEFINE q == g.exclusiveWaitQueue
           x == Head(q)
           a == Own(g, x)
           h == DrainHost(g)
           r == Tail(q)
<1>1. g \in Gate /\ q \in Seq(Exclusive) /\ Distinct(q) /\ q # <<>>
    BY QueueElements DEF GateOk, Queues, ExclusiveQueue, HasExclusiveWaiters
<1>2. r \in Seq(Exclusive) /\ Len(q) \in Nat \ {0} /\ x = q[1]
    BY <1>1, Shorter
<1>3. x \in Exclusive /\ g.state[x] = "waiting"
    <2>1. 1 \in 1..Len(q)
        BY <1>2
    <2> QED
        BY <1>1, <1>2, <2>1, ElementOfSeq DEF GateOk, Queues, ExclusiveQueue
<1>4. /\ a \in Gate /\ a.waitQueues = g.waitQueues /\ a.exclusiveWaitQueue = q
      /\ \A d \in Call : a.state[d] = IF d = x THEN "admitted" ELSE g.state[d]
      /\ Counts(a) /\ Alone(a)
    BY <1>3, OwnFields
<1>5. h = [a EXCEPT !.exclusiveWaitQueue = r]
    BY <1>4 DEF DrainHost
<1> HIDE DEF a, h, r, x, q
<1>6. /\ h \in Gate /\ h.inFlight = a.inFlight /\ h.trackedInFlight = a.trackedInFlight
      /\ h.waitQueues = a.waitQueues /\ h.exclusiveWaitQueue = r
      /\ h.exclusiveHost = a.exclusiveHost /\ h.state = a.state
    BY <1>2, <1>4, <1>5, Fields DEF Gate, State
<1>7. Counts(h)
    BY <1>4, <1>6, CountsSame
<1>8. Alone(h)
    BY <1>4, <1>6 DEF Alone
<1> QED
    BY <1>3, <1>4, <1>6, <1>7, <1>8 DEF h, r, x, q

LEMMA NextOwns ==
    ASSUME NEW g, GateOk(g), g.exclusiveHost = None, HostIdle(g), HasExclusiveWaiters(g)
    PROVE  GateOk(DrainHost(g)) /\ NotPassed(g, DrainHost(g))
<1> DEFINE q == g.exclusiveWaitQueue
           x == Head(q)
           h == DrainHost(g)
<1>1. g \in Gate /\ q \in Seq(Exclusive) /\ Distinct(q) /\ q # <<>>
    BY QueueElements DEF GateOk, Queues, ExclusiveQueue, HasExclusiveWaiters
<1>2. /\ Tail(q) \in Seq(Exclusive) /\ Distinct(Tail(q)) /\ x = q[1]
      /\ \A i \in 1..Len(Tail(q)) :
             i + 1 \in 1..Len(q) /\ Tail(q)[i] = q[i + 1] /\ q[i + 1] # q[1]
    BY <1>1, Shorter
<1>3. /\ x \in Exclusive /\ g.state[x] = "waiting"
      /\ h \in Gate /\ Counts(h) /\ Alone(h)
      /\ h.waitQueues = g.waitQueues /\ h.exclusiveWaitQueue = Tail(q)
      /\ \A d \in Call : h.state[d] = IF d = x THEN "admitted" ELSE g.state[d]
    BY NextOwnsFields
<1>4. x \in Call /\ x \notin Ordinary
    BY <1>3, CallsAre
<1> HIDE DEF h, x, q
<1>5. ExclusiveQueue(h)
    <2>1. ASSUME NEW i \in 1..Len(Tail(q)) PROVE h.state[Tail(q)[i]] = "waiting"
        <3>1. i + 1 \in 1..Len(q) /\ Tail(q)[i] = q[i + 1] /\ q[i + 1] # x
            BY <1>2
        <3>2. g.state[q[i + 1]] = "waiting" /\ q[i + 1] \in Call
            BY <1>1, <3>1, QueueElements, CallsAre DEF GateOk, Queues, ExclusiveQueue, q
        <3> QED
            BY <1>3, <3>1, <3>2
    <2> QED
        BY <1>2, <1>3, <2>1 DEF ExclusiveQueue
<1>6. ASSUME NEW m \in Model PROVE OrdinaryQueue(h, m)
    <2>1. OrdinaryQueue(g, m) /\ h.waitQueues[m] = g.waitQueues[m]
        BY <1>3 DEF GateOk, Queues
    <2>2. \A i \in 1..Len(g.waitQueues[m]) :
             g.waitQueues[m][i] \in Call /\ g.waitQueues[m][i] # x
        BY <1>1, <1>4, QueueElements, CallsAre
    <2> QED
        BY <1>3, <2>1, <2>2 DEF OrdinaryQueue
<1>7. GateOk(h)
    BY <1>3, <1>5, <1>6 DEF GateOk, Queues
<1>8. \A c \in Ordinary : h.state[c] = "admitted" => g.state[c] = "admitted"
    BY <1>3, <1>4, CallsAre
<1>9. NotPassed(g, h)
    BY <1>1, <1>8 DEF NotPassed, q
<1> QED
    BY <1>7, <1>9 DEF h

-----------------------------------------------------------------------------
(* An idle host admits the front of each queue.                              *)

Front(g, m) == {g.waitQueues[m][i] : i \in 1..Room(g, m)}

LEMMA FrontKnows ==
    ASSUME NEW g, GateOk(g), NEW m \in Model
    PROVE  /\ Room(g, m) \in 0..Len(g.waitQueues[m])
           /\ g.inFlight[m] + Room(g, m) <= MaxInflight
           /\ Front(g, m) \subseteq Ordinary /\ IsFiniteSet(Front(g, m))
           /\ Cardinality(Front(g, m)) = Room(g, m)
           /\ \A c \in Front(g, m) : ModelOf[c] = m /\ g.state[c] = "waiting"
<1> DEFINE q == g.waitQueues[m]
           n == Room(g, m)
<1>1. g \in Gate /\ q \in Seq(Ordinary) /\ Len(q) \in Nat /\ Distinct(q)
      /\ \A i \in 1..Len(q) : q[i] \in Ordinary /\ ModelOf[q[i]] = m /\ g.state[q[i]] = "waiting"
    BY QueueElements DEF GateOk, Queues, OrdinaryQueue
<1>2. g.inFlight[m] \in Nat /\ MaxInflight \in Nat /\ g.inFlight[m] <= MaxInflight
    BY <1>1, Fields, CallsAre DEF GateOk, Counts
<1>3. n \in 0..Len(q) /\ g.inFlight[m] + n <= MaxInflight
    BY <1>1, <1>2 DEF Room
<1>4. 1..n \subseteq 1..Len(q)
    BY <1>1, <1>3
<1> HIDE DEF n, q
<1>5. Front(g, m) = {q[i] : i \in 1..n}
    BY DEF Front, n, q
<1>6. Front(g, m) \subseteq Ordinary /\ \A c \in Front(g, m) : ModelOf[c] = m /\ g.state[c] = "waiting"
    BY <1>1, <1>4, <1>5
<1>7. [i \in 1..n |-> q[i]] \in Bijection(1..n, Front(g, m))
    BY <1>1, <1>4, <1>5 DEF Bijection, Injection, Surjection, IsInjective, Distinct
<1>8. IsFiniteSet(1..n) /\ Cardinality(1..n) = n
    BY <1>1, <1>3, FS_Interval
<1>9. IsFiniteSet(Front(g, m)) /\ Cardinality(Front(g, m)) = n
    BY <1>7, <1>8, FS_Bijection DEF ExistsBijection
<1> QED
    BY <1>3, <1>6, <1>9 DEF n, q

LEMMA FrontFields ==
    ASSUME NEW g, GateOk(g)
    PROVE  /\ AdmitWaiters(g) \in Gate
           /\ \A m \in Model :
                 /\ AdmitWaiters(g).inFlight[m] = g.inFlight[m] + Room(g, m)
                 /\ AdmitWaiters(g).waitQueues[m] = Rest(g.waitQueues[m], Room(g, m))
           /\ AdmitWaiters(g).trackedInFlight = g.trackedInFlight
           /\ AdmitWaiters(g).exclusiveWaitQueue = g.exclusiveWaitQueue
           /\ AdmitWaiters(g).exclusiveHost = g.exclusiveHost
           /\ \A c \in Call : AdmitWaiters(g).state[c] =
                 IF \E m \in Model : c \in Front(g, m) THEN "admitted" ELSE g.state[c]
<1> DEFINE Left(m) == Rest(g.waitQueues[m], Room(g, m))
           Admitted(c) == \E m \in Model : \E i \in 1..Room(g, m) : g.waitQueues[m][i] = c
           f == [m \in Model |-> g.inFlight[m] + Room(g, m)]
           w == [m \in Model |-> Left(m)]
           s == [c \in Call |-> IF Admitted(c) THEN "admitted" ELSE g.state[c]]
           h == AdmitWaiters(g)
<1>1. g \in Gate
    BY DEF GateOk
<1>2. ASSUME NEW m \in Model PROVE Left(m) \in Seq(Ordinary) /\ g.inFlight[m] + Room(g, m) \in Nat
    <2>1. /\ g.waitQueues[m] \in Seq(Ordinary) /\ Distinct(g.waitQueues[m])
          /\ Room(g, m) \in 0..Len(g.waitQueues[m])
        BY <1>1, QueueElements, FrontKnows DEF GateOk, Queues, OrdinaryQueue
    <2>2. Left(m) \in Seq(Ordinary)
        BY <2>1, Dropped
    <2>3. g.inFlight[m] \in Nat /\ Room(g, m) \in Nat
        BY <1>1, <2>1, Fields, QueueElements
    <2> QED
        BY <2>2, <2>3
<1>3. f \in [Model -> Nat] /\ w \in [Model -> Seq(Ordinary)]
    BY <1>2
<1>4. s \in [Call -> State]
    BY <1>1, Fields DEF State
<1>5. h = [[[g EXCEPT !.inFlight = f] EXCEPT !.waitQueues = w] EXCEPT !.state = s]
    BY DEF AdmitWaiters, Rest
<1>6. \A c \in Call : Admitted(c) <=> \E m \in Model : c \in Front(g, m)
    BY DEF Front
<1>7. /\ \A m \in Model : f[m] = g.inFlight[m] + Room(g, m) /\ w[m] = Left(m)
      /\ \A c \in Call : s[c] = IF Admitted(c) THEN "admitted" ELSE g.state[c]
    OBVIOUS
<1> HIDE DEF f, w, s, Left, Admitted
<1>8. h = [inFlight |-> f, trackedInFlight |-> g.trackedInFlight, waitQueues |-> w,
           exclusiveWaitQueue |-> g.exclusiveWaitQueue, exclusiveHost |-> g.exclusiveHost,
           state |-> s]
    BY <1>1, <1>5, Fields
<1>9. h \in Gate
    BY <1>1, <1>3, <1>4, <1>8, Fields DEF Gate, State
<1> QED
    BY <1>6, <1>7, <1>8, <1>9 DEF Left

LEMMA FrontAdmitted ==
    ASSUME NEW g, GateOk(g), g.exclusiveHost = None, ~HasExclusiveWaiters(g)
    PROVE  GateOk(AdmitWaiters(g)) /\ NotPassed(g, AdmitWaiters(g))
<1> DEFINE h == AdmitWaiters(g)
<1>1. g \in Gate /\ g.exclusiveWaitQueue = <<>>
    BY DEF GateOk, HasExclusiveWaiters
<1>2. /\ h \in Gate
      /\ \A m \in Model :
            /\ h.inFlight[m] = g.inFlight[m] + Room(g, m)
            /\ h.waitQueues[m] = Rest(g.waitQueues[m], Room(g, m))
      /\ h.trackedInFlight = g.trackedInFlight
      /\ h.exclusiveWaitQueue = g.exclusiveWaitQueue
      /\ \A c \in Call : h.state[c] =
            IF \E m \in Model : c \in Front(g, m) THEN "admitted" ELSE g.state[c]
    BY FrontFields
<1> HIDE DEF h
<1>3. \A m \in Model : \A c \in Front(g, m) :
         c \in Ordinary /\ c \in Slotted /\ c \in Call /\ c \notin Tracked /\ c \notin Exclusive
         /\ ModelOf[c] = m /\ g.state[c] = "waiting"
    BY FrontKnows, CallsAre
<1>4. ASSUME NEW m \in Model
      PROVE  /\ h.inFlight[m] = Cardinality(Holders(h, m)) /\ h.inFlight[m] <= MaxInflight
             /\ h.trackedInFlight[m] = Cardinality(TrackedOn(h, m))
    <2>1. Holders(h, m) = Holders(g, m) \cup Front(g, m)
        BY <1>2, <1>3, CallsAre DEF Holders
    <2>2. Holders(g, m) \cap Front(g, m) = {}
        BY <1>3 DEF Holders
    <2>3. Cardinality(Holders(g, m) \cap Front(g, m)) = 0
        BY <2>2, FS_EmptySet
    <2>4. Cardinality(Holders(h, m)) = Cardinality(Holders(g, m)) + Room(g, m) - 0
        BY <2>1, <2>3, FrontKnows, SetsFinite, FS_Union
    <2>5. g.inFlight[m] = Cardinality(Holders(g, m)) /\ g.inFlight[m] \in Nat /\ Room(g, m) \in Nat
        <3>1. g.inFlight[m] = Cardinality(Holders(g, m))
            BY DEF GateOk, Counts
        <3>2. Room(g, m) \in 0..Len(g.waitQueues[m]) /\ Len(g.waitQueues[m]) \in Nat
            BY <1>1, FrontKnows, QueueElements
        <3> QED
            BY <3>1, <3>2, SetsFinite
    <2>6. h.inFlight[m] = Cardinality(Holders(h, m)) /\ h.inFlight[m] <= MaxInflight
        BY <1>2, <2>4, <2>5, FrontKnows
    <2>7. TrackedOn(h, m) = TrackedOn(g, m)
        BY <1>2, <1>3, CallsAre DEF TrackedOn
    <2>8. g.trackedInFlight[m] = Cardinality(TrackedOn(g, m))
        BY DEF GateOk, Counts
    <2> QED
        BY <1>2, <2>6, <2>7, <2>8
<1>5. Counts(h)
    BY <1>4 DEF Counts
<1>6. ASSUME NEW m \in Model PROVE OrdinaryQueue(h, m)
    <2> DEFINE q == g.waitQueues[m]
               k == Room(g, m)
               r == Rest(q, k)
    <2>1. /\ q \in Seq(Ordinary) /\ Distinct(q) /\ k \in 0..Len(q)
          /\ \A i \in 1..Len(q) : ModelOf[q[i]] = m /\ g.state[q[i]] = "waiting" /\ q[i] \in Call
        BY <1>1, QueueElements, FrontKnows, CallsAre DEF GateOk, Queues, OrdinaryQueue
    <2>2. /\ Distinct(r)
          /\ \A i \in 1..Len(r) : /\ k + i \in 1..Len(q) /\ r[i] = q[k + i]
                                  /\ \A j \in 1..k : q[j] # q[k + i]
        <3>1. q \in Seq(Ordinary) /\ k \in 0..Len(q) /\ Distinct(q)
            BY <2>1
        <3> HIDE DEF q, k
        <3> QED
            BY <3>1, Dropped
    <2>3. h.waitQueues[m] = r
        BY <1>2
    <2>4. Front(g, m) = {q[j] : j \in 1..k}
        BY DEF Front
    <2> HIDE DEF q, k, r
    <2>5. ASSUME NEW i \in 1..Len(r) PROVE ModelOf[r[i]] = m /\ h.state[r[i]] = "waiting"
        <3>1. /\ k + i \in 1..Len(q) /\ r[i] = q[k + i]
              /\ \A j \in 1..k : q[j] # q[k + i]
            BY <2>2
        <3>2. ModelOf[r[i]] = m /\ g.state[r[i]] = "waiting" /\ r[i] \in Call
            BY <2>1, <3>1
        <3>3. r[i] \notin Front(g, m)
            BY <2>4, <3>1
        <3>4. \A n \in Model : r[i] \notin Front(g, n)
            BY <1>3, <3>2, <3>3
        <3> QED
            BY <1>2, <3>2, <3>4
    <2> QED
        BY <2>2, <2>3, <2>5 DEF OrdinaryQueue
<1>7. ExclusiveQueue(h)
    <2>1. Len(h.exclusiveWaitQueue) = 0
        BY <1>1, <1>2
    <2> QED
        BY <2>1 DEF ExclusiveQueue, Distinct
<1>8. \A x \in Exclusive : g.state[x] # "admitted"
    BY UnownedHasNoExclusive
<1>9. Alone(h)
    BY <1>2, <1>3, <1>8, CallsAre DEF Alone
<1> QED
    BY <1>1, <1>2, <1>5, <1>6, <1>7, <1>9 DEF GateOk, Queues, NotPassed, h

\* drainHost keeps the invariant, whoever is next.
LEMMA DrainKeeps ==
    ASSUME NEW g, GateOk(g)
    PROVE  GateOk(DrainHost(g)) /\ NotPassed(g, DrainHost(g))
<1>1. CASE g.exclusiveHost # None \/ ~HostIdle(g)
    BY <1>1 DEF DrainHost, NotPassed
<1>2. CASE g.exclusiveHost = None /\ HostIdle(g) /\ HasExclusiveWaiters(g)
    BY <1>2, NextOwns
<1>3. CASE g.exclusiveHost = None /\ HostIdle(g) /\ ~HasExclusiveWaiters(g)
    BY <1>3, FrontAdmitted DEF DrainHost
<1> QED
    BY <1>1, <1>2, <1>3

-----------------------------------------------------------------------------
(* Departures.                                                               *)

\* A call that gives its slot back, whoever owns the host then.
LEMMA Departs ==
    ASSUME NEW g, GateOk(g), NEW c \in Slotted, g.state[c] = "admitted"
    PROVE  /\ GateOk(Leave(g, c)) /\ NotPassed(g, Leave(g, c))
           /\ Leave(g, c).inFlight[ModelOf[c]] < MaxInflight
           /\ \A d \in Call : Leave(g, c).state[d] = IF d = c THEN "ended" ELSE g.state[d]
<1> DEFINE h == Leave(g, c)
           m == ModelOf[c]
<1>1. g \in Gate /\ c \in Call /\ m \in Model /\ Counts(g)
    BY CallsAre DEF GateOk
<1>2. g.inFlight[m] > 0
    <2>1. c \in Holders(g, m)
        BY DEF Holders
    <2>2. Cardinality(Holders(g, m)) # 0
        BY <2>1, SetsFinite, FS_EmptySet
    <2> QED
        BY <1>1, <2>2, SetsFinite DEF Counts
<1>3. /\ h \in Gate
      /\ h.inFlight = [g.inFlight EXCEPT ![m] = @ - 1]
      /\ h.trackedInFlight = g.trackedInFlight
      /\ h.waitQueues = g.waitQueues
      /\ h.exclusiveWaitQueue = g.exclusiveWaitQueue
      /\ h.exclusiveHost = g.exclusiveHost
      /\ h.state = [g.state EXCEPT ![c] = "ended"]
    BY <1>1, <1>2, LeaveFields
<1>4. \A d \in Call : h.state[d] = IF d = c THEN "ended" ELSE g.state[d]
    BY <1>1, <1>3, Fields
<1> HIDE DEF h
<1>5. Counts(h) /\ h.inFlight[m] < MaxInflight
    BY <1>1, <1>3, CountsLeave
<1>6. Queues(h)
    BY <1>1, <1>3, <1>4, CallsAre, QueuesSame DEF GateOk
<1>7. Alone(h)
    BY <1>3, <1>4, CallsAre DEF GateOk, Alone
<1>8. NotPassed(g, h)
    BY <1>3, <1>4, CallsAre DEF NotPassed
<1> QED
    BY <1>3, <1>4, <1>5, <1>6, <1>7, <1>8 DEF GateOk, h

\* The owner of a host without an exclusive call may change.
LEMMA OwnerChanges ==
    ASSUME NEW g, GateOk(g), NEW o \in Model \cup {None},
           \A x \in Exclusive : g.state[x] # "admitted"
    PROVE  GateOk([g EXCEPT !.exclusiveHost = o]) /\ NotPassed(g, [g EXCEPT !.exclusiveHost = o])
<1> DEFINE h == [g EXCEPT !.exclusiveHost = o]
<1>1. g \in Gate
    BY DEF GateOk
<1>2. /\ h \in Gate /\ h.inFlight = g.inFlight /\ h.trackedInFlight = g.trackedInFlight
      /\ h.waitQueues = g.waitQueues /\ h.exclusiveWaitQueue = g.exclusiveWaitQueue
      /\ h.state = g.state
    BY <1>1, Fields DEF Gate, State
<1> HIDE DEF h
<1>3. Counts(h)
    BY <1>2, CountsSame DEF GateOk
<1>4. Queues(h)
    BY <1>1, <1>2, QueuesSame DEF GateOk
<1>5. Alone(h)
    BY <1>2 DEF Alone
<1> QED
    BY <1>2, <1>3, <1>4, <1>5 DEF GateOk, NotPassed, h

LEMMA ReleaseKeeps ==
    ASSUME GateOk(gate), NEW c \in Ordinary, Release(c)
    PROVE  GateOk(gate') /\ NotPassed(gate, gate')
<1> DEFINE m == ModelOf[c]
           l == Leave(gate, c)
           n == AdmitNextLocalWaiter(l, m)
           h == DrainHost(n)
<1>1. c \in Slotted /\ m \in Model /\ gate.state[c] = "admitted" /\ gate' = h
    BY CallsAre DEF Release
<1>2. GateOk(l) /\ NotPassed(gate, l) /\ l.inFlight[m] < MaxInflight
    BY <1>1, Departs
<1> HIDE DEF l
<1>3. GateOk(n) /\ NotPassed(l, n)
    BY <1>1, <1>2, NextAdmitted
<1> HIDE DEF n
<1>4. GateOk(h) /\ NotPassed(n, h)
    BY <1>3, DrainKeeps
<1> HIDE DEF h
<1>5. NotPassed(gate, n)
    BY <1>2, <1>3, NotPassedTransitive
<1>6. NotPassed(gate, h)
    BY <1>4, <1>5, NotPassedTransitive
<1> QED
    BY <1>1, <1>4, <1>6

LEMMA ReleaseExclusiveKeeps ==
    ASSUME GateOk(gate), NEW x \in Exclusive, ReleaseExclusive(x)
    PROVE  GateOk(gate') /\ NotPassed(gate, gate')
<1> DEFINE l == Leave(gate, x)
           o == IF l.exclusiveHost = ModelOf[x] THEN None ELSE l.exclusiveHost
           n == [l EXCEPT !.exclusiveHost = o]
           h == DrainHost(n)
<1>1. x \in Slotted /\ gate.state[x] = "admitted" /\ gate' = h
    BY CallsAre DEF ReleaseExclusive
<1>2. GateOk(l) /\ NotPassed(gate, l)
      /\ \A d \in Call : l.state[d] = IF d = x THEN "ended" ELSE gate.state[d]
    BY <1>1, Departs
<1> HIDE DEF l
<1>3. \A y \in Exclusive : l.state[y] # "admitted"
    BY <1>1, <1>2, CallsAre DEF GateOk, Alone
<1>4. o \in Model \cup {None}
    BY <1>2, Fields DEF GateOk
<1> HIDE DEF o
<1>5. GateOk(n) /\ NotPassed(l, n)
    BY <1>2, <1>3, <1>4, OwnerChanges
<1> HIDE DEF n
<1>6. GateOk(h) /\ NotPassed(n, h)
    BY <1>5, DrainKeeps
<1> HIDE DEF h
<1>7. NotPassed(gate, n)
    BY <1>2, <1>5, NotPassedTransitive
<1>8. NotPassed(gate, h)
    BY <1>6, <1>7, NotPassedTransitive
<1> QED
    BY <1>1, <1>6, <1>8

-----------------------------------------------------------------------------
(* The direct lane.                                                          *)

\* A tracked call that comes or goes, and its counter.
Counted(g, c, n, s) ==
    [[g EXCEPT !.trackedInFlight = [g.trackedInFlight EXCEPT ![ModelOf[c]] = n]]
        EXCEPT !.state = [g.state EXCEPT ![c] = s]]

LEMMA TrackedMoves ==
    ASSUME NEW g, GateOk(g), NEW c \in Tracked, NEW s \in State, NEW n \in Nat, NEW h,
           h = Counted(g, c, n, s),
           Cardinality({d \in Tracked : /\ ModelOf[d] = ModelOf[c]
                                        /\ (IF d = c THEN s ELSE g.state[d]) = "admitted"}) = n
    PROVE  GateOk(h) /\ NotPassed(g, h)
<1> DEFINE m == ModelOf[c]
           f == [g.trackedInFlight EXCEPT ![m] = n]
           w == [g.state EXCEPT ![c] = s]
<1>1. g \in Gate /\ c \in Call /\ m \in Model /\ c \notin Slotted
    BY CallsAre DEF GateOk
<1>2. f \in [Model -> Nat] /\ w \in [Call -> State]
    BY <1>1, Fields
<1>3. f[m] = n /\ \A k \in Model : k # m => f[k] = g.trackedInFlight[k]
    BY <1>1, Fields
<1>4. \A d \in Call : w[d] = IF d = c THEN s ELSE g.state[d]
    BY <1>1, Fields
<1>5. h = [[g EXCEPT !.trackedInFlight = f] EXCEPT !.state = w]
    BY DEF Counted
<1> HIDE DEF f, w
<1>6. /\ h \in Gate /\ h.inFlight = g.inFlight /\ h.trackedInFlight = f
      /\ h.waitQueues = g.waitQueues /\ h.exclusiveWaitQueue = g.exclusiveWaitQueue
      /\ h.exclusiveHost = g.exclusiveHost /\ h.state = w
    BY <1>1, <1>2, <1>5, Fields DEF Gate, State
<1>7. \A d \in Slotted : h.state[d] = g.state[d]
    BY <1>1, <1>4, <1>6, CallsAre
<1>8. ASSUME NEW k \in Model
      PROVE  /\ h.inFlight[k] = Cardinality(Holders(h, k)) /\ h.inFlight[k] <= MaxInflight
             /\ h.trackedInFlight[k] = Cardinality(TrackedOn(h, k))
    <2>1. Holders(h, k) = Holders(g, k)
        BY <1>7 DEF Holders
    <2>2. h.inFlight[k] = Cardinality(Holders(h, k)) /\ h.inFlight[k] <= MaxInflight
        BY <1>6, <2>1 DEF GateOk, Counts
    <2>3. CASE k = m
        <3>1. TrackedOn(h, k) = {d \in Tracked : /\ ModelOf[d] = m
                                                /\ (IF d = c THEN s ELSE g.state[d]) = "admitted"}
            BY <1>4, <1>6, <2>3, CallsAre DEF TrackedOn
        <3> QED
            BY <1>3, <1>6, <2>2, <2>3, <3>1
    <2>4. CASE k # m
        <3>1. TrackedOn(h, k) = TrackedOn(g, k)
            BY <1>4, <1>6, <2>4, CallsAre DEF TrackedOn
        <3> QED
            BY <1>3, <1>6, <2>2, <2>4, <3>1 DEF GateOk, Counts
    <2> QED
        BY <2>3, <2>4
<1>9. Counts(h)
    BY <1>8 DEF Counts
<1>10. Queues(h)
    BY <1>1, <1>6, <1>7, QueuesSame DEF GateOk
<1>11. Alone(h)
    BY <1>6, <1>7, CallsAre DEF GateOk, Alone
<1>12. NotPassed(g, h)
    BY <1>6, <1>7, CallsAre DEF NotPassed
<1> QED
    BY <1>6, <1>9, <1>10, <1>11, <1>12 DEF GateOk

LEMMA TrackKeeps ==
    ASSUME GateOk(gate), NEW c \in Tracked, Track(c)
    PROVE  GateOk(gate') /\ NotPassed(gate, gate')
<1> DEFINE m == ModelOf[c]
           n == gate.trackedInFlight[m] + 1
<1>1. gate \in Gate /\ m \in Model /\ gate.state[c] = "new"
    BY CallsAre DEF GateOk, Track
<1>2. gate' = Counted(gate, c, n, "admitted")
    BY DEF Track, Counted
<1>3. {d \in Tracked : ModelOf[d] = m /\ (IF d = c THEN "admitted" ELSE gate.state[d]) = "admitted"}
         = TrackedOn(gate, m) \cup {c} /\ c \notin TrackedOn(gate, m)
    BY <1>1 DEF TrackedOn
<1>4. Cardinality(TrackedOn(gate, m) \cup {c}) = Cardinality(TrackedOn(gate, m)) + 1
    BY <1>3, SetsFinite, FS_AddElement
<1>5. gate.trackedInFlight[m] = Cardinality(TrackedOn(gate, m))
    BY <1>1 DEF GateOk, Counts
<1>6. n \in Nat /\ "admitted" \in State
    BY <1>5, SetsFinite DEF State
<1>7. Cardinality({d \in Tracked : /\ ModelOf[d] = m
                         /\ (IF d = c THEN "admitted" ELSE gate.state[d]) = "admitted"}) = n
    BY <1>3, <1>4, <1>5
<1> HIDE DEF n
<1> QED
    BY <1>2, <1>6, <1>7, TrackedMoves

\* A tracked call leaves, and then the host may be handed over.
LEMMA TrackedLeaves ==
    ASSUME GateOk(gate), NEW c \in Tracked, ReleaseTracked(c)
    PROVE  \E n \in Nat : /\ gate' = DrainHost(Counted(gate, c, n, "ended"))
                          /\ GateOk(Counted(gate, c, n, "ended"))
                          /\ NotPassed(gate, Counted(gate, c, n, "ended"))
<1> DEFINE m == ModelOf[c]
           n == gate.trackedInFlight[m] - 1
<1>1. gate \in Gate /\ m \in Model /\ gate.state[c] = "admitted"
    BY CallsAre DEF GateOk, ReleaseTracked
<1>2. gate' = DrainHost(Counted(gate, c, n, "ended"))
    BY DEF ReleaseTracked, Counted
<1>3. {d \in Tracked : ModelOf[d] = m /\ (IF d = c THEN "ended" ELSE gate.state[d]) = "admitted"}
         = TrackedOn(gate, m) \ {c} /\ c \in TrackedOn(gate, m)
    BY <1>1 DEF TrackedOn
<1>4. Cardinality(TrackedOn(gate, m) \ {c}) = Cardinality(TrackedOn(gate, m)) - 1
    BY <1>3, SetsFinite, FS_RemoveElement
<1>5. gate.trackedInFlight[m] = Cardinality(TrackedOn(gate, m))
    BY <1>1 DEF GateOk, Counts
<1>6. IsFiniteSet(TrackedOn(gate, m) \ {c})
    BY SetsFinite, FS_Difference
<1>7. n \in Nat /\ "ended" \in State
    BY <1>4, <1>5, <1>6, FS_CardinalityType DEF State
<1>8. Cardinality({d \in Tracked : /\ ModelOf[d] = m
                         /\ (IF d = c THEN "ended" ELSE gate.state[d]) = "admitted"}) = n
    BY <1>3, <1>4, <1>5
<1> HIDE DEF n
<1>9. GateOk(Counted(gate, c, n, "ended")) /\ NotPassed(gate, Counted(gate, c, n, "ended"))
    BY <1>7, <1>8, TrackedMoves
<1> QED
    BY <1>2, <1>7, <1>9

LEMMA ReleaseTrackedKeeps ==
    ASSUME GateOk(gate), NEW c \in Tracked, ReleaseTracked(c)
    PROVE  GateOk(gate') /\ NotPassed(gate, gate')
<1>1. PICK n \in Nat : /\ gate' = DrainHost(Counted(gate, c, n, "ended"))
                       /\ GateOk(Counted(gate, c, n, "ended"))
                       /\ NotPassed(gate, Counted(gate, c, n, "ended"))
    BY TrackedLeaves
<1> DEFINE l == Counted(gate, c, n, "ended")
<1>2. GateOk(l) /\ NotPassed(gate, l) /\ gate' = DrainHost(l)
    BY <1>1
<1> HIDE DEF l
<1>3. GateOk(gate') /\ NotPassed(l, gate')
    BY <1>2, DrainKeeps
<1> QED
    BY <1>2, <1>3, NotPassedTransitive

-----------------------------------------------------------------------------
(* Waiting and giving up.                                                    *)

\* An ordinary call enters or leaves the queue of its model.
Queued(g, c, r, s) ==
    [[g EXCEPT !.waitQueues[ModelOf[c]] = r] EXCEPT !.state = [g.state EXCEPT ![c] = s]]
\* The queue of an ordinary call, and what else there is, when it moves.
LEMMA WaiterMoveFields ==
    ASSUME NEW g, GateOk(g), NEW c \in Ordinary,
           NEW s \in {"waiting", "ended"}, NEW r \in Seq(Ordinary), NEW h,
           h = Queued(g, c, r, s)
    PROVE  /\ h \in Gate
           /\ h.inFlight = g.inFlight /\ h.trackedInFlight = g.trackedInFlight
           /\ h.waitQueues[ModelOf[c]] = r
           /\ \A k \in Model : k # ModelOf[c] => h.waitQueues[k] = g.waitQueues[k]
           /\ h.exclusiveWaitQueue = g.exclusiveWaitQueue
           /\ h.exclusiveHost = g.exclusiveHost
           /\ \A d \in Call : h.state[d] = IF d = c THEN s ELSE g.state[d]
<1> DEFINE m == ModelOf[c]
           a == [g EXCEPT !.waitQueues[m] = r]
           w == [g.state EXCEPT ![c] = s]
<1>1. g \in Gate /\ c \in Call /\ m \in Model
    BY CallsAre DEF GateOk
<1>2. /\ a \in Gate /\ a.inFlight = g.inFlight /\ a.trackedInFlight = g.trackedInFlight
      /\ a.waitQueues = [g.waitQueues EXCEPT ![m] = r]
      /\ a.exclusiveWaitQueue = g.exclusiveWaitQueue /\ a.exclusiveHost = g.exclusiveHost
    BY <1>1, QueueFields
<1>3. w \in [Call -> State] /\ \A d \in Call : w[d] = IF d = c THEN s ELSE g.state[d]
    BY <1>1, Fields DEF State
<1>4. a.waitQueues[m] = r /\ \A k \in Model : k # m => a.waitQueues[k] = g.waitQueues[k]
    BY <1>1, <1>2, Fields
<1>5. h = [a EXCEPT !.state = w]
    BY DEF Queued
<1> HIDE DEF a, w
<1>6. /\ h \in Gate /\ h.inFlight = a.inFlight /\ h.trackedInFlight = a.trackedInFlight
      /\ h.waitQueues = a.waitQueues /\ h.exclusiveWaitQueue = a.exclusiveWaitQueue
      /\ h.exclusiveHost = a.exclusiveHost /\ h.state = w
    BY <1>2, <1>3, <1>5, Fields DEF Gate, State
<1> QED
    BY <1>2, <1>3, <1>4, <1>6


LEMMA WaiterMoves ==
    ASSUME NEW g, GateOk(g), NEW c \in Ordinary, g.state[c] # "admitted",
           NEW s \in {"waiting", "ended"}, NEW r \in Seq(Ordinary), NEW h, Distinct(r),
           h = Queued(g, c, r, s),
           \A i \in 1..Len(r) :
               /\ ModelOf[r[i]] = ModelOf[c]
               /\ (IF r[i] = c THEN s ELSE g.state[r[i]]) = "waiting"
    PROVE  GateOk(h) /\ NotPassed(g, h)
<1> DEFINE m == ModelOf[c]
<1>1. g \in Gate /\ c \in Call /\ m \in Model /\ c \notin Exclusive
    BY CallsAre DEF GateOk
<1>2. /\ h \in Gate /\ h.inFlight = g.inFlight /\ h.trackedInFlight = g.trackedInFlight
      /\ h.waitQueues[m] = r
      /\ \A k \in Model : k # m => h.waitQueues[k] = g.waitQueues[k]
      /\ h.exclusiveWaitQueue = g.exclusiveWaitQueue
      /\ h.exclusiveHost = g.exclusiveHost
      /\ \A d \in Call : h.state[d] = IF d = c THEN s ELSE g.state[d]
    BY WaiterMoveFields
<1>3. \A d \in Call : h.state[d] = "admitted" <=> g.state[d] = "admitted"
    BY <1>2
<1>4. Counts(h)
    BY <1>2, <1>3, CountsSame DEF GateOk
<1>5. Alone(h)
    BY <1>2, <1>3, CallsAre DEF GateOk, Alone
<1>6. OrdinaryQueue(h, m)
    <2>1. \A i \in 1..Len(r) : r[i] \in Call
        BY ElementOfSeq, CallsAre
    <2> QED
        BY <1>2, <2>1 DEF OrdinaryQueue
<1>7. ASSUME NEW k \in Model, k # m PROVE OrdinaryQueue(h, k)
    <2>1. OrdinaryQueue(g, k) /\ h.waitQueues[k] = g.waitQueues[k]
        BY <1>2, <1>7 DEF GateOk, Queues
    <2>2. \A i \in 1..Len(g.waitQueues[k]) :
             g.waitQueues[k][i] \in Call /\ g.waitQueues[k][i] # c
        BY <1>1, <1>7, <2>1, QueueElements, CallsAre DEF OrdinaryQueue
    <2> QED
        BY <1>2, <2>1, <2>2 DEF OrdinaryQueue
<1>8. ExclusiveQueue(h)
    BY <1>1, <1>2, QueueElements, CallsAre DEF GateOk, Queues, ExclusiveQueue
<1>9. NotPassed(g, h)
    BY <1>2, <1>3, CallsAre DEF NotPassed
<1> QED
    BY <1>2, <1>4, <1>5, <1>6, <1>7, <1>8, <1>9 DEF GateOk, Queues

\* An exclusive call enters or leaves the queue of the host.
QueuedExclusive(g, x, r, s) ==
    [[g EXCEPT !.exclusiveWaitQueue = r] EXCEPT !.state = [g.state EXCEPT ![x] = s]]
\* The same for an exclusive call.
LEMMA ExclusiveMoveFields ==
    ASSUME NEW g, GateOk(g), NEW x \in Exclusive,
           NEW s \in {"waiting", "ended"}, NEW r \in Seq(Exclusive), NEW h,
           h = QueuedExclusive(g, x, r, s)
    PROVE  /\ h \in Gate
           /\ h.inFlight = g.inFlight /\ h.trackedInFlight = g.trackedInFlight
           /\ h.waitQueues = g.waitQueues
           /\ h.exclusiveWaitQueue = r
           /\ h.exclusiveHost = g.exclusiveHost
           /\ \A d \in Call : h.state[d] = IF d = x THEN s ELSE g.state[d]
<1> DEFINE w == [g.state EXCEPT ![x] = s]
<1>1. g \in Gate /\ x \in Call
    BY CallsAre DEF GateOk
<1>2. w \in [Call -> State] /\ \A d \in Call : w[d] = IF d = x THEN s ELSE g.state[d]
    BY <1>1, Fields DEF State
<1>3. h = [[g EXCEPT !.exclusiveWaitQueue = r] EXCEPT !.state = w]
    BY DEF QueuedExclusive
<1> HIDE DEF w
<1>4. /\ h \in Gate /\ h.inFlight = g.inFlight /\ h.trackedInFlight = g.trackedInFlight
      /\ h.waitQueues = g.waitQueues /\ h.exclusiveWaitQueue = r
      /\ h.exclusiveHost = g.exclusiveHost /\ h.state = w
    BY <1>1, <1>2, <1>3, Fields DEF Gate, State
<1> QED
    BY <1>2, <1>4


LEMMA ExclusiveWaiterMoves ==
    ASSUME NEW g, GateOk(g), NEW x \in Exclusive, g.state[x] # "admitted",
           NEW s \in {"waiting", "ended"}, NEW r \in Seq(Exclusive), NEW h, Distinct(r),
           h = QueuedExclusive(g, x, r, s),
           \A i \in 1..Len(r) : (IF r[i] = x THEN s ELSE g.state[r[i]]) = "waiting"
    PROVE  /\ GateOk(h) /\ h.exclusiveWaitQueue = r
           /\ \A c \in Ordinary : h.state[c] = g.state[c]
<1>1. g \in Gate /\ x \in Call /\ x \notin Ordinary
    BY CallsAre DEF GateOk
<1>2. /\ h \in Gate /\ h.inFlight = g.inFlight /\ h.trackedInFlight = g.trackedInFlight
      /\ h.waitQueues = g.waitQueues /\ h.exclusiveWaitQueue = r
      /\ h.exclusiveHost = g.exclusiveHost
      /\ \A d \in Call : h.state[d] = IF d = x THEN s ELSE g.state[d]
    BY ExclusiveMoveFields
<1>3. \A d \in Call : h.state[d] = "admitted" <=> g.state[d] = "admitted"
    BY <1>2
<1>4. Counts(h)
    BY <1>2, <1>3, CountsSame DEF GateOk
<1>5. Alone(h)
    BY <1>2, <1>3, CallsAre DEF GateOk, Alone
<1>6. ExclusiveQueue(h)
    <2>1. \A i \in 1..Len(r) : r[i] \in Call
        BY ElementOfSeq, CallsAre
    <2> QED
        BY <1>2, <2>1 DEF ExclusiveQueue
<1>7. ASSUME NEW k \in Model PROVE OrdinaryQueue(h, k)
    <2>1. OrdinaryQueue(g, k) /\ h.waitQueues[k] = g.waitQueues[k]
        BY <1>2 DEF GateOk, Queues
    <2>2. \A i \in 1..Len(g.waitQueues[k]) :
             g.waitQueues[k][i] \in Call /\ g.waitQueues[k][i] # x
        BY <1>1, QueueElements, CallsAre
    <2> QED
        BY <1>2, <2>1, <2>2 DEF OrdinaryQueue
<1>8. \A c \in Ordinary : h.state[c] = g.state[c]
    BY <1>1, <1>2, CallsAre
<1> QED
    BY <1>2, <1>4, <1>5, <1>6, <1>7, <1>8 DEF GateOk, Queues

LEMMA AcquireKeeps ==
    ASSUME GateOk(gate), NEW c \in Ordinary, Acquire(c)
    PROVE  GateOk(gate') /\ NotPassed(gate, gate')
<1> DEFINE m == ModelOf[c]
           q == gate.waitQueues[m]
           r == Append(q, c)
<1>1. gate \in Gate /\ m \in Model /\ gate.state[c] = "new"
    BY CallsAre DEF GateOk, Acquire
<1>2. CASE OpenToOrdinary(gate) /\ gate.inFlight[m] < MaxInflight
    <2>1. gate' = Admit(gate, m, c)
        BY <1>2 DEF Acquire
    <2> QED
        BY <1>1, <1>2, <2>1, ArrivalAdmitted
<1>3. CASE ~(OpenToOrdinary(gate) /\ gate.inFlight[m] < MaxInflight)
    <2>1. gate' = Queued(gate, c, r, "waiting")
        BY <1>3 DEF Acquire, Queued
    <2>2. /\ q \in Seq(Ordinary) /\ Distinct(q)
          /\ \A i \in 1..Len(q) : q[i] # c /\ ModelOf[q[i]] = m /\ gate.state[q[i]] = "waiting"
        BY <1>1, QueueElements DEF GateOk, Queues, OrdinaryQueue
    <2> HIDE DEF q
    <2>3. /\ r \in Seq(Ordinary) /\ Distinct(r)
          /\ \A i \in 1..Len(r) : r[i] = c \/ (i \in 1..Len(q) /\ r[i] = q[i])
        BY <2>2, Longer
    <2> HIDE DEF r
    <2>4. \A i \in 1..Len(r) :
             /\ ModelOf[r[i]] = ModelOf[c]
             /\ (IF r[i] = c THEN "waiting" ELSE gate.state[r[i]]) = "waiting"
        BY <2>2, <2>3
    <2> QED
        BY <1>1, <2>1, <2>3, <2>4, WaiterMoves
<1> QED
    BY <1>2, <1>3

LEMMA CancelKeeps ==
    ASSUME GateOk(gate), NEW c \in Ordinary, Cancel(c)
    PROVE  GateOk(gate') /\ NotPassed(gate, gate')
<1> DEFINE m == ModelOf[c]
           q == gate.waitQueues[m]
           r == Without(q, c)
<1>1. gate \in Gate /\ m \in Model /\ gate.state[c] = "waiting"
    BY CallsAre DEF GateOk, Cancel
<1>2. gate' = Queued(gate, c, r, "ended")
    BY DEF Cancel, Queued
<1>3. /\ q \in Seq(Ordinary) /\ Distinct(q)
      /\ \A i \in 1..Len(q) : ModelOf[q[i]] = m /\ gate.state[q[i]] = "waiting"
    BY <1>1, QueueElements DEF GateOk, Queues, OrdinaryQueue
<1> HIDE DEF q
<1>4. /\ r \in Seq(Ordinary) /\ Distinct(r)
      /\ \A i \in 1..Len(r) : \E j \in 1..Len(q) : r[i] = q[j] /\ q[j] # c
    BY <1>3, WithoutKnows
<1> HIDE DEF r
<1>5. \A i \in 1..Len(r) :
         /\ ModelOf[r[i]] = ModelOf[c]
         /\ (IF r[i] = c THEN "ended" ELSE gate.state[r[i]]) = "waiting"
    BY <1>3, <1>4
<1> QED
    BY <1>1, <1>2, <1>4, <1>5, WaiterMoves

\* No ordinary call is admitted past a waiting exclusive one.
Behind(g, h) ==
    \A c \in Ordinary : g.state[c] # "admitted" /\ h.state[c] = "admitted"
                             => h.exclusiveWaitQueue = <<>>

LEMMA AcquireExclusiveKeeps ==
    ASSUME GateOk(gate), NEW x \in Exclusive, AcquireExclusive(x)
    PROVE  GateOk(gate') /\ Behind(gate, gate')
<1> DEFINE q == gate.exclusiveWaitQueue
           r == Append(q, x)
<1>1. gate \in Gate /\ gate.state[x] = "new"
    BY DEF GateOk, AcquireExclusive
<1>2. CASE MayOwn(gate)
    <2>1. gate' = Own(gate, x)
        BY <1>2 DEF AcquireExclusive
    <2> QED
        BY <1>1, <1>2, <2>1, ArrivalOwns DEF NotPassed, Behind
<1>3. CASE ~MayOwn(gate)
    <2>1. gate' = QueuedExclusive(gate, x, r, "waiting")
        BY <1>3 DEF AcquireExclusive, QueuedExclusive
    <2>2. /\ q \in Seq(Exclusive) /\ Distinct(q)
          /\ \A i \in 1..Len(q) : q[i] # x /\ gate.state[q[i]] = "waiting"
        BY <1>1, QueueElements DEF GateOk, Queues, ExclusiveQueue
    <2> HIDE DEF q
    <2>3. /\ r \in Seq(Exclusive) /\ Distinct(r)
          /\ \A i \in 1..Len(r) : r[i] = x \/ (i \in 1..Len(q) /\ r[i] = q[i])
        BY <2>2, Longer
    <2> HIDE DEF r
    <2>4. \A i \in 1..Len(r) : (IF r[i] = x THEN "waiting" ELSE gate.state[r[i]]) = "waiting"
        BY <2>2, <2>3
    <2> QED
        BY <1>1, <2>1, <2>3, <2>4, ExclusiveWaiterMoves DEF Behind
<1> QED
    BY <1>2, <1>3

LEMMA CancelExclusiveKeeps ==
    ASSUME GateOk(gate), NEW x \in Exclusive, CancelExclusive(x)
    PROVE  GateOk(gate') /\ Behind(gate, gate')
<1> DEFINE q == gate.exclusiveWaitQueue
           r == Without(q, x)
           l == QueuedExclusive(gate, x, r, "ended")
<1>1. gate \in Gate /\ gate.state[x] = "waiting"
    BY DEF GateOk, CancelExclusive
<1>2. gate' = DrainHost(l)
    BY DEF CancelExclusive, QueuedExclusive
<1>3. /\ q \in Seq(Exclusive) /\ Distinct(q)
      /\ \A i \in 1..Len(q) : gate.state[q[i]] = "waiting"
    BY <1>1, QueueElements DEF GateOk, Queues, ExclusiveQueue
<1> HIDE DEF q
<1>4. /\ r \in Seq(Exclusive) /\ Distinct(r)
      /\ \A i \in 1..Len(r) : \E j \in 1..Len(q) : r[i] = q[j] /\ q[j] # x
    BY <1>3, WithoutKnows
<1> HIDE DEF r
<1>5. \A i \in 1..Len(r) : (IF r[i] = x THEN "ended" ELSE gate.state[r[i]]) = "waiting"
    BY <1>3, <1>4
<1>6. GateOk(l) /\ \A c \in Ordinary : l.state[c] = gate.state[c]
    BY <1>1, <1>4, <1>5, ExclusiveWaiterMoves
<1> HIDE DEF l
<1>7. GateOk(gate') /\ NotPassed(l, gate')
    BY <1>2, <1>6, DrainKeeps
<1> QED
    BY <1>6, <1>7 DEF NotPassed, Behind

-----------------------------------------------------------------------------
(* The theorems.                                                             *)

LEMMA InitOk == Init => GateOk(gate)
<1> SUFFICES ASSUME Init PROVE GateOk(gate)
    OBVIOUS
<1>1. gate \in Gate
    BY EmptySeq DEF Init, Gate
<1>2. \A m \in Model : gate.inFlight[m] = 0 /\ gate.trackedInFlight[m] = 0 /\ gate.waitQueues[m] = <<>>
    BY DEF Init
<1>3. gate.exclusiveWaitQueue = <<>> /\ \A c \in Call : gate.state[c] = "new"
    BY DEF Init
<1>4. \A m \in Model : Holders(gate, m) = {} /\ TrackedOn(gate, m) = {}
    BY <1>3, CallsAre DEF Holders, TrackedOn
<1>5. Counts(gate)
    <2>1. Cardinality({}) = 0 /\ 0 <= MaxInflight
        BY FS_EmptySet, CallsAre
    <2> HIDE DEF Init
    <2> QED
        BY <1>2, <1>4, <2>1 DEF Counts
<1>6. Queues(gate)
    BY <1>2, <1>3 DEF Queues, OrdinaryQueue, ExclusiveQueue, Distinct
<1>7. Alone(gate)
    BY <1>3, CallsAre DEF Alone
<1> QED
    BY <1>1, <1>5, <1>6, <1>7 DEF GateOk

LEMMA StepOk ==
    ASSUME GateOk(gate), [Next]_gate
    PROVE  GateOk(gate') /\ Behind(gate, gate')
<1>1. \A h : NotPassed(gate, h) => Behind(gate, h)
    BY DEF NotPassed, Behind
<1>2. ASSUME NEW c \in Ordinary, Acquire(c) \/ Release(c) \/ Cancel(c)
      PROVE  GateOk(gate') /\ Behind(gate, gate')
    BY <1>1, <1>2, AcquireKeeps, ReleaseKeeps, CancelKeeps
<1>3. ASSUME NEW x \in Exclusive, AcquireExclusive(x) \/ ReleaseExclusive(x) \/ CancelExclusive(x)
      PROVE  GateOk(gate') /\ Behind(gate, gate')
    BY <1>1, <1>3, AcquireExclusiveKeeps, ReleaseExclusiveKeeps, CancelExclusiveKeeps
<1>4. ASSUME NEW c \in Tracked, Track(c) \/ ReleaseTracked(c)
      PROVE  GateOk(gate') /\ Behind(gate, gate')
    BY <1>1, <1>4, TrackKeeps, ReleaseTrackedKeeps
<1>5. CASE UNCHANGED gate
    BY <1>5 DEF Behind
<1> QED
    BY <1>2, <1>3, <1>4, <1>5 DEF Next

\* The counters, the queues and the owner, together, in every state.
THEOREM GateInvariant == Spec => []GateOk(gate)
<1>1. GateOk(gate) /\ [Next]_gate => GateOk(gate)'
    BY StepOk
<1> QED
    BY <1>1, InitOk, PTL DEF Spec

\* Every counter is a natural number, and every queue holds calls of its kind.
THEOREM GateTyped == Spec => []TypeOK
<1>1. GateOk(gate) => TypeOK
    BY DEF GateOk, TypeOK
<1> QED
    BY <1>1, GateInvariant, PTL

\* The gate's counters count the calls that hold a slot, never above
\* GATE_MAX_INFLIGHT, in any order of handovers, aborts and releases.
THEOREM SlotsCounted == Spec => []SlotsCountCalls
<1>1. GateOk(gate) => SlotsCountCalls
    BY DEF GateOk, Counts, Holders, TrackedOn, Slotted, SlotsCountCalls, In
<1> QED
    BY <1>1, GateInvariant, PTL

\* While an exclusive call owns the host, no other call that the gate admits
\* runs on it, of any model.
THEOREM ExclusiveRunsAlone == Spec => []ExclusiveAlone
<1>1. GateOk(gate) => ExclusiveAlone
    BY DEF GateOk, Alone, Slotted, ExclusiveAlone, In
<1> QED
    BY <1>1, GateInvariant, PTL

\* Neither an arrival nor a handover lets an ordinary call pass a waiting
\* exclusive one.
THEOREM ExclusiveKeepsItsTurn == Spec => ExclusiveNotPassed
<1> DEFINE Safe == \A c \in Ordinary :
          ~In(c, "admitted") /\ In(c, "admitted")' => gate'.exclusiveWaitQueue = <<>>
<1>1. ASSUME GateOk(gate), [Next]_gate
      PROVE  Safe
    BY <1>1, StepOk DEF Behind, In
<1>2. GateOk(gate) /\ [Next]_gate => [Safe]_gate
    BY <1>1
<1> QED
    BY <1>2, GateInvariant, PTL DEF Spec, ExclusiveNotPassed

-----------------------------------------------------------------------------
(* Nobody waits for nothing.                                                 *)

\* Every waiter stands in its queue, and an owned host has an exclusive call.
Listed(g) == \A c \in Call : g.state[c] = "waiting" => Stands(g, c)
Owned(g) == g.exclusiveHost # None => \E x \in Exclusive : g.state[x] = "admitted"
Attended(g) == Listed(g) /\ Owned(g)

\* On an idle host nobody waits.
Quiet(g) == HostIdle(g) => \A c \in Call : g.state[c] # "waiting"

LEMMA BusyWhenAdmitted ==
    ASSUME NEW g, GateOk(g), NEW c \in Slotted, g.state[c] = "admitted"
    PROVE  ~HostIdle(g) /\ Quiet(g)
BY IdleIsEmpty DEF Quiet

LEMMA IdleIsUnowned ==
    ASSUME NEW g, GateOk(g), Owned(g), HostIdle(g)
    PROVE  g.exclusiveHost = None
BY IdleIsEmpty, CallsAre DEF Owned

LEMMA QuietHasNoExclusiveWaiters ==
    ASSUME NEW g, GateOk(g), Quiet(g), HostIdle(g)
    PROVE  ~HasExclusiveWaiters(g)
<1>1. g.exclusiveWaitQueue \in Seq(Exclusive)
    BY QueueElements DEF GateOk
<1>2. ASSUME g.exclusiveWaitQueue # <<>> PROVE FALSE
    <2>1. Len(g.exclusiveWaitQueue) \in Nat \ {0}
        BY <1>1, <1>2, EmptySeq, LenProperties
    <2>2. 1 \in 1..Len(g.exclusiveWaitQueue)
        BY <2>1
    <2>3. /\ g.state[g.exclusiveWaitQueue[1]] = "waiting"
          /\ g.exclusiveWaitQueue[1] \in Call
        BY <1>1, <2>2, ElementOfSeq, CallsAre DEF GateOk, Queues, ExclusiveQueue
    <2> QED
        BY <2>3 DEF Quiet
<1> QED
    BY <1>2 DEF HasExclusiveWaiters

\* Calls move without waiters coming or leaving.
LEMMA AttendedSame ==
    ASSUME NEW g, NEW h, Attended(g),
           h.waitQueues = g.waitQueues, h.exclusiveWaitQueue = g.exclusiveWaitQueue,
           \A c \in Call : h.state[c] = "waiting" => g.state[c] = "waiting"
    PROVE  Listed(h)
BY DEF Attended, Listed, Stands

\* A waiter behind the first is found behind the first.
LEMMA TailStands ==
    ASSUME NEW S, NEW q \in Seq(S), NEW i \in 1..Len(q), q[i] # Head(q)
    PROVE  \E j \in 1..Len(Tail(q)) : Tail(q)[j] = q[i]
<1>1. Len(q) \in Nat /\ q # <<>>
    BY LenProperties, EmptySeq
<1>2. Head(q) = q[1] /\ Len(Tail(q)) = Len(q) - 1
      /\ \A j \in 1..Len(Tail(q)) : Tail(q)[j] = q[j + 1]
    BY <1>1, EmptySeq, HeadTailProperties
<1>3. i - 1 \in 1..Len(Tail(q)) /\ (i - 1) + 1 = i
    BY <1>1, <1>2
<1> QED
    BY <1>2, <1>3

LEMMA AppendStands ==
    ASSUME NEW S, NEW q \in Seq(S), NEW c \in S
    PROVE  /\ \E j \in 1..Len(Append(q, c)) : Append(q, c)[j] = c
           /\ \A i \in 1..Len(q) : \E j \in 1..Len(Append(q, c)) : Append(q, c)[j] = q[i]
<1>1. /\ Len(Append(q, c)) = Len(q) + 1 /\ Len(q) \in Nat
      /\ \A i \in 1..Len(q) : Append(q, c)[i] = q[i]
      /\ Append(q, c)[Len(q) + 1] = c
    BY AppendProperties, LenProperties
<1>2. Len(q) + 1 \in 1..Len(Append(q, c)) /\ 1..Len(q) \subseteq 1..Len(Append(q, c))
    BY <1>1
<1> QED
    BY <1>1, <1>2

LEMMA RestStands ==
    ASSUME NEW S, NEW q \in Seq(S), NEW k \in 0..Len(q), NEW i \in 1..Len(q),
           \A j \in 1..k : q[j] # q[i]
    PROVE  \E j \in 1..Len(Rest(q, k)) : Rest(q, k)[j] = q[i]
<1> DEFINE r == SubSeq(q, k + 1, Len(q))
<1>1. Len(q) \in Nat /\ \A n \in (k + 1)..Len(q) : q[n] \in S
    BY LenProperties, ElementOfSeq
<1>2. /\ Len(r) = IF k + 1 <= Len(q) THEN Len(q) - (k + 1) + 1 ELSE 0
      /\ \A n \in 1..Len(q) - (k + 1) + 1 : r[n] = q[k + 1 + n - 1]
    BY <1>1, SubSeqProperties
<1>3. i > k
    BY <1>1
<1>4. i - k \in 1..Len(r) /\ i - k \in 1..Len(q) - (k + 1) + 1 /\ k + 1 + (i - k) - 1 = i
    BY <1>1, <1>2, <1>3
<1> QED
    BY <1>2, <1>4 DEF Rest

\* Nobody but c is taken out.
LEMMA WithoutStands ==
    ASSUME NEW S, NEW q \in Seq(S), NEW c, Distinct(q),
           \E k \in 1..Len(q) : q[k] = c,
           NEW i \in 1..Len(q), q[i] # c
    PROVE  \E j \in 1..Len(Without(q, c)) : Without(q, c)[j] = q[i]
<1>1. PICK k \in 1..Len(q) : q[k] = c
    OBVIOUS
<1>2. Len(q) \in Nat /\ k # i
    BY <1>1, LenProperties
<1>3. Without(q, c) = [j \in 1..Len(q) - 1 |->
                          IF \E n \in 1..j : q[n] = c THEN q[j + 1] ELSE q[j]]
    BY DEF Without
<1>4. Len(Without(q, c)) = Len(q) - 1
    <2>1. Without(q, c) \in Seq(S)
        BY WithoutKnows
    <2>2. DOMAIN Without(q, c) = 1..Len(Without(q, c)) /\ Len(Without(q, c)) \in Nat
        BY <2>1, LenProperties
    <2>3. 1..Len(Without(q, c)) = 1..Len(q) - 1
        BY <1>3, <2>2
    <2> QED
        BY <1>2, <2>2, <2>3
<1>5. CASE i < k
    <2>1. i \in 1..Len(q) - 1 /\ ~ \E n \in 1..i : q[n] = c
        BY <1>1, <1>2, <1>5 DEF Distinct
    <2>2. Without(q, c)[i] = q[i]
        BY <1>3, <2>1
    <2> QED
        BY <1>4, <2>1, <2>2
<1>6. CASE i > k
    <2>1. i - 1 \in 1..Len(q) - 1 /\ k \in 1..i - 1 /\ (i - 1) + 1 = i
        BY <1>1, <1>2, <1>6
    <2>2. Without(q, c)[i - 1] = q[(i - 1) + 1]
        BY <1>1, <1>3, <2>1
    <2> QED
        BY <1>4, <2>1, <2>2
<1> QED
    BY <1>2, <1>5, <1>6

-----------------------------------------------------------------------------
(* No wake-up is lost.                                                       *)
LEMMA NextAttended ==
    ASSUME NEW g, GateOk(g), Attended(g), NEW m \in Model
    PROVE  Attended(AdmitNextLocalWaiter(g, m))
<1> DEFINE h == AdmitNextLocalWaiter(g, m)
<1>1. CASE ~(OpenToOrdinary(g) /\ g.waitQueues[m] # <<>>)
    BY <1>1 DEF AdmitNextLocalWaiter
<1>2. CASE OpenToOrdinary(g) /\ g.waitQueues[m] # <<>>
    <2>1. /\ h.exclusiveWaitQueue = g.exclusiveWaitQueue
          /\ h.exclusiveHost = g.exclusiveHost
          /\ h.waitQueues[m] = Tail(g.waitQueues[m])
          /\ \A k \in Model : k # m => h.waitQueues[k] = g.waitQueues[k]
          /\ \A d \in Call : h.state[d] =
                IF d = Head(g.waitQueues[m]) THEN "admitted" ELSE g.state[d]
        <3>1. /\ h.exclusiveWaitQueue = g.exclusiveWaitQueue
              /\ h.exclusiveHost = g.exclusiveHost
              /\ h.waitQueues[m] = Tail(g.waitQueues[m])
              /\ \A k \in Model : k # m => h.waitQueues[k] = g.waitQueues[k]
            BY <1>2, NextFields
        <3>2. \A d \in Call : h.state[d] =
                 IF d = Head(g.waitQueues[m]) THEN "admitted" ELSE g.state[d]
            BY <1>2, NextFields
        <3> QED
            BY <3>1, <3>2
    <2> HIDE DEF h
    <2>2. Owned(h)
        BY <1>2, <2>1 DEF Owned, OpenToOrdinary
    <2>3. ASSUME NEW d \in Call, h.state[d] = "waiting" PROVE Stands(h, d)
        <3>1. Stands(g, d) /\ d # Head(g.waitQueues[m])
            BY <2>1, <2>3 DEF Attended, Listed
        <3>2. CASE d \in Ordinary /\ ModelOf[d] = m
            <4>1. PICK i \in 1..Len(g.waitQueues[m]) : g.waitQueues[m][i] = d
                BY <3>1, <3>2, CallsAre DEF Stands
            <4>2. g.waitQueues[m] \in Seq(Ordinary)
                BY QueueElements DEF GateOk
            <4>3. \E j \in 1..Len(Tail(g.waitQueues[m])) : Tail(g.waitQueues[m])[j] = d
                BY <3>1, <4>1, <4>2, TailStands
            <4> QED
                BY <2>1, <3>2, <4>3 DEF Stands
        <3>3. CASE d \in Ordinary /\ ModelOf[d] # m
            BY <2>1, <3>1, <3>3, CallsAre DEF Stands
        <3>4. CASE d \notin Ordinary
            BY <2>1, <3>1, <3>4 DEF Stands
        <3> QED
            BY <3>2, <3>3, <3>4
    <2> QED
        BY <2>2, <2>3 DEF Attended, Listed, h
<1> QED
    BY <1>1, <1>2

LEMMA OwnAttends ==
    ASSUME NEW g, GateOk(g), Attended(g), HostIdle(g), g.exclusiveHost = None,
           NEW x \in Exclusive
    PROVE  Attended(Own(g, x))
<1>1. /\ Own(g, x).waitQueues = g.waitQueues
      /\ Own(g, x).exclusiveWaitQueue = g.exclusiveWaitQueue
      /\ \A d \in Call : Own(g, x).state[d] = IF d = x THEN "admitted" ELSE g.state[d]
    BY OwnFields
<1>2. Listed(Own(g, x))
    BY <1>1, AttendedSame
<1>3. Owned(Own(g, x))
    BY <1>1, CallsAre DEF Owned
<1> QED
    BY <1>2, <1>3 DEF Attended
LEMMA NextOwnsAttends ==
    ASSUME NEW g, GateOk(g), Attended(g), g.exclusiveHost = None, HostIdle(g),
           HasExclusiveWaiters(g)
    PROVE  Attended(DrainHost(g)) /\ Quiet(DrainHost(g))
<1> DEFINE h == DrainHost(g)
           x == Head(g.exclusiveWaitQueue)
<1>1. /\ x \in Exclusive
      /\ h.waitQueues = g.waitQueues
      /\ h.exclusiveWaitQueue = Tail(g.exclusiveWaitQueue)
      /\ \A d \in Call : h.state[d] = IF d = x THEN "admitted" ELSE g.state[d]
    BY NextOwnsFields
<1>2. GateOk(h)
    BY NextOwns
<1> HIDE DEF h, x
<1>3. h.state[x] = "admitted" /\ x \in Slotted
    BY <1>1, CallsAre
<1>4. Owned(h)
    BY <1>1, <1>3 DEF Owned
<1>5. ASSUME NEW d \in Call, h.state[d] = "waiting" PROVE Stands(h, d)
    <2>1. Stands(g, d) /\ d # x
        BY <1>1, <1>5 DEF Attended, Listed
    <2>2. CASE d \in Ordinary
        BY <1>1, <2>1, <2>2, CallsAre DEF Stands
    <2>3. CASE d \notin Ordinary
        <3>1. d \in Exclusive
            BY <2>1, <2>3 DEF Stands
        <3>2. PICK i \in 1..Len(g.exclusiveWaitQueue) : g.exclusiveWaitQueue[i] = d
            BY <2>1, <2>3 DEF Stands
        <3>3. g.exclusiveWaitQueue \in Seq(Exclusive)
            BY QueueElements DEF GateOk
        <3>4. \E j \in 1..Len(h.exclusiveWaitQueue) : h.exclusiveWaitQueue[j] = d
            BY <1>1, <2>1, <3>2, <3>3, TailStands DEF x
        <3> QED
            BY <3>1, <3>4 DEF Stands
    <2> QED
        BY <2>2, <2>3
<1> QED
    BY <1>2, <1>3, <1>4, <1>5, BusyWhenAdmitted DEF Attended, Listed, h

LEMMA FrontAttends ==
    ASSUME NEW g, GateOk(g), Attended(g), g.exclusiveHost = None, ~HasExclusiveWaiters(g)
    PROVE  Attended(AdmitWaiters(g)) /\ Quiet(AdmitWaiters(g))
<1> DEFINE h == AdmitWaiters(g)
<1>1. /\ \A m \in Model :
            /\ h.inFlight[m] = g.inFlight[m] + Room(g, m)
            /\ h.waitQueues[m] = Rest(g.waitQueues[m], Room(g, m))
      /\ h.exclusiveWaitQueue = g.exclusiveWaitQueue
      /\ h.exclusiveHost = g.exclusiveHost
      /\ \A c \in Call : h.state[c] =
            IF \E m \in Model : c \in Front(g, m) THEN "admitted" ELSE g.state[c]
    BY FrontFields
<1>2. g.exclusiveWaitQueue = <<>> /\ g \in Gate
    BY DEF HasExclusiveWaiters, GateOk
<1> HIDE DEF h
<1>3. ASSUME NEW d \in Call, h.state[d] = "waiting"
      PROVE  /\ d \in Ordinary /\ ModelOf[d] \in Model
             /\ \E i \in 1..Len(g.waitQueues[ModelOf[d]]) :
                   /\ g.waitQueues[ModelOf[d]][i] = d
                   /\ \A j \in 1..Room(g, ModelOf[d]) : g.waitQueues[ModelOf[d]][j] # d
    <2>1. Stands(g, d) /\ \A m \in Model : d \notin Front(g, m)
        BY <1>1, <1>3 DEF Attended, Listed
    <2>2. \A i \in 1..Len(<<>>) : FALSE
        OBVIOUS
    <2>3. /\ d \in Ordinary
          /\ \E i \in 1..Len(g.waitQueues[ModelOf[d]]) : g.waitQueues[ModelOf[d]][i] = d
        BY <1>2, <2>1, <2>2 DEF Stands
    <2>4. ModelOf[d] \in Model
        BY CallsAre
    <2> QED
        BY <2>1, <2>3, <2>4 DEF Front
<1>4. Listed(h)
    <2> SUFFICES ASSUME NEW d \in Call, h.state[d] = "waiting" PROVE Stands(h, d)
        BY DEF Listed
    <2> DEFINE q == g.waitQueues[ModelOf[d]]
               k == Room(g, ModelOf[d])
    <2>1. d \in Ordinary /\ ModelOf[d] \in Model
        BY <1>3
    <2>2. PICK i \in 1..Len(q) : q[i] = d /\ \A j \in 1..k : q[j] # d
        BY <1>3
    <2>3. q \in Seq(Ordinary) /\ k \in 0..Len(q)
        BY <1>2, <2>1, QueueElements, FrontKnows
    <2>4. h.waitQueues[ModelOf[d]] = Rest(q, k)
        BY <1>1, <2>1
    <2> HIDE DEF q, k
    <2>5. \E j \in 1..Len(Rest(q, k)) : Rest(q, k)[j] = d
        BY <2>2, <2>3, RestStands
    <2> QED
        BY <2>1, <2>4, <2>5 DEF Stands
<1>5. ASSUME HostIdle(h), NEW d \in Call, h.state[d] = "waiting" PROVE FALSE
    <2> DEFINE m == ModelOf[d]
               n == Len(g.waitQueues[m])
    <2>1. m \in Model /\ \E i \in 1..n : \A j \in 1..Room(g, m) : g.waitQueues[m][j] # d
        BY <1>3, <1>5
    <2>2. n \in Nat /\ n > 0
        BY <1>2, <2>1, QueueElements
    <2>3. g.inFlight[m] + Room(g, m) = 0
        BY <1>1, <1>5, <2>1 DEF HostIdle
    <2>4. g.inFlight[m] \in Nat /\ Room(g, m) \in 0..n /\ MaxInflight \in Nat \ {0}
        BY <1>2, <2>1, Fields, FrontKnows, CallsAre
    <2>5. g.inFlight[m] = 0 /\ Room(g, m) = 0
        BY <2>2, <2>3, <2>4
    <2>6. Room(g, m) = IF n <= MaxInflight - g.inFlight[m] THEN n ELSE MaxInflight - g.inFlight[m]
        BY DEF Room
    <2> HIDE DEF n, m
    <2> QED
        BY <2>2, <2>4, <2>5, <2>6
<1>6. Owned(h)
    BY <1>1 DEF Owned
<1> QED
    BY <1>4, <1>5, <1>6 DEF Attended, Quiet, h

\* Whatever drainHost does, it leaves no idle host to its waiters.
LEMMA DrainAttends ==
    ASSUME NEW g, GateOk(g), Attended(g)
    PROVE  Attended(DrainHost(g)) /\ Quiet(DrainHost(g))
<1>1. CASE g.exclusiveHost # None \/ ~HostIdle(g)
    <2>1. DrainHost(g) = g
        BY <1>1 DEF DrainHost
    <2>2. ~HostIdle(g)
        BY <1>1, IdleIsUnowned DEF Attended
    <2> QED
        BY <2>1, <2>2 DEF Quiet
<1>2. CASE g.exclusiveHost = None /\ HostIdle(g) /\ HasExclusiveWaiters(g)
    BY <1>2, NextOwnsAttends
<1>3. CASE g.exclusiveHost = None /\ HostIdle(g) /\ ~HasExclusiveWaiters(g)
    BY <1>3, FrontAttends DEF DrainHost
<1> QED
    BY <1>1, <1>2, <1>3

-----------------------------------------------------------------------------
(* Every step.                                                               *)

\* After a departure the queues are as before.
LEMMA DepartureLists ==
    ASSUME NEW g, GateOk(g), Attended(g), NEW c \in Slotted, g.state[c] = "admitted"
    PROVE  /\ Listed(Leave(g, c)) /\ Leave(g, c) \in Gate
           /\ Leave(g, c).exclusiveHost = g.exclusiveHost
           /\ \A d \in Call : Leave(g, c).state[d] = IF d = c THEN "ended" ELSE g.state[d]
<1>1. g \in Gate /\ c \in Call /\ g.inFlight[ModelOf[c]] > 0
    <2>1. g \in Gate /\ c \in Call /\ ModelOf[c] \in Model
        BY CallsAre DEF GateOk
    <2>2. c \in Holders(g, ModelOf[c])
        BY DEF Holders
    <2>3. Cardinality(Holders(g, ModelOf[c])) # 0
        BY <2>2, SetsFinite, FS_EmptySet
    <2> QED
        BY <2>1, <2>3, SetsFinite DEF GateOk, Counts
<1>2. /\ Leave(g, c) \in Gate
      /\ Leave(g, c).waitQueues = g.waitQueues
      /\ Leave(g, c).exclusiveWaitQueue = g.exclusiveWaitQueue
      /\ Leave(g, c).exclusiveHost = g.exclusiveHost
    BY <1>1, LeaveFields
<1>3. \A d \in Call : Leave(g, c).state[d] = IF d = c THEN "ended" ELSE g.state[d]
    BY Departs
<1>4. Listed(Leave(g, c))
    BY <1>2, <1>3, AttendedSame
<1> QED
    BY <1>2, <1>3, <1>4

LEMMA ReleaseAttends ==
    ASSUME GateOk(gate), Attended(gate), NEW c \in Ordinary, Release(c)
    PROVE  Attended(gate') /\ Quiet(gate')
<1> DEFINE m == ModelOf[c]
           l == Leave(gate, c)
           n == AdmitNextLocalWaiter(l, m)
<1>1. c \in Slotted /\ c \notin Exclusive /\ m \in Model /\ gate.state[c] = "admitted"
      /\ gate' = DrainHost(n)
    BY CallsAre DEF Release
<1>2. GateOk(l) /\ l.inFlight[m] < MaxInflight
    BY <1>1, Departs
<1>3. Attended(l)
    <2>1. /\ Listed(l) /\ l.exclusiveHost = gate.exclusiveHost
          /\ \A d \in Call : l.state[d] = IF d = c THEN "ended" ELSE gate.state[d]
        BY <1>1, DepartureLists
    <2> HIDE DEF l
    <2>2. Owned(l)
        BY <1>1, <2>1, CallsAre DEF Attended, Owned
    <2> QED
        BY <2>1, <2>2 DEF Attended
<1> HIDE DEF l
<1>4. GateOk(n) /\ Attended(n)
    BY <1>1, <1>2, <1>3, NextAdmitted, NextAttended
<1> HIDE DEF n
<1> QED
    BY <1>1, <1>4, DrainAttends

LEMMA ReleaseExclusiveAttends ==
    ASSUME GateOk(gate), Attended(gate), NEW x \in Exclusive, ReleaseExclusive(x)
    PROVE  Attended(gate') /\ Quiet(gate')
<1> DEFINE l == Leave(gate, x)
           o == IF l.exclusiveHost = ModelOf[x] THEN None ELSE l.exclusiveHost
           n == [l EXCEPT !.exclusiveHost = o]
<1>1. x \in Slotted /\ gate.state[x] = "admitted" /\ gate' = DrainHost(n)
    BY CallsAre DEF ReleaseExclusive
<1>2. GateOk(l) /\ Listed(l) /\ l \in Gate /\ l.exclusiveHost = gate.exclusiveHost
      /\ \A d \in Call : l.state[d] = IF d = x THEN "ended" ELSE gate.state[d]
    BY <1>1, Departs, DepartureLists
<1>3. gate.exclusiveHost = ModelOf[x]
    BY <1>1 DEF GateOk, Alone
<1> HIDE DEF l
<1>4. \A y \in Exclusive : l.state[y] # "admitted"
    BY <1>1, <1>2, CallsAre DEF GateOk, Alone
<1>5. o = None
    BY <1>2, <1>3
<1> HIDE DEF o
<1>6. GateOk(n)
    BY <1>2, <1>4, <1>5, OwnerChanges
<1>7. n.exclusiveHost = None /\ n.waitQueues = l.waitQueues
      /\ n.exclusiveWaitQueue = l.exclusiveWaitQueue /\ n.state = l.state
    BY <1>2, <1>5, Fields DEF Gate
<1> HIDE DEF n
<1>8. Attended(n)
    BY <1>2, <1>7 DEF Attended, Listed, Owned, Stands
<1> QED
    BY <1>1, <1>6, <1>8, DrainAttends

\* A tracked call that moves waits for nothing, and moves no queue.
LEMMA TrackedMoveAttends ==
    ASSUME NEW g, GateOk(g), Attended(g), NEW c \in Tracked, NEW s \in State \ {"waiting"},
           NEW n \in Nat, NEW h, h = Counted(g, c, n, s)
    PROVE  /\ Attended(h) /\ h.trackedInFlight[ModelOf[c]] = n
           /\ ModelOf[c] \in Model
<1> DEFINE f == [g.trackedInFlight EXCEPT ![ModelOf[c]] = n]
           w == [g.state EXCEPT ![c] = s]
<1>1. g \in Gate /\ c \in Call /\ ModelOf[c] \in Model /\ c \notin Exclusive
    BY CallsAre DEF GateOk
<1>2. f \in [Model -> Nat] /\ w \in [Call -> State] /\ f[ModelOf[c]] = n
    BY <1>1, Fields
<1>3. \A d \in Call : w[d] = IF d = c THEN s ELSE g.state[d]
    BY <1>1, Fields
<1>4. h = [[g EXCEPT !.trackedInFlight = f] EXCEPT !.state = w]
    BY DEF Counted
<1> HIDE DEF f, w
<1>5. /\ h.trackedInFlight = f /\ h.waitQueues = g.waitQueues
      /\ h.exclusiveWaitQueue = g.exclusiveWaitQueue
      /\ h.exclusiveHost = g.exclusiveHost /\ h.state = w
    BY <1>1, <1>2, <1>4, Fields DEF Gate, State
<1>6. Listed(h)
    BY <1>3, <1>5, AttendedSame
<1>7. Owned(h)
    BY <1>1, <1>3, <1>5, CallsAre DEF Attended, Owned
<1> QED
    BY <1>1, <1>2, <1>5, <1>6, <1>7 DEF Attended

LEMMA TrackAttends ==
    ASSUME GateOk(gate), Attended(gate), NEW c \in Tracked, Track(c)
    PROVE  Attended(gate') /\ Quiet(gate')
<1> DEFINE n == gate.trackedInFlight[ModelOf[c]] + 1
<1>1. gate' = Counted(gate, c, n, "admitted")
    BY DEF Track, Counted
<1>2. n \in Nat /\ n # 0 /\ "admitted" \in State \ {"waiting"}
    BY CallsAre, Fields DEF GateOk, State
<1> HIDE DEF n
<1>3. Attended(gate') /\ gate'.trackedInFlight[ModelOf[c]] = n /\ ModelOf[c] \in Model
    BY <1>1, <1>2, TrackedMoveAttends
<1> QED
    BY <1>2, <1>3 DEF Quiet, HostIdle

LEMMA ReleaseTrackedAttends ==
    ASSUME GateOk(gate), Attended(gate), NEW c \in Tracked, ReleaseTracked(c)
    PROVE  Attended(gate') /\ Quiet(gate')
<1>1. PICK n \in Nat : /\ gate' = DrainHost(Counted(gate, c, n, "ended"))
                       /\ GateOk(Counted(gate, c, n, "ended"))
    BY TrackedLeaves
<1>2. Attended(Counted(gate, c, n, "ended"))
    BY TrackedMoveAttends DEF State
<1> QED
    BY <1>1, <1>2, DrainAttends

\* A queue that loses nobody but the call that leaves, and finds the one that
\* comes.
LEMMA WaiterMoveAttends ==
    ASSUME NEW g, GateOk(g), Attended(g), NEW c \in Ordinary,
           NEW s \in {"waiting", "ended"}, NEW r \in Seq(Ordinary), NEW h,
           h = Queued(g, c, r, s),
           s = "waiting" => \E j \in 1..Len(r) : r[j] = c,
           \A i \in 1..Len(g.waitQueues[ModelOf[c]]) :
               g.waitQueues[ModelOf[c]][i] # c =>
                   \E j \in 1..Len(r) : r[j] = g.waitQueues[ModelOf[c]][i]
    PROVE  Attended(h)
<1>1. /\ h.waitQueues[ModelOf[c]] = r
      /\ \A k \in Model : k # ModelOf[c] => h.waitQueues[k] = g.waitQueues[k]
      /\ h.exclusiveWaitQueue = g.exclusiveWaitQueue
      /\ h.exclusiveHost = g.exclusiveHost
      /\ \A d \in Call : h.state[d] = IF d = c THEN s ELSE g.state[d]
    BY WaiterMoveFields
<1>2. Owned(h)
    BY <1>1, CallsAre DEF Attended, Owned
<1>3. ASSUME NEW d \in Call, h.state[d] = "waiting" PROVE Stands(h, d)
    <2>1. CASE d = c
        BY <1>1, <1>3, <2>1 DEF Stands
    <2>2. CASE d # c
        <3>1. Stands(g, d)
            BY <1>1, <1>3, <2>2 DEF Attended, Listed
        <3>2. CASE d \in Ordinary /\ ModelOf[d] = ModelOf[c]
            <4>1. PICK i \in 1..Len(g.waitQueues[ModelOf[c]]) : g.waitQueues[ModelOf[c]][i] = d
                BY <3>1, <3>2, CallsAre DEF Stands
            <4>2. \E j \in 1..Len(r) : r[j] = d
                BY <2>2, <4>1
            <4> QED
                BY <1>1, <3>2, <4>2 DEF Stands
        <3>3. CASE d \in Ordinary /\ ModelOf[d] # ModelOf[c]
            BY <1>1, <3>1, <3>3, CallsAre DEF Stands
        <3>4. CASE d \notin Ordinary
            BY <1>1, <3>1, <3>4 DEF Stands
        <3> QED
            BY <3>2, <3>3, <3>4
    <2> QED
        BY <2>1, <2>2
<1> QED
    BY <1>2, <1>3 DEF Attended, Listed

LEMMA AcquireAttends ==
    ASSUME GateOk(gate), Attended(gate), Quiet(gate), NEW c \in Ordinary, Acquire(c)
    PROVE  Attended(gate') /\ Quiet(gate')
<1> DEFINE m == ModelOf[c]
           q == gate.waitQueues[m]
           r == Append(q, c)
<1>1. gate \in Gate /\ m \in Model /\ gate.state[c] = "new" /\ c \in Slotted /\ c \in Call
      /\ c \notin Exclusive
    BY CallsAre DEF GateOk, Acquire
<1>2. CASE OpenToOrdinary(gate) /\ gate.inFlight[m] < MaxInflight
    <2> DEFINE h == Admit(gate, m, c)
    <2>1. gate' = h
        BY <1>2 DEF Acquire
    <2>2. /\ h.waitQueues = gate.waitQueues
          /\ h.exclusiveWaitQueue = gate.exclusiveWaitQueue
          /\ h.exclusiveHost = gate.exclusiveHost
          /\ h.state = [gate.state EXCEPT ![c] = "admitted"]
        BY <1>1, AdmitFields
    <2>3. \A d \in Call : h.state[d] = IF d = c THEN "admitted" ELSE gate.state[d]
        BY <1>1, <2>2, Fields
    <2>4. GateOk(h)
        BY <1>1, <1>2, ArrivalAdmitted
    <2> HIDE DEF h
    <2>5. Listed(h)
        BY <2>2, <2>3, AttendedSame
    <2>6. Owned(h)
        BY <2>2, <2>3, <1>1, CallsAre DEF Attended, Owned
    <2> QED
        BY <1>1, <2>1, <2>3, <2>4, <2>5, <2>6, BusyWhenAdmitted DEF Attended
<1>3. CASE ~(OpenToOrdinary(gate) /\ gate.inFlight[m] < MaxInflight)
    <2>1. gate' = Queued(gate, c, r, "waiting")
        BY <1>3 DEF Acquire, Queued
    <2>2. q \in Seq(Ordinary)
        BY <1>1, QueueElements
    <2>3. ~HostIdle(gate)
        <3>1. ASSUME HostIdle(gate) PROVE FALSE
            <4>1. gate.exclusiveHost = None /\ ~HasExclusiveWaiters(gate)
                BY <3>1, IdleIsUnowned, QuietHasNoExclusiveWaiters DEF Attended
            <4>2. gate.inFlight[m] = 0 /\ MaxInflight > 0
                BY <1>1, <3>1, CallsAre DEF HostIdle
            <4> QED
                BY <1>3, <4>1, <4>2 DEF OpenToOrdinary
        <3> QED
            BY <3>1
    <2>4. r \in Seq(Ordinary)
          /\ (\E j \in 1..Len(r) : r[j] = c)
          /\ \A i \in 1..Len(q) : \E j \in 1..Len(r) : r[j] = q[i]
        <3> HIDE DEF q
        <3> QED
            BY <2>2, AppendStands, AppendProperties
    <2> HIDE DEF r
    <2>5. Attended(gate')
        BY <2>1, <2>4, WaiterMoveAttends
    <2>6. gate'.inFlight = gate.inFlight /\ gate'.trackedInFlight = gate.trackedInFlight
        BY <2>1, <2>4, WaiterMoveFields
    <2> QED
        BY <2>3, <2>5, <2>6 DEF Quiet, HostIdle
<1> QED
    BY <1>2, <1>3

LEMMA CancelAttends ==
    ASSUME GateOk(gate), Attended(gate), Quiet(gate), NEW c \in Ordinary, Cancel(c)
    PROVE  Attended(gate') /\ Quiet(gate')
<1> DEFINE m == ModelOf[c]
           q == gate.waitQueues[m]
           r == Without(q, c)
<1>1. gate \in Gate /\ m \in Model /\ gate.state[c] = "waiting" /\ c \in Call /\ c \notin Exclusive
    BY CallsAre DEF GateOk, Cancel
<1>2. gate' = Queued(gate, c, r, "ended")
    BY DEF Cancel, Queued
<1>3. q \in Seq(Ordinary) /\ Distinct(q) /\ \E k \in 1..Len(q) : q[k] = c
    BY <1>1, QueueElements DEF GateOk, Queues, OrdinaryQueue, Attended, Listed, Stands
<1>4. r \in Seq(Ordinary)
      /\ \A i \in 1..Len(q) : q[i] # c => \E j \in 1..Len(r) : r[j] = q[i]
    <2> HIDE DEF q
    <2> QED
        BY <1>3, WithoutKnows, WithoutStands
<1> HIDE DEF r
<1>5. Attended(gate')
    BY <1>2, <1>4, WaiterMoveAttends
<1>6. gate'.inFlight = gate.inFlight /\ gate'.trackedInFlight = gate.trackedInFlight
    BY <1>2, <1>4, WaiterMoveFields
<1> QED
    BY <1>1, <1>5, <1>6 DEF Quiet, HostIdle

LEMMA ExclusiveMoveAttends ==
    ASSUME NEW g, GateOk(g), Attended(g), NEW x \in Exclusive, g.state[x] # "admitted",
           NEW s \in {"waiting", "ended"}, NEW r \in Seq(Exclusive), NEW h,
           h = QueuedExclusive(g, x, r, s),
           s = "waiting" => \E j \in 1..Len(r) : r[j] = x,
           \A i \in 1..Len(g.exclusiveWaitQueue) :
               g.exclusiveWaitQueue[i] # x =>
                   \E j \in 1..Len(r) : r[j] = g.exclusiveWaitQueue[i]
    PROVE  Attended(h)
<1>1. /\ h.waitQueues = g.waitQueues
      /\ h.exclusiveWaitQueue = r
      /\ h.exclusiveHost = g.exclusiveHost
      /\ \A d \in Call : h.state[d] = IF d = x THEN s ELSE g.state[d]
    BY ExclusiveMoveFields
<1>2. Owned(h)
    BY <1>1, CallsAre DEF Attended, Owned
<1>3. ASSUME NEW d \in Call, h.state[d] = "waiting" PROVE Stands(h, d)
    <2>1. CASE d = x
        BY <1>1, <1>3, <2>1 DEF Stands
    <2>2. CASE d # x
        <3>1. Stands(g, d)
            BY <1>1, <1>3, <2>2 DEF Attended, Listed
        <3>2. CASE d \in Ordinary
            BY <1>1, <3>1, <3>2, CallsAre DEF Stands
        <3>3. CASE d \notin Ordinary
            <4>1. d \in Exclusive
                BY <3>1, <3>3 DEF Stands
            <4>2. PICK i \in 1..Len(g.exclusiveWaitQueue) : g.exclusiveWaitQueue[i] = d
                BY <3>1, <3>3 DEF Stands
            <4>3. \E j \in 1..Len(r) : r[j] = d
                BY <2>2, <4>2
            <4> QED
                BY <1>1, <4>1, <4>3 DEF Stands
        <3> QED
            BY <3>2, <3>3
    <2> QED
        BY <2>1, <2>2
<1> QED
    BY <1>2, <1>3 DEF Attended, Listed

LEMMA AcquireExclusiveAttends ==
    ASSUME GateOk(gate), Attended(gate), Quiet(gate), NEW x \in Exclusive, AcquireExclusive(x)
    PROVE  Attended(gate') /\ Quiet(gate')
<1> DEFINE q == gate.exclusiveWaitQueue
           r == Append(q, x)
<1>1. gate \in Gate /\ gate.state[x] = "new" /\ x \in Slotted /\ x \in Call
    BY CallsAre DEF GateOk, AcquireExclusive
<1>2. CASE MayOwn(gate)
    <2>1. gate' = Own(gate, x)
        BY <1>2 DEF AcquireExclusive
    <2>2. HostIdle(gate) /\ gate.exclusiveHost = None
        BY <1>2 DEF MayOwn
    <2>3. GateOk(gate') /\ Attended(gate')
        BY <1>1, <1>2, <2>1, <2>2, ArrivalOwns, OwnAttends
    <2>4. gate'.state[x] = "admitted"
        BY <1>1, <2>1, <2>2, OwnFields
    <2> QED
        BY <1>1, <2>3, <2>4, BusyWhenAdmitted
<1>3. CASE ~MayOwn(gate)
    <2>1. gate' = QueuedExclusive(gate, x, r, "waiting")
        BY <1>3 DEF AcquireExclusive, QueuedExclusive
    <2>2. q \in Seq(Exclusive)
        BY <1>1, QueueElements
    <2>3. ~HostIdle(gate)
        BY <1>3, IdleIsUnowned, QuietHasNoExclusiveWaiters DEF Attended, MayOwn
    <2>4. r \in Seq(Exclusive)
          /\ (\E j \in 1..Len(r) : r[j] = x)
          /\ \A i \in 1..Len(q) : \E j \in 1..Len(r) : r[j] = q[i]
        <3> HIDE DEF q
        <3> QED
            BY <2>2, AppendStands, AppendProperties
    <2> HIDE DEF r
    <2>5. Attended(gate')
        BY <1>1, <2>1, <2>4, ExclusiveMoveAttends
    <2>6. gate'.inFlight = gate.inFlight /\ gate'.trackedInFlight = gate.trackedInFlight
        BY <2>1, <2>4, ExclusiveMoveFields
    <2> QED
        BY <2>3, <2>5, <2>6 DEF Quiet, HostIdle
<1> QED
    BY <1>2, <1>3

LEMMA CancelExclusiveAttends ==
    ASSUME GateOk(gate), Attended(gate), NEW x \in Exclusive, CancelExclusive(x)
    PROVE  Attended(gate') /\ Quiet(gate')
<1> DEFINE q == gate.exclusiveWaitQueue
           r == Without(q, x)
           l == QueuedExclusive(gate, x, r, "ended")
<1>1. gate \in Gate /\ gate.state[x] = "waiting" /\ x \in Call /\ x \notin Ordinary
    BY CallsAre DEF GateOk, CancelExclusive
<1>2. gate' = DrainHost(l)
    BY DEF CancelExclusive, QueuedExclusive
<1>3. /\ q \in Seq(Exclusive) /\ Distinct(q)
      /\ \A i \in 1..Len(q) : gate.state[q[i]] = "waiting"
      /\ \E k \in 1..Len(q) : q[k] = x
    BY <1>1, QueueElements DEF GateOk, Queues, ExclusiveQueue, Attended, Listed, Stands
<1>4. /\ r \in Seq(Exclusive) /\ Distinct(r)
      /\ \A i \in 1..Len(r) : \E j \in 1..Len(q) : r[i] = q[j] /\ q[j] # x
      /\ \A i \in 1..Len(q) : q[i] # x => \E j \in 1..Len(r) : r[j] = q[i]
    <2> HIDE DEF q
    <2> QED
        BY <1>3, WithoutKnows, WithoutStands
<1>5. \A i \in 1..Len(r) : (IF r[i] = x THEN "ended" ELSE gate.state[r[i]]) = "waiting"
    <2> HIDE DEF q, r
    <2> QED
        BY <1>3, <1>4
<1> HIDE DEF r
<1>6. GateOk(l)
    BY <1>1, <1>4, <1>5, ExclusiveWaiterMoves
<1>7. Attended(l)
    BY <1>1, <1>4, ExclusiveMoveAttends
<1> HIDE DEF l
<1> QED
    BY <1>2, <1>6, <1>7, DrainAttends

-----------------------------------------------------------------------------
\* Whatever happens, an idle host has nobody waiting, and a waiter its place.
GateAttended == GateOk(gate) /\ Attended(gate) /\ Quiet(gate)

LEMMA InitAttended == Init => GateAttended
<1> SUFFICES ASSUME Init PROVE GateAttended
    OBVIOUS
<1>1. gate.exclusiveHost = None /\ \A c \in Call : gate.state[c] = "new"
    BY DEF Init
<1> QED
    BY <1>1, InitOk DEF GateAttended, Attended, Listed, Owned, Quiet

LEMMA StepAttended == GateAttended /\ [Next]_gate => GateAttended'
<1> SUFFICES ASSUME GateAttended, [Next]_gate PROVE GateAttended'
    OBVIOUS
<1>1. GateOk(gate')
    BY StepOk DEF GateAttended
<1> USE DEF GateAttended
<1>2. ASSUME NEW c \in Ordinary, Acquire(c) \/ Release(c) \/ Cancel(c)
      PROVE  Attended(gate') /\ Quiet(gate')
    BY <1>2, AcquireAttends, ReleaseAttends, CancelAttends
<1>3. ASSUME NEW x \in Exclusive, AcquireExclusive(x) \/ ReleaseExclusive(x) \/ CancelExclusive(x)
      PROVE  Attended(gate') /\ Quiet(gate')
    BY <1>3, AcquireExclusiveAttends, ReleaseExclusiveAttends, CancelExclusiveAttends
<1>4. ASSUME NEW c \in Tracked, Track(c) \/ ReleaseTracked(c)
      PROVE  Attended(gate') /\ Quiet(gate')
    BY <1>4, TrackAttends, ReleaseTrackedAttends
<1>5. CASE UNCHANGED gate
    BY <1>5
<1> QED
    BY <1>1, <1>2, <1>3, <1>4, <1>5 DEF Next

\* A busy host holds an admitted call.
LEMMA BusyHasCall ==
    ASSUME NEW g, GateOk(g), ~HostIdle(g)
    PROVE  \E d \in Call : g.state[d] = "admitted"
<1>1. PICK m \in Model : g.inFlight[m] # 0 \/ g.trackedInFlight[m] # 0
    BY DEF HostIdle
<1>2. Cardinality(Holders(g, m)) # 0 \/ Cardinality(TrackedOn(g, m)) # 0
    BY <1>1 DEF GateOk, Counts
<1>3. Holders(g, m) # {} \/ TrackedOn(g, m) # {}
    BY <1>2, FS_EmptySet
<1> QED
    BY <1>3, CallsAre DEF Holders, TrackedOn

\* No wake-up of the gate is lost for good, in any order of arrivals, aborts
\* and releases: a waiter stands in its queue, and a call that the gate has
\* admitted, ordinary, exclusive or tracked, has still to release the host.
THEOREM NoWakeUpIsLost == Spec => []NobodyWaitsForNothing
<1>1. GateAttended => NobodyWaitsForNothing
    BY BusyHasCall DEF GateAttended, Attended, Listed, Quiet, NobodyWaitsForNothing, In
<1>2. GateAttended /\ [Next]_gate => GateAttended'
    BY StepAttended
<1> QED
    BY <1>1, <1>2, InitAttended, PTL DEF Spec

-----------------------------------------------------------------------------
(* Slots without evictions.                                                  *)

\* Nobody owns the host, or waits to own it.
Unowned(g) == g.exclusiveHost = None /\ g.exclusiveWaitQueue = <<>>

\* A model that has waiters has no slot left, in a gate and in its fields.
FullOf(w, f, m) == w[m] # <<>> => f[m] >= MaxInflight
Full(g) == \A m \in Model : FullOf(g.waitQueues, g.inFlight, m)

LEMMA NobodyOwns ==
    ASSUME Exclusive = {}, NEW g, GateOk(g), Attended(g)
    PROVE  Unowned(g) /\ OpenToOrdinary(g)
<1>1. g.exclusiveWaitQueue \in Seq({})
    BY Fields DEF GateOk
<1>2. g.exclusiveWaitQueue = <<>>
    BY <1>1, EmptySeq
<1>3. g.exclusiveHost = None
    BY DEF Attended, Owned
<1> QED
    BY <1>2, <1>3 DEF Unowned, OpenToOrdinary, HasExclusiveWaiters

\* An idle host admits waiters until their queue or their semaphore ends.
LEMMA DrainFills ==
    ASSUME NEW g, GateOk(g), Unowned(g), Full(g)
    PROVE  Full(DrainHost(g))
<1>1. CASE ~HostIdle(g)
    BY <1>1 DEF DrainHost
<1>2. CASE HostIdle(g)
    <2> DEFINE h == AdmitWaiters(g)
    <2>1. DrainHost(g) = h
        BY <1>2 DEF DrainHost, Unowned, HasExclusiveWaiters
    <2> HIDE DEF h
    <2> SUFFICES ASSUME NEW m \in Model, h.waitQueues[m] # <<>>
                 PROVE  h.inFlight[m] >= MaxInflight
        BY <2>1 DEF Full, FullOf
    <2> DEFINE q == g.waitQueues[m]
               k == Room(g, m)
    <2>2. h.inFlight[m] = g.inFlight[m] + k /\ h.waitQueues[m] = Rest(q, k)
        BY FrontFields DEF h
    <2>3. q \in Seq(Ordinary) /\ Distinct(q) /\ k \in 0..Len(q) /\ Len(q) \in Nat
        BY QueueElements, FrontKnows DEF GateOk, Queues, OrdinaryQueue
    <2>4. g.inFlight[m] \in Nat /\ MaxInflight \in Nat
        BY Fields, CallsAre DEF GateOk
    <2>5. k = IF Len(q) <= MaxInflight - g.inFlight[m]
              THEN Len(q) ELSE MaxInflight - g.inFlight[m]
        BY DEF Room
    <2> HIDE DEF q, k
    <2>6. k # Len(q)
      <3> SUFFICES ASSUME k = Len(q) PROVE FALSE
          OBVIOUS
      <3>1. Rest(q, k) \in Seq(Ordinary) /\ Rest(q, k) # <<>>
          BY <2>2, <2>3, Dropped
      <3>2. 1 \in 1..Len(Rest(q, k))
          BY <3>1
      <3>3. k + 1 \in 1..Len(q)
          BY <2>3, <3>2, Dropped
      <3> QED
          BY <2>3, <3>3
    <2> QED
        BY <2>2, <2>3, <2>4, <2>5, <2>6
<1> QED
    BY <1>1, <1>2

LEMMA AcquireFills ==
    ASSUME GateOk(gate), Unowned(gate), Full(gate), NEW c \in Ordinary, Acquire(c)
    PROVE  Full(gate')
<1> DEFINE m == ModelOf[c]
<1>1. gate \in Gate /\ m \in Model /\ c \in Call
    BY CallsAre DEF GateOk
<1>2. gate.inFlight[m] \in Nat /\ MaxInflight \in Nat
    BY <1>1, Fields, CallsAre
<1>3. OpenToOrdinary(gate)
    BY DEF Unowned, OpenToOrdinary, HasExclusiveWaiters
<1>4. CASE gate.inFlight[m] < MaxInflight
    <2>1. gate' = Admit(gate, m, c)
        BY <1>3, <1>4 DEF Acquire
    <2>2. /\ gate'.waitQueues = gate.waitQueues
          /\ gate'.inFlight = [gate.inFlight EXCEPT ![m] = @ + 1]
        BY <1>1, <2>1, AdmitFields
    <2>3. gate'.waitQueues[m] = <<>>
        BY <1>1, <1>2, <1>4, <2>2 DEF Full, FullOf
    <2>4. \A k \in Model : k # m => gate'.inFlight[k] = gate.inFlight[k]
        BY <1>1, <2>2, Fields
    <2> QED
        BY <2>2, <2>3, <2>4 DEF Full, FullOf
<1>5. CASE ~(gate.inFlight[m] < MaxInflight)
    <2> DEFINE r == Append(gate.waitQueues[m], c)
    <2>1. gate' = Queued(gate, c, r, "waiting")
        BY <1>5 DEF Acquire, Queued
    <2>2. gate.waitQueues[m] \in Seq(Ordinary)
        BY <1>1, Fields
    <2>3. r \in Seq(Ordinary)
        BY <2>2
    <2> HIDE DEF r
    <2>4. /\ gate'.inFlight = gate.inFlight
          /\ \A k \in Model : k # m => gate'.waitQueues[k] = gate.waitQueues[k]
        BY <2>1, <2>3, WaiterMoveFields
    <2> QED
        BY <1>2, <1>5, <2>4 DEF Full, FullOf
<1> QED
    BY <1>4, <1>5

LEMMA CancelFills ==
    ASSUME GateOk(gate), Full(gate), NEW c \in Ordinary, Cancel(c)
    PROVE  Full(gate')
<1> DEFINE m == ModelOf[c]
           q == gate.waitQueues[m]
           r == Without(q, c)
<1>1. gate \in Gate /\ m \in Model
    BY CallsAre DEF GateOk
<1>2. gate' = Queued(gate, c, r, "ended")
    BY DEF Cancel, Queued
<1>3. q \in Seq(Ordinary) /\ Distinct(q)
    BY <1>1, QueueElements DEF GateOk, Queues, OrdinaryQueue
<1> HIDE DEF q
<1>4. /\ r \in Seq(Ordinary)
      /\ \A i \in 1..Len(r) : \E j \in 1..Len(q) : r[i] = q[j] /\ q[j] # c
    BY <1>3, WithoutKnows
<1> HIDE DEF r
<1>5. r # <<>> => q # <<>>
    <2> SUFFICES ASSUME r # <<>> PROVE q # <<>>
        OBVIOUS
    <2>1. 1 \in 1..Len(r)
        BY <1>4
    <2>2. \E j \in 1..Len(q) : TRUE
        BY <1>4, <2>1
    <2> QED
        BY <2>2
<1>6. /\ gate'.inFlight = gate.inFlight
      /\ gate'.waitQueues[m] = r
      /\ \A k \in Model : k # m => gate'.waitQueues[k] = gate.waitQueues[k]
    BY <1>2, <1>4, WaiterMoveFields
<1> QED
    BY <1>5, <1>6 DEF Full, FullOf, q

\* The slot that is given back goes to the next waiter of its model.
LEMMA ReleaseFills ==
    ASSUME GateOk(gate), Attended(gate), Full(gate), Exclusive = {},
           NEW c \in Ordinary, Release(c)
    PROVE  Full(gate')
<1> DEFINE m == ModelOf[c]
           l == Leave(gate, c)
           n == AdmitNextLocalWaiter(l, m)
<1>1. c \in Slotted /\ c \in Call /\ m \in Model /\ gate.state[c] = "admitted"
      /\ gate' = DrainHost(n) /\ gate \in Gate
    BY CallsAre DEF Release, GateOk
<1>2. GateOk(l) /\ l.inFlight[m] < MaxInflight
    BY <1>1, Departs
<1>3. gate.inFlight[m] > 0
    <2>1. Holders(gate, m) # {}
        BY <1>1 DEF Holders
    <2> QED
        BY <1>1, <2>1, SetsFinite, FS_EmptySet DEF GateOk, Counts
<1>4. /\ l.waitQueues = gate.waitQueues
      /\ l.inFlight = [gate.inFlight EXCEPT ![m] = @ - 1]
      /\ l.exclusiveHost = gate.exclusiveHost
      /\ l.exclusiveWaitQueue = gate.exclusiveWaitQueue
    BY <1>1, <1>3, LeaveFields
<1>5. /\ l.inFlight[m] = gate.inFlight[m] - 1
      /\ \A k \in Model : k # m => l.inFlight[k] = gate.inFlight[k]
    BY <1>1, <1>4, Fields
<1>6. Unowned(gate) /\ OpenToOrdinary(gate)
    BY NobodyOwns
<1>7. Unowned(l) /\ OpenToOrdinary(l)
    BY <1>4, <1>6 DEF Unowned, OpenToOrdinary, HasExclusiveWaiters
<1>8. GateOk(n)
    BY <1>1, <1>2, NextAdmitted
<1>9. gate.inFlight[m] \in Nat /\ MaxInflight \in Nat
    BY <1>1, Fields, CallsAre
<1> HIDE DEF l
<1>10. Unowned(n) /\ Full(n)
    <2>1. CASE l.waitQueues[m] = <<>>
        <3>1. n = l
            BY <2>1 DEF AdmitNextLocalWaiter
        <3> QED
            BY <1>4, <1>5, <1>7, <2>1, <3>1 DEF Full, FullOf
    <2>2. CASE l.waitQueues[m] # <<>>
        <3>1. /\ n.inFlight[m] = l.inFlight[m] + 1
              /\ \A k \in Model : k # m => n.inFlight[k] = l.inFlight[k]
              /\ \A k \in Model : k # m => n.waitQueues[k] = l.waitQueues[k]
              /\ n.exclusiveWaitQueue = l.exclusiveWaitQueue
              /\ n.exclusiveHost = l.exclusiveHost
            BY <1>1, <1>2, <1>7, <2>2, NextFields
        <3> HIDE DEF n
        <3>2. n.inFlight[m] >= MaxInflight
            BY <1>1, <1>4, <1>5, <1>9, <2>2, <3>1 DEF Full, FullOf
        <3> QED
            BY <1>4, <1>5, <1>7, <3>1, <3>2 DEF Full, FullOf, Unowned
    <2> QED
        BY <2>1, <2>2
<1> HIDE DEF n
<1> QED
    BY <1>1, <1>8, <1>10, DrainFills

\* The direct lane takes no slot.
LEMMA TrackedMoveFields ==
    ASSUME NEW g, GateOk(g), NEW c \in Tracked, NEW s \in State, NEW n \in Nat
    PROVE  /\ Counted(g, c, n, s).inFlight = g.inFlight
           /\ Counted(g, c, n, s).waitQueues = g.waitQueues
           /\ Counted(g, c, n, s).exclusiveHost = g.exclusiveHost
           /\ Counted(g, c, n, s).exclusiveWaitQueue = g.exclusiveWaitQueue
<1> DEFINE f == [g.trackedInFlight EXCEPT ![ModelOf[c]] = n]
           w == [g.state EXCEPT ![c] = s]
<1>1. g \in Gate
    BY DEF GateOk
<1>2. Counted(g, c, n, s) = [[g EXCEPT !.trackedInFlight = f] EXCEPT !.state = w]
    BY DEF Counted
<1> HIDE DEF f, w
<1> QED
    BY <1>1, <1>2, Fields

LEMMA TrackFills ==
    ASSUME GateOk(gate), Full(gate), NEW c \in Tracked, Track(c)
    PROVE  Full(gate')
<1> DEFINE n == gate.trackedInFlight[ModelOf[c]] + 1
<1>1. gate' = Counted(gate, c, n, "admitted")
    BY DEF Track, Counted
<1>2. n \in Nat /\ "admitted" \in State
    BY CallsAre, Fields DEF GateOk, State
<1> HIDE DEF n
<1> QED
    BY <1>1, <1>2, TrackedMoveFields DEF Full, FullOf

LEMMA ReleaseTrackedFills ==
    ASSUME GateOk(gate), Unowned(gate), Full(gate), NEW c \in Tracked, ReleaseTracked(c)
    PROVE  Full(gate')
<1>1. PICK n \in Nat : /\ gate' = DrainHost(Counted(gate, c, n, "ended"))
                       /\ GateOk(Counted(gate, c, n, "ended"))
    BY TrackedLeaves
<1> DEFINE l == Counted(gate, c, n, "ended")
<1>2. /\ l.inFlight = gate.inFlight
      /\ l.waitQueues = gate.waitQueues
      /\ l.exclusiveHost = gate.exclusiveHost
      /\ l.exclusiveWaitQueue = gate.exclusiveWaitQueue
    BY TrackedMoveFields DEF State
<1>3. GateOk(l) /\ gate' = DrainHost(l)
    BY <1>1
<1> HIDE DEF l
<1>4. Unowned(l) /\ Full(l)
    BY <1>2 DEF Unowned, Full, FullOf
<1> QED
    BY <1>3, <1>4, DrainFills

LEMMA StepFills ==
    ASSUME Exclusive = {}, GateAttended, Full(gate), [Next]_gate
    PROVE  Full(gate')
<1>1. GateOk(gate) /\ Attended(gate)
    BY DEF GateAttended
<1>2. Unowned(gate)
    BY <1>1, NobodyOwns
<1>3. ASSUME NEW c \in Ordinary, Acquire(c) \/ Release(c) \/ Cancel(c)
      PROVE  Full(gate')
    BY <1>1, <1>2, <1>3, AcquireFills, ReleaseFills, CancelFills
<1>4. ASSUME NEW c \in Tracked, Track(c) \/ ReleaseTracked(c)
      PROVE  Full(gate')
    BY <1>1, <1>2, <1>4, TrackFills, ReleaseTrackedFills
<1>5. CASE UNCHANGED gate
    BY <1>5
<1> QED
    BY <1>3, <1>4, <1>5 DEF Next

\* On a host that nothing is evicted from, no call waits for a slot that it
\* could have, in any order of arrivals, aborts and releases of either lane:
\* what the comment promises is lost to exclusive calls only.
THEOREM NoIdleSlotWithoutEvictions ==
    ASSUME Exclusive = {}
    PROVE  Spec => []NoIdleSlot
<1>1. Init => Full(gate)
    BY DEF Init, Full, FullOf
<1>2. GateAttended /\ Full(gate) /\ [Next]_gate => Full(gate)'
    BY StepFills
<1>3. GateAttended /\ [Next]_gate => GateAttended'
    BY StepAttended
<1>4. Full(gate) => NoIdleSlot
    BY DEF Full, FullOf, NoIdleSlot
<1> QED
    BY <1>1, <1>2, <1>3, <1>4, InitAttended, PTL DEF Spec
=============================================================================
