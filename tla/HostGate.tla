------------------------------- MODULE HostGate -------------------------------
(***************************************************************************)
(* The admission queue in front of one Ollama host, in its local mode      *)
(* (core/src/services/hostGate.js).                                        *)
(*                                                                         *)
(* Every model of the host has a semaphore of MaxInflight slots and a      *)
(* queue of waiters.  An exclusive call evicts the models in residence: it *)
(* waits until nothing runs on the host, and from its arrival on ordinary  *)
(* calls wait behind it.  The direct lane is only tracked: it never waits, *)
(* but it keeps the host busy.                                             *)
(*                                                                         *)
(* No function of the gate awaits between its reads and its writes, so     *)
(* each is one step, in which a release also admits the waiters it makes   *)
(* room for.  An abort calls the waiter's listener at once, so a queue     *)
(* holds no aborted waiter.  Statistics are left out.                      *)
(***************************************************************************)
EXTENDS Integers, Sequences, FiniteSets

CONSTANTS
    Ordinary,    \* calls of acquire, one admission each
    Exclusive,   \* calls of acquireExclusive
    Tracked,     \* calls of track
    Model,
    ModelOf,     \* the model each call names
    MaxInflight, \* GATE_MAX_INFLIGHT
    None         \* no exclusive owner

Call == Ordinary \cup Exclusive \cup Tracked

ASSUME GateConstants ==
    /\ Ordinary \cap Exclusive = {}
    /\ Tracked \cap (Ordinary \cup Exclusive) = {}
    /\ IsFiniteSet(Call)
    /\ ModelOf \in [Call -> Model]
    /\ MaxInflight \in Nat \ {0}
    /\ None \notin Model

VARIABLE gate

\* What the gate keeps of the host: the admitted and the tracked calls of each
\* model, its ordinary waiters, the exclusive waiters, the model that owns the
\* host, and where each call is.
Gate ==
    [inFlight : [Model -> Nat],
     trackedInFlight : [Model -> Nat],
     waitQueues : [Model -> Seq(Ordinary)],
     exclusiveWaitQueue : Seq(Exclusive),
     exclusiveHost : Model \cup {None},
     state : [Call -> {"new", "waiting", "admitted", "ended"}]]

-----------------------------------------------------------------------------
(* What the gate looks at.                                                 *)

HostIdle(g) ==
    \A m \in Model : g.inFlight[m] = 0 /\ g.trackedInFlight[m] = 0

HasExclusiveWaiters(g) == g.exclusiveWaitQueue # <<>>

OpenUnlessOwned(g) == g.exclusiveHost = None

\* Ordinary calls are let in only behind no exclusive one.
OpenToOrdinary(g) == g.exclusiveHost = None /\ ~HasExclusiveWaiters(g)

MayOwnBusyHost(g) == g.exclusiveHost = None /\ ~HasExclusiveWaiters(g)

MayOwn(g) == g.exclusiveHost = None /\ ~HasExclusiveWaiters(g) /\ HostIdle(g)

-----------------------------------------------------------------------------
(* Handing over.                                                           *)

\* An ordinary call of model m is admitted.
Admit(g, m, c) == [g EXCEPT !.inFlight[m] = @ + 1, !.state[c] = "admitted"]

Own(g, c) == [Admit(g, ModelOf[c], c) EXCEPT !.exclusiveHost = ModelOf[c]]

AdmitNextLocalWaiter(g, m) ==
    IF OpenToOrdinary(g) /\ g.waitQueues[m] # <<>>
    THEN [Admit(g, m, Head(g.waitQueues[m])) EXCEPT !.waitQueues[m] = Tail(@)]
    ELSE g

Room(g, m) ==
    IF Len(g.waitQueues[m]) <= MaxInflight - g.inFlight[m]
    THEN Len(g.waitQueues[m]) ELSE MaxInflight - g.inFlight[m]

\* The waiters of every model, up to its semaphore.
AdmitWaiters(g) ==
    [g EXCEPT
        !.inFlight = [m \in Model |-> @[m] + Room(g, m)],
        !.waitQueues = [m \in Model |-> SubSeq(@[m], Room(g, m) + 1, Len(@[m]))],
        !.state = [c \in Call |->
            IF \E m \in Model : \E i \in 1..Room(g, m) : g.waitQueues[m][i] = c
            THEN "admitted" ELSE @[c]]]

\* An idle host goes to an exclusive waiter first.
DrainHost(g) ==
    IF g.exclusiveHost # None \/ ~HostIdle(g)
    THEN g
    ELSE IF HasExclusiveWaiters(g)
         THEN [Own(g, Head(g.exclusiveWaitQueue))
                  EXCEPT !.exclusiveWaitQueue = Tail(@)]
         ELSE AdmitWaiters(g)

-----------------------------------------------------------------------------
(* Arrivals.                                                               *)

Acquire(c) ==
    LET m == ModelOf[c] IN
    /\ gate.state[c] = "new"
    /\ gate' = IF OpenToOrdinary(gate) /\ gate.inFlight[m] < MaxInflight
               THEN Admit(gate, m, c)
               ELSE [gate EXCEPT !.waitQueues[m] = Append(@, c),
                                 !.state[c] = "waiting"]

AcquireExclusive(c) ==
    /\ gate.state[c] = "new"
    /\ gate' = IF MayOwn(gate)
               THEN Own(gate, c)
               ELSE [gate EXCEPT !.exclusiveWaitQueue = Append(@, c),
                                 !.state[c] = "waiting"]

Track(c) ==
    /\ gate.state[c] = "new"
    /\ gate' = [gate EXCEPT !.trackedInFlight[ModelOf[c]] = @ + 1,
                            !.state[c] = "admitted"]

-----------------------------------------------------------------------------
(* Departures.  The function that releases has an effect only once.        *)

LeaveKeepingSlot(g, c) == [g EXCEPT !.state[c] = "ended"]

Leave(g, c) == [g EXCEPT !.inFlight[ModelOf[c]] = @ - 1, !.state[c] = "ended"]

ReleaseSameModelOnly(c) ==
    /\ gate.state[c] = "admitted"
    /\ gate' = AdmitNextLocalWaiter(Leave(gate, c), ModelOf[c])

Release(c) ==
    /\ gate.state[c] = "admitted"
    /\ gate' = DrainHost(AdmitNextLocalWaiter(Leave(gate, c), ModelOf[c]))

ReleaseExclusive(c) ==
    /\ gate.state[c] = "admitted"
    /\ gate' = DrainHost([Leave(gate, c) EXCEPT
                              !.exclusiveHost = IF @ = ModelOf[c] THEN None ELSE @])

ReleaseTracked(c) ==
    /\ gate.state[c] = "admitted"
    /\ gate' = DrainHost([gate EXCEPT !.trackedInFlight[ModelOf[c]] = @ - 1,
                                      !.state[c] = "ended"])

\* indexOf, then splice; a waiter is in its queue.
Without(q, c) ==
    [i \in 1..Len(q) - 1 |-> IF \E j \in 1..i : q[j] = c THEN q[i + 1] ELSE q[i]]

\* An abort takes a waiter out of its queue.
Cancel(c) ==
    /\ gate.state[c] = "waiting"
    /\ gate' = [gate EXCEPT !.waitQueues[ModelOf[c]] = Without(@, c),
                            !.state[c] = "ended"]

CancelExclusive(c) ==
    /\ gate.state[c] = "waiting"
    /\ gate' = DrainHost([gate EXCEPT !.exclusiveWaitQueue = Without(@, c),
                                      !.state[c] = "ended"])

Init ==
    gate = [inFlight |-> [m \in Model |-> 0],
            trackedInFlight |-> [m \in Model |-> 0],
            waitQueues |-> [m \in Model |-> <<>>],
            exclusiveWaitQueue |-> <<>>,
            exclusiveHost |-> None,
            state |-> [c \in Call |-> "new"]]

Next ==
    \/ \E c \in Ordinary : Acquire(c) \/ Release(c) \/ Cancel(c)
    \/ \E c \in Exclusive :
           AcquireExclusive(c) \/ ReleaseExclusive(c) \/ CancelExclusive(c)
    \/ \E c \in Tracked : Track(c) \/ ReleaseTracked(c)

Spec == Init /\ [][Next]_gate

\* Every caller releases what it was given, when its inference has ended or
\* timed out.
FairSpec ==
    /\ Spec
    /\ \A c \in Ordinary : WF_gate(Release(c))
    /\ \A c \in Exclusive : WF_gate(ReleaseExclusive(c))
    /\ \A c \in Tracked : WF_gate(ReleaseTracked(c))

-----------------------------------------------------------------------------
(* Properties.                                                             *)

\* Every counter, queue and state has its type.
TypeOK == gate \in Gate

In(c, s) == gate.state[c] = s

\* The counters that decide count the calls that hold a slot, and never more
\* than the semaphore allows: no slot is leaked and none is freed twice, in any
\* order of handovers and aborts.
SlotsCountCalls ==
    \A m \in Model :
        /\ gate.inFlight[m] =
               Cardinality({c \in Ordinary \cup Exclusive :
                                ModelOf[c] = m /\ In(c, "admitted")})
        /\ gate.inFlight[m] <= MaxInflight
        /\ gate.trackedInFlight[m] =
               Cardinality({c \in Tracked : ModelOf[c] = m /\ In(c, "admitted")})

\* While a call owns the host, no other call that the gate admits runs on it,
\* of any model: nothing is evicted under it.  Tracked calls are not held up.
ExclusiveAlone ==
    \A x \in Exclusive : In(x, "admitted") =>
        /\ gate.exclusiveHost = ModelOf[x]
        /\ \A c \in Ordinary \cup Exclusive : In(c, "admitted") => c = x

\* Ordinary calls do not pass a waiting exclusive one, by arrival or handover.
ExclusiveNotPassed ==
    [][\A c \in Ordinary :
          ~In(c, "admitted") /\ In(c, "admitted")'
             => gate'.exclusiveWaitQueue = <<>>]_gate

\* Where a waiter can be found by the one that hands over.
Stands(g, c) ==
    \/ /\ c \in Ordinary
       /\ \E i \in 1..Len(g.waitQueues[ModelOf[c]]) :
              g.waitQueues[ModelOf[c]][i] = c
    \/ /\ c \in Exclusive
       /\ \E i \in 1..Len(g.exclusiveWaitQueue) : g.exclusiveWaitQueue[i] = c

\* No wake-up is lost for good: a call that waits stands in the queue where a
\* handover looks for it, and some call has still to release the host.
NobodyWaitsForNothing ==
    \A c \in Call : In(c, "waiting") =>
        /\ Stands(gate, c)
        /\ \E d \in Call : In(d, "admitted")

\* When arrivals stop, every waiter is admitted or aborted: no handover is
\* lost for good.
WaitersServed == \A c \in Call : In(c, "waiting") ~> ~In(c, "waiting")

-----------------------------------------------------------------------------
(* What a comment says, and the code does not do.                          *)

\* "No exclusive owner remains.  Admit ordinary per-model waiters up to their
\* existing semaphore limits" (core/src/services/hostGate.js:533): no call
\* waits for a slot that it could have.
NoIdleSlot ==
    OpenToOrdinary(gate) =>
        \A m \in Model :
            gate.waitQueues[m] # <<>> => gate.inFlight[m] >= MaxInflight
=============================================================================
