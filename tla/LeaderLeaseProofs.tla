-------------------------- MODULE LeaderLeaseProofs --------------------------
(***************************************************************************)
(* Theorems of LeaderLease: the types, that a live lease is never taken,   *)
(* and that one process serves while no lease has lapsed, for any numbers  *)
(* of processes, overlapping ticks and crashes.                            *)
(***************************************************************************)
EXTENDS LeaderLease, FiniteSetTheorems, TLAPS

Controllers == {"none", "joining", "joined", "stopping", "releasing", "stopped"}

\* The document is none or one.
OneLease ==
    \/ lease = {}
    \/ \E p \in Process, live \in BOOLEAN : lease = {[owner |-> p, live |-> live]}

Typed ==
    /\ OneLease
    /\ controller \in [Process -> Controllers]
    /\ active \in [Process -> BOOLEAN]
    /\ timers \in [Process -> 0..MaxTimers]
    /\ tick \in [Process -> [Tick -> TickState]]
    /\ crashes \in 0..MaxCrashes
    /\ lapsed \in BOOLEAN

-----------------------------------------------------------------------------
(* Types.                                                                  *)

LEMMA IdleTyped == Idle \in TickState
BY DEF TickState

LEMMA InitTyped == Init => Typed
<1> SUFFICES ASSUME Init PROVE Typed
    OBVIOUS
<1>1. tick \in [Process -> [Tick -> TickState]]
    BY IdleTyped DEF Init
<1>2. timers \in [Process -> 0..MaxTimers] /\ crashes \in 0..MaxCrashes
    BY LeaderConstants DEF Init
<1> QED
    BY <1>1, <1>2 DEF Init, Typed, OneLease, Controllers

\* The record of a tick that goes on, and of one that ends.
LEMMA GotoTyped ==
    ASSUME Typed, NEW p \in Process, NEW k \in Tick,
           NEW pc \in {"inserting", "acquired", "starting", "refused"}, Goto(p, k, pc)
    PROVE  tick' \in [Process -> [Tick -> TickState]]
<1>1. At(pc) \in TickState
    BY DEF At, TickState
<1> QED
    BY <1>1 DEF Typed, Goto

LEMMA EndTyped ==
    ASSUME Typed, NEW p \in Process, NEW k \in Tick, End(p, k)
    PROVE  /\ tick' \in [Process -> [Tick -> TickState]]
           /\ controller' \in [Process -> Controllers]
BY IdleTyped DEF Typed, End, Controllers

LEMMA SentTyped ==
    ASSUME Typed, NEW p \in Process, NEW k \in Tick,
           tick' = [tick EXCEPT ![p][k] = Sent]
    PROVE  tick' \in [Process -> [Tick -> TickState]]
<1>1. Sent \in TickState
    BY DEF Sent, TickState
<1> QED
    BY <1>1 DEF Typed

LEMMA StopDaemonTyped ==
    ASSUME Typed, NEW p \in Process, StopDaemon(p)
    PROVE  timers' \in [Process -> 0..MaxTimers]
BY LeaderConstants DEF Typed, StopDaemon

LEMMA HeldTyped == \A p \in Process : lease' = Held(p) => OneLease'
BY DEF Held, OneLease

\* What Typed says of the document, in the terms the steps use.
LEMMA LeaseFacts ==
    ASSUME Typed, NEW l \in lease
    PROVE  /\ l.owner \in Process /\ l.live \in BOOLEAN
           /\ l = [owner |-> l.owner, live |-> l.live]
           /\ \A m \in lease : m = l
<1>1. PICK p \in Process, b \in BOOLEAN : lease = {[owner |-> p, live |-> b]}
    BY DEF Typed, OneLease
<1>2. l = [owner |-> p, live |-> b]
    BY <1>1
<1> QED
    BY <1>1, <1>2

LEMMA HeldIsOwned ==
    ASSUME NEW p, lease' = Held(p)
    PROVE  /\ \E x \in lease' : x.owner = p
           /\ \A x \in lease' : x.owner = p /\ x.live
<1>1. lease' = {[owner |-> p, live |-> TRUE]}
    BY DEF Held
<1> QED
    BY <1>1

LEMMA KeepsTyped == Typed /\ [Next]_vars => Typed'
<1> SUFFICES ASSUME Typed, [Next]_vars PROVE Typed'
    OBVIOUS
<1>1. ASSUME NEW p \in Process, NEW k \in Tick, StartSingletonDaemon(p, k) PROVE Typed'
    BY <1>1, SentTyped DEF StartSingletonDaemon, Typed, OneLease, Controllers
<1>2. ASSUME NEW p \in Process, NEW k \in Tick, TickBegin(p, k) PROVE Typed'
    BY <1>2, SentTyped DEF TickBegin, Typed, OneLease
<1>3. ASSUME NEW p \in Process, NEW k \in Tick, Renew(p, k) PROVE Typed'
    <2>1. tick' \in [Process -> [Tick -> TickState]]
        BY <1>3, GotoTyped DEF Renew
    <2>2. OneLease'
        BY <1>3, HeldTyped DEF Renew, Typed, OneLease
    <2> QED
        BY <1>3, <2>1, <2>2 DEF Renew, Typed
<1>4. ASSUME NEW p \in Process, NEW k \in Tick, Insert(p, k) PROVE Typed'
    <2>1. tick' \in [Process -> [Tick -> TickState]]
        BY <1>4, GotoTyped DEF Insert
    <2>2. OneLease'
        BY <1>4, HeldTyped DEF Insert, Typed, OneLease
    <2> QED
        BY <1>4, <2>1, <2>2 DEF Insert, Typed
<1>5. ASSUME NEW p \in Process, NEW k \in Tick, TickFails(p, k) PROVE Typed'
    BY <1>5, GotoTyped DEF TickFails, Typed, OneLease
<1>6. ASSUME NEW p \in Process, NEW k \in Tick, KeepRunning(p, k) PROVE Typed'
    BY <1>6, EndTyped DEF KeepRunning, Typed, OneLease
<1>7. ASSUME NEW p \in Process, NEW k \in Tick, StartDaemon(p, k) PROVE Typed'
    <2>1. timers' \in [Process -> 0..MaxTimers]
        BY <1>7, LeaderConstants DEF StartDaemon, Typed
    <2> QED
        BY <1>7, <2>1, GotoTyped DEF StartDaemon, Typed, OneLease
<1>8. ASSUME NEW p \in Process, NEW k \in Tick, Promote(p, k) PROVE Typed'
    BY <1>8, EndTyped DEF Promote, Typed, OneLease
<1>9. ASSUME NEW p \in Process, NEW k \in Tick, Demote(p, k) PROVE Typed'
    <2>1. timers' \in [Process -> 0..MaxTimers] /\ active' \in [Process -> BOOLEAN]
        BY <1>9, StopDaemonTyped DEF Demote, Typed
    <2> QED
        BY <1>9, <2>1, EndTyped DEF Demote, Typed, OneLease
<1>10. ASSUME NEW p \in Process, Stop(p) PROVE Typed'
    <2>1. timers' \in [Process -> 0..MaxTimers]
        BY <1>10, StopDaemonTyped DEF Stop, Typed
    <2> QED
        BY <1>10, <2>1 DEF Stop, Typed, OneLease, Controllers
<1>11. ASSUME NEW p \in Process, StopAwaited(p) PROVE Typed'
    BY <1>11 DEF StopAwaited, Typed, OneLease, Controllers
<1>12. ASSUME NEW p \in Process, ReleaseLease(p) PROVE Typed'
    <2>1. lease' = {} \/ lease' = lease
        BY <1>12 DEF ReleaseLease, Typed, OneLease
    <2> QED
        BY <1>12, <2>1 DEF ReleaseLease, Typed, OneLease, Controllers
<1>13. ASSUME NEW p \in Process, Crash(p) PROVE Typed'
    <2>1. tick' \in [Process -> [Tick -> TickState]]
        BY <1>13, IdleTyped DEF Crash, Typed
    <2>2. timers' \in [Process -> 0..MaxTimers] /\ crashes' \in 0..MaxCrashes
        BY <1>13, LeaderConstants DEF Crash, Typed
    <2> QED
        BY <1>13, <2>1, <2>2 DEF Crash, Typed, OneLease, Controllers
<1>14. CASE Deadline
    <2>1. PICK l \in lease : lease' = {[l EXCEPT !.live = FALSE]}
        BY <1>14 DEF Deadline
    <2>2. lease' = {[owner |-> l.owner, live |-> FALSE]}
        BY <2>1, LeaseFacts
    <2>3. OneLease'
        BY <2>2, LeaseFacts DEF OneLease
    <2> QED
        BY <1>14, <2>3 DEF Deadline, Typed
<1>15. CASE UNCHANGED vars
    BY <1>15 DEF vars, Typed, OneLease
<1> QED
    BY <1>1, <1>2, <1>3, <1>4, <1>5, <1>6, <1>7, <1>8, <1>9, <1>10, <1>11, <1>12,
       <1>13, <1>14, <1>15 DEF Next, TickStep, StopStep

\* The lease, the ticks and the timers of every process have their types.
THEOREM LeaderTypes == Spec => []Typed
BY InitTyped, KeepsTyped, PTL DEF Spec

LEMMA TypedIsTypeOK == Typed => TypeOK
<1> SUFFICES ASSUME Typed PROVE TypeOK
    OBVIOUS
<1>1. lease \subseteq [owner : Process, live : BOOLEAN]
    <2>1. ASSUME NEW l \in lease PROVE l \in [owner : Process, live : BOOLEAN]
        BY LeaseFacts
    <2> QED
        BY <2>1
<1>2. Cardinality(lease) <= 1
    <2>1. CASE lease = {}
        BY <2>1, FS_EmptySet
    <2>2. ASSUME NEW l \in lease PROVE Cardinality(lease) <= 1
        <3>1. lease = {l}
            BY <2>2, LeaseFacts
        <3> QED
            BY <3>1, FS_Singleton
    <2> QED
        BY <2>1, <2>2
<1> QED
    BY <1>1, <1>2 DEF Typed, TypeOK, Controllers

\* Every variable has its type, and the document is one, for any processes and
\* any overlap of their ticks.
THEOREM LeaderTyped == Spec => []TypeOK
BY LeaderTypes, TypedIsTypeOK, PTL

-----------------------------------------------------------------------------
(* The lease.                                                              *)

\* A tick takes a lease only from its own process or when it has lapsed.
LEMMA RenewKeepsLive ==
    ASSUME Typed, NEW p \in Process, NEW k \in Tick, Renew(p, k), NEW l \in lease, l.live
    PROVE  \E x \in lease' : x.owner = l.owner
<1>1. CASE \E m \in lease : Renewable(p, tick[p][k], m)
    <2>1. l.owner = p
        BY <1>1, LeaseFacts DEF Renewable
    <2>2. lease' = Held(p)
        BY <1>1 DEF Renew
    <2> QED
        BY <2>1, <2>2, HeldIsOwned
<1>2. CASE ~\E m \in lease : Renewable(p, tick[p][k], m)
    BY <1>2 DEF Renew
<1> QED
    BY <1>1, <1>2

LEMMA StepKeepsLive ==
    ASSUME Typed, [Next]_vars, NEW l \in lease, l.live
    PROVE  \/ \E x \in lease' : x.owner = l.owner
           \/ controller[l.owner] = "releasing"
<1>1. ASSUME NEW p \in Process, NEW k \in Tick, Renew(p, k)
      PROVE  \E x \in lease' : x.owner = l.owner
    BY <1>1, RenewKeepsLive
<1>2. ASSUME NEW p \in Process, NEW k \in Tick, Insert(p, k) PROVE lease' = lease
    BY <1>2 DEF Insert
<1>3. ASSUME NEW p \in Process, ReleaseLease(p)
      PROVE  lease' = lease \/ l \in lease' \/ controller[l.owner] = "releasing"
    BY <1>3 DEF ReleaseLease
<1>4. CASE Deadline
    <2>1. lease' = {[l EXCEPT !.live = FALSE]}
        BY <1>4, LeaseFacts DEF Deadline
    <2>2. [l EXCEPT !.live = FALSE].owner = l.owner
        BY LeaseFacts
    <2> QED
        BY <2>1, <2>2
<1>5. ASSUME NEW p \in Process, NEW k \in Tick,
             \/ StartSingletonDaemon(p, k) \/ TickBegin(p, k) \/ TickFails(p, k)
             \/ KeepRunning(p, k) \/ StartDaemon(p, k) \/ Promote(p, k) \/ Demote(p, k)
      PROVE  lease' = lease
    BY <1>5 DEF StartSingletonDaemon, TickBegin, TickFails, KeepRunning, StartDaemon,
                Promote, Demote
<1>6. ASSUME NEW p \in Process, Stop(p) \/ StopAwaited(p) \/ Crash(p) PROVE lease' = lease
    BY <1>6 DEF Stop, StopAwaited, Crash
<1>7. CASE UNCHANGED vars
    BY <1>7 DEF vars
<1> QED
    BY <1>1, <1>2, <1>3, <1>4, <1>5, <1>6, <1>7 DEF Next, TickStep, StopStep

\* A live lease of acquireOrRenewLease changes hands only when its owner gives
\* it up in stop.
THEOREM LiveLeasesKept == Spec => LiveLeaseKept
<1> DEFINE Kept == \A l \in lease :
          l.live => \/ \E x \in lease' : x.owner = l.owner
                    \/ controller[l.owner] = "releasing"
<1>1. ASSUME Typed, [Next]_vars PROVE Kept
    BY <1>1, StepKeepsLive
<1>2. Typed /\ [Next]_vars => [Kept]_vars
    BY <1>1
<1> QED
    BY <1>2, LeaderTypes, PTL DEF Spec, LiveLeaseKept

-----------------------------------------------------------------------------
(* One serving process.                                                    *)

\* A process that serves, or is about to, owns the lease: its daemon has run
\* since a tick got the lease, and a lease that has not lapsed leaves it in
\* stop only.
Getting(p) ==
    /\ controller[p] \in {"joining", "joined"}
    /\ \/ timers[p] > 0
       \/ \E k \in Tick : tick[p][k].pc \in {"acquired", "starting"}

\* A process that is not running has no daemon and no tick.
NotRunningIsClean ==
    \A p \in Process : controller[p] = "none" =>
        timers[p] = 0 /\ \A k \in Tick : tick[p][k] = Idle

NoneLapsed ==
    ~lapsed =>
        /\ \A l \in lease : l.live
        /\ \A p \in Process, k \in Tick :
              tick[p][k].pc = "renewing" => ~tick[p][k].lapsed

GettersOwn == ~lapsed => \A p \in Process : Getting(p) => Owns(p)

ServingInv == Typed /\ NotRunningIsClean /\ NoneLapsed /\ GettersOwn

LEMMA InitServing == Init => ServingInv
<1> SUFFICES ASSUME Init PROVE ServingInv
    OBVIOUS
<1>1. NotRunningIsClean /\ NoneLapsed
    BY DEF Init, NotRunningIsClean, NoneLapsed, Idle
<1>2. GettersOwn
    BY DEF Init, GettersOwn, Getting, Idle
<1> QED
    BY <1>1, <1>2, InitTyped DEF ServingInv

\* What a step does to the tick it is a step of.
LEMMA TickNow ==
    ASSUME Typed, NEW p \in Process, NEW k \in Tick, NEW r,
           tick' = [tick EXCEPT ![p][k] = r]
    PROVE  /\ tick'[p][k] = r
           /\ \A q \in Process, m \in Tick : q # p \/ m # k => tick'[q][m] = tick[q][m]
BY DEF Typed

\* A step that lets no process get the lease, starts no tick with an old clock
\* and leaves the lease to its owner.
Harmless ==
    /\ UNCHANGED <<lease, lapsed>>
    /\ \A p \in Process : Getting(p)' => Getting(p)
    /\ \A p \in Process, k \in Tick :
          tick'[p][k].pc = "renewing" => tick'[p][k] = tick[p][k]

LEMMA HarmlessKeeps ==
    ASSUME ServingInv, Harmless
    PROVE  NoneLapsed' /\ GettersOwn'
<1>1. NoneLapsed'
    BY DEF ServingInv, NoneLapsed, Harmless
<1>2. GettersOwn'
    BY DEF ServingInv, GettersOwn, Harmless, Owns
<1> QED
    BY <1>1, <1>2

\* A tick is in flight only in a process that runs.
LEMMA TickIsRunning ==
    ASSUME ServingInv, NEW p \in Process, NEW k \in Tick, tick[p][k].pc # "idle"
    PROVE  controller[p] # "none"
BY DEF ServingInv, NotRunningIsClean, Idle

ServingParts == NotRunningIsClean /\ NoneLapsed /\ GettersOwn

\* A tick gets the lease, and no other process had it.
LEMMA GetsLease ==
    ASSUME ServingInv, NEW p \in Process, NEW k \in Tick, tick[p][k].pc # "idle",
           lease' = Held(p), Goto(p, k, "acquired"),
           UNCHANGED <<controller, timers, lapsed>>,
           ~lapsed => \A q \in Process : Owns(q) => q = p
    PROVE  ServingParts'
<1>0. tick' = [tick EXCEPT ![p][k] = At("acquired")] /\ Typed
    BY DEF Goto, ServingInv
<1>1. /\ tick'[p][k] = At("acquired")
      /\ \A q \in Process, m \in Tick : q # p \/ m # k => tick'[q][m] = tick[q][m]
    BY <1>0 DEF Typed
<1>2. At("acquired").pc = "acquired"
    BY DEF At
<1>3. NotRunningIsClean'
    BY <1>1, TickIsRunning DEF ServingInv, NotRunningIsClean
<1>4. NoneLapsed'
    BY <1>1, <1>2, HeldIsOwned DEF ServingInv, NoneLapsed
<1>5. ASSUME ~lapsed, NEW q \in Process, Getting(q)' PROVE Owns(q)'
    <2>1. CASE q = p
        BY <2>1, HeldIsOwned DEF Owns
    <2>2. CASE q # p
        <3>1. Getting(q)
            BY <1>1, <1>5, <2>2 DEF Getting
        <3> QED
            BY <1>5, <2>2, <3>1 DEF ServingInv, GettersOwn
    <2> QED
        BY <2>1, <2>2
<1> QED
    BY <1>3, <1>4, <1>5 DEF GettersOwn, ServingParts

\* A tick goes on or ends without touching the lease: its process serves
\* afterwards only if the tick had the lease or it served before.
LEMMA TickGoesOn ==
    ASSUME ServingInv, NEW p \in Process, NEW k \in Tick, NEW r,
           tick[p][k].pc # "idle", tick' = [tick EXCEPT ![p][k] = r], r.pc # "renewing",
           r.pc \in {"acquired", "starting"} => tick[p][k].pc \in {"acquired", "starting"},
           UNCHANGED <<lease, lapsed>>,
           \A q \in Process : q # p => timers'[q] = timers[q] /\ controller'[q] = controller[q],
           \/ controller'[p] = controller[p]
           \/ controller[p] = "joining" /\ controller'[p] = "joined",
           \/ tick[p][k].pc = "acquired"
           \/ timers'[p] > 0 => timers[p] > 0
    PROVE  ServingParts'
<1>1. /\ tick'[p][k] = r
      /\ \A q \in Process, m \in Tick : q # p \/ m # k => tick'[q][m] = tick[q][m]
    BY TickNow DEF ServingInv
<1>2. NotRunningIsClean'
    BY <1>1, TickIsRunning DEF ServingInv, NotRunningIsClean
<1>3. ASSUME NEW q \in Process, Getting(q)' PROVE Getting(q)
    <2>1. CASE q # p
        BY <1>1, <1>3, <2>1 DEF Getting
    <2>2. CASE q = p
        <3>1. controller[p] \in {"joining", "joined"}
            BY <1>3, <2>2 DEF Getting
        <3>2. CASE tick[p][k].pc \in {"acquired", "starting"}
            BY <2>2, <3>1, <3>2 DEF Getting
        <3>3. CASE tick[p][k].pc \notin {"acquired", "starting"}
            BY <1>1, <1>3, <2>2, <3>1, <3>3 DEF Getting
        <3> QED
            BY <3>2, <3>3
    <2> QED
        BY <2>1, <2>2
<1>4. Harmless
    BY <1>1, <1>3 DEF Harmless
<1> QED
    BY <1>2, <1>4, HarmlessKeeps DEF ServingParts

\* A process stops, is stopped or ends.
LEMMA ProcessLeaves ==
    ASSUME ServingInv, NEW p \in Process,
           controller'[p] \notin {"joining", "joined"},
           controller'[p] = "none" => timers'[p] = 0 /\ \A k \in Tick : tick'[p][k] = Idle,
           \A q \in Process : q # p =>
               /\ timers'[q] = timers[q] /\ controller'[q] = controller[q]
               /\ tick'[q] = tick[q],
           \A k \in Tick : tick'[p][k] = tick[p][k] \/ tick'[p][k] = Idle,
           UNCHANGED lapsed,
           lease' = lease \/ lease' = {l \in lease : l.owner # p}
    PROVE  ServingParts'
<1>1. NotRunningIsClean'
    BY DEF ServingInv, NotRunningIsClean
<1>2. NoneLapsed'
    BY DEF ServingInv, NoneLapsed, Idle
<1>3. ASSUME ~lapsed, NEW q \in Process, Getting(q)' PROVE Owns(q)'
    <2>1. q # p
        BY <1>3 DEF Getting
    <2>2. Getting(q)
        BY <1>3, <2>1 DEF Getting
    <2>3. PICK l \in lease : l.owner = q
        BY <1>3, <2>2 DEF ServingInv, GettersOwn, Owns
    <2>4. l \in lease'
        BY <2>1, <2>3
    <2> QED
        BY <2>3, <2>4 DEF Owns
<1> QED
    BY <1>1, <1>2, <1>3 DEF GettersOwn, ServingParts

LEMMA StepServing == ServingInv /\ [Next]_vars => ServingInv'
<1> SUFFICES ASSUME ServingInv, [Next]_vars PROVE ServingInv'
    OBVIOUS
<1>0. Typed /\ Typed'
    BY KeepsTyped DEF ServingInv
<1>1. ASSUME NEW p \in Process, NEW k \in Tick,
             StartSingletonDaemon(p, k) \/ TickBegin(p, k)
      PROVE  ServingParts'
    <2>1. /\ tick'[p][k] = Sent
          /\ \A q \in Process, m \in Tick : q # p \/ m # k => tick'[q][m] = tick[q][m]
        BY <1>0, <1>1, TickNow DEF StartSingletonDaemon, TickBegin
    <2>2. Sent.pc = "renewing" /\ Sent.lapsed = (\E l \in lease : ~l.live)
        BY DEF Sent
    <2>3. /\ UNCHANGED <<lease, timers, lapsed>>
          /\ controller'[p] # "none"
          /\ \A q \in Process : q # p => controller'[q] = controller[q]
          /\ controller[p] = "none" \/ controller'[p] = controller[p]
        BY <1>0, <1>1 DEF StartSingletonDaemon, TickBegin, Typed
    <2>4. NotRunningIsClean'
        BY <2>1, <2>3 DEF ServingInv, NotRunningIsClean
    <2>5. NoneLapsed'
        BY <2>1, <2>2, <2>3 DEF ServingInv, NoneLapsed
    <2>6. ASSUME NEW q \in Process, Getting(q)' PROVE Getting(q)
        <3>1. timers[q] > 0 \/ \E m \in Tick : tick[q][m].pc \in {"acquired", "starting"}
            BY <2>1, <2>2, <2>3, <2>6 DEF Getting
        <3>2. controller[q] # "none"
            BY <3>1, <1>0 DEF ServingInv, NotRunningIsClean, Idle, Typed
        <3> QED
            BY <2>3, <2>6, <3>1, <3>2 DEF Getting
    <2>7. GettersOwn'
        BY <2>3, <2>6 DEF ServingInv, GettersOwn, Owns
    <2> QED
        BY <2>4, <2>5, <2>7 DEF ServingParts
<1>2. ASSUME NEW p \in Process, NEW k \in Tick, Renew(p, k) PROVE ServingParts'
    <2>1. CASE \E l \in lease : Renewable(p, tick[p][k], l)
        <3>1. PICK l \in lease : Renewable(p, tick[p][k], l)
            BY <2>1
        <3>2. ~lapsed => l.owner = p
            BY <1>2, <3>1 DEF Renew, Renewable, ServingInv, NoneLapsed
        <3>3. ~lapsed => \A q \in Process : Owns(q) => q = p
            BY <1>0, <3>2, LeaseFacts DEF Owns
        <3>4. /\ tick[p][k].pc # "idle" /\ lease' = Held(p) /\ Goto(p, k, "acquired")
              /\ UNCHANGED <<controller, timers, lapsed>>
            BY <1>2, <2>1 DEF Renew
        <3> QED
            BY <3>3, <3>4, GetsLease
    <2>2. CASE ~\E l \in lease : Renewable(p, tick[p][k], l)
        <3>1. /\ tick[p][k].pc # "idle" /\ tick' = [tick EXCEPT ![p][k] = At("inserting")]
              /\ UNCHANGED <<lease, controller, timers, lapsed>>
            BY <1>2, <2>2 DEF Renew, Goto
        <3>2. At("inserting").pc = "inserting"
            BY DEF At
        <3> QED
            BY <3>1, <3>2, TickGoesOn
    <2> QED
        BY <2>1, <2>2
<1>3. ASSUME NEW p \in Process, NEW k \in Tick, Insert(p, k) PROVE ServingParts'
    <2>1. CASE lease = {}
        <3>1. /\ tick[p][k].pc # "idle" /\ lease' = Held(p) /\ Goto(p, k, "acquired")
              /\ UNCHANGED <<controller, timers, lapsed>>
            BY <1>3, <2>1 DEF Insert
        <3>2. \A q \in Process : ~Owns(q)
            BY <2>1 DEF Owns
        <3> QED
            BY <3>1, <3>2, GetsLease
    <2>2. CASE lease # {}
        <3>1. /\ tick[p][k].pc # "idle" /\ tick' = [tick EXCEPT ![p][k] = At("refused")]
              /\ UNCHANGED <<lease, controller, timers, lapsed>>
            BY <1>3, <2>2 DEF Insert, Goto
        <3>2. At("refused").pc = "refused"
            BY DEF At
        <3> QED
            BY <3>1, <3>2, TickGoesOn
    <2> QED
        BY <2>1, <2>2
<1>4. ASSUME NEW p \in Process, NEW k \in Tick, TickFails(p, k) PROVE ServingParts'
    <2>1. /\ tick[p][k].pc # "idle" /\ tick' = [tick EXCEPT ![p][k] = At("refused")]
          /\ UNCHANGED <<lease, controller, timers, lapsed>>
        BY <1>4 DEF TickFails, Goto
    <2>2. At("refused").pc = "refused"
        BY DEF At
    <2> QED
        BY <2>1, <2>2, TickGoesOn
<1>5. ASSUME NEW p \in Process, NEW k \in Tick, StartDaemon(p, k) PROVE ServingParts'
    <2>1. /\ tick[p][k].pc = "acquired" /\ tick' = [tick EXCEPT ![p][k] = At("starting")]
          /\ UNCHANGED <<lease, controller, lapsed>>
          /\ \A q \in Process : q # p => timers'[q] = timers[q]
        BY <1>0, <1>5 DEF StartDaemon, Goto, Typed
    <2>2. At("starting").pc = "starting"
        BY DEF At
    <2> QED
        BY <2>1, <2>2, TickGoesOn
<1>6. ASSUME NEW p \in Process, NEW k \in Tick,
             KeepRunning(p, k) \/ Promote(p, k) \/ Demote(p, k)
      PROVE  ServingParts'
    <2>1. /\ tick[p][k].pc # "idle" /\ tick' = [tick EXCEPT ![p][k] = Idle]
          /\ UNCHANGED <<lease, lapsed>>
        BY <1>6 DEF KeepRunning, Promote, Demote, End
    <2>2. End(p, k)
        BY <1>6 DEF KeepRunning, Promote, Demote
    <2>3. /\ \A q \in Process : q # p => controller'[q] = controller[q]
          /\ \/ controller'[p] = controller[p]
             \/ controller[p] = "joining" /\ controller'[p] = "joined"
        BY <1>0, <2>2 DEF End, Typed
    <2>4. UNCHANGED timers \/ StopDaemon(p)
        BY <1>6 DEF KeepRunning, Promote, Demote
    <2>5. /\ \A q \in Process : q # p => timers'[q] = timers[q]
          /\ timers'[p] > 0 => timers[p] > 0
        BY <1>0, <2>4, LeaderConstants DEF StopDaemon, Typed
    <2>6. Idle.pc = "idle"
        BY DEF Idle
    <2> QED
        BY <2>1, <2>3, <2>5, <2>6, TickGoesOn
<1>7. ASSUME NEW p \in Process, Stop(p) PROVE ServingParts'
    <2>1. /\ controller'[p] = "stopping" /\ UNCHANGED <<lease, tick, lapsed>>
          /\ \A q \in Process : q # p => controller'[q] = controller[q]
        BY <1>0, <1>7 DEF Stop, Typed
    <2>2. \A q \in Process : q # p => timers'[q] = timers[q]
        BY <1>0, <1>7 DEF Stop, StopDaemon, Typed
    <2> QED
        BY <2>1, <2>2, ProcessLeaves
<1>8. ASSUME NEW p \in Process, StopAwaited(p) \/ ReleaseLease(p) PROVE ServingParts'
    <2>1. /\ controller'[p] \in {"releasing", "stopped"} /\ UNCHANGED <<timers, tick, lapsed>>
          /\ \A q \in Process : q # p => controller'[q] = controller[q]
          /\ lease' = lease \/ lease' = {l \in lease : l.owner # p}
        BY <1>0, <1>8 DEF StopAwaited, ReleaseLease, Typed
    <2> QED
        BY <2>1, ProcessLeaves
<1>9. ASSUME NEW p \in Process, Crash(p) PROVE ServingParts'
    <2>1. /\ controller'[p] = "none" /\ timers'[p] = 0 /\ UNCHANGED <<lease, lapsed>>
          /\ \A k \in Tick : tick'[p][k] = Idle
          /\ \A q \in Process : q # p =>
                /\ timers'[q] = timers[q] /\ controller'[q] = controller[q]
                /\ tick'[q] = tick[q]
        BY <1>0, <1>9 DEF Crash, Typed
    <2> QED
        BY <2>1, ProcessLeaves
<1>10. CASE Deadline
    <2>1. lapsed' = TRUE /\ UNCHANGED <<controller, timers, tick>>
        BY <1>10 DEF Deadline
    <2>2. NotRunningIsClean'
        BY <2>1 DEF ServingInv, NotRunningIsClean
    <2> QED
        BY <1>0, <2>1, <2>2 DEF ServingInv, NoneLapsed, GettersOwn
<1>11. CASE UNCHANGED vars
    <2>1. UNCHANGED <<lease, controller, timers, tick, lapsed>>
        BY <1>11 DEF vars
    <2>2. NotRunningIsClean'
        BY <2>1 DEF ServingInv, NotRunningIsClean
    <2>3. Harmless
        BY <2>1 DEF Harmless, Getting
    <2> QED
        BY <1>0, <2>2, <2>3, HarmlessKeeps DEF ServingInv
<1> QED
    BY <1>0, <1>1, <1>2, <1>3, <1>4, <1>5, <1>6, <1>7, <1>8, <1>9, <1>10, <1>11
    DEF Next, TickStep, StopStep, ServingInv, ServingParts

\* What a serving process knows of the lease, in every state.
THEOREM ServingInvariant == Spec => []ServingInv
BY InitServing, StepServing, PTL DEF Spec

\* While renewals come in time, startSingletonDaemon runs the daemon in one of
\* the processes not told to stop, for any number of overlapping ticks.
THEOREM OneServes == Spec => []SingletonUnlessLapsed
<1>1. ASSUME ServingInv, ~lapsed, NEW p \in Process, NEW q \in Process,
             Serving(p), Serving(q)
      PROVE  p = q
    <2>1. Owns(p) /\ Owns(q)
        BY <1>1 DEF ServingInv, GettersOwn, Getting, Serving
    <2> QED
        BY <1>1, <2>1, LeaseFacts DEF Owns, ServingInv
<1>2. ServingInv => SingletonUnlessLapsed
    BY <1>1 DEF SingletonUnlessLapsed
<1> QED
    BY <1>2, ServingInvariant, PTL
=============================================================================
