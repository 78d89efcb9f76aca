----------------------------- MODULE LeaderLease -----------------------------
(***************************************************************************)
(* The leader lease of Core (core/src/services/leaderLeaseService.js).     *)
(*                                                                         *)
(* Several Core processes share one MongoDB.  Each background daemon must  *)
(* run in one of them: a process renews or takes the daemon's lease        *)
(* document on a timer, starts the daemon when it got the lease and stops  *)
(* it when it did not.  Ticks of the timer may overlap, because a tick is  *)
(* not awaited by the next one, and one may be in flight while the         *)
(* controller is stopped.                                                  *)
(*                                                                         *)
(* The module describes one daemon; daemons have separate documents.  The  *)
(* lease is live or lapsed, as in RuntimeCoordination.                     *)
(***************************************************************************)
EXTENDS Integers, FiniteSets

CONSTANTS
    Process,   \* Core processes, each with its ownerId
    Tick,      \* bound: ticks of one process that overlap
    MaxTimers, \* bound: runs of the daemon one process has started
    MaxCrashes \* bound: crashes in a behaviour

ASSUME LeaderConstants == MaxTimers \in Nat \ {0} /\ MaxCrashes \in Nat

VARIABLES
    lease,      \* {} or the one document: its owner, and whether it is live
    controller, \* the state of each process's singleton controller
    active,     \* the variable `active` of the controller
    timers,     \* runs of the daemon's start() that no stop() has ended
    tick,       \* the ticks in flight
    crashes,
    lapsed      \* history: some lease has lapsed

vars == <<lease, controller, active, timers, tick, crashes, lapsed>>

Idle == [pc |-> "idle"]
At(pc) == [pc |-> pc]
TickState ==
    {Idle} \cup [pc : {"inserting", "acquired", "starting", "refused"}]
           \cup [pc : {"renewing"}, lapsed : BOOLEAN]

Owns(p) == \E l \in lease : l.owner = p
Held(p) == {[owner |-> p, live |-> TRUE]}
Goto(p, k, pc) == tick' = [tick EXCEPT ![p][k] = At(pc)]

\* The first tick is awaited before the controller is returned.
End(p, k) ==
    /\ tick' = [tick EXCEPT ![p][k] = Idle]
    /\ controller' = [controller EXCEPT
                        ![p] = IF @ = "joining" THEN "joined" ELSE @]

\* stop() ends one run of the daemon: the timer its module remembers.
StopDaemon(p) == timers' = [timers EXCEPT ![p] = IF @ > 0 THEN @ - 1 ELSE 0]

-----------------------------------------------------------------------------
Sent == [pc |-> "renewing", lapsed |-> \E l \in lease : ~l.live]

StartSingletonDaemon(p, k) ==
    /\ controller[p] = "none"
    /\ controller' = [controller EXCEPT ![p] = "joining"]
    /\ tick' = [tick EXCEPT ![p][k] = Sent]
    /\ UNCHANGED <<lease, active, timers, crashes, lapsed>>

\* setInterval; a tick that finds the controller closed does nothing.
TickBegin(p, k) ==
    /\ controller[p] = "joined"
    /\ tick[p][k] = Idle
    /\ tick' = [tick EXCEPT ![p][k] = Sent]
    /\ UNCHANGED <<lease, controller, active, timers, crashes, lapsed>>

RenewableByOwnerOnly(p, call, l) == l.owner = p

RenewableByStaleClock(p, call, l) == l.owner = p \/ call.lapsed

\* $or: [{ ownerId }, { expiresAt: { $lte: now } }], now captured by the tick.
Renewable(p, call, l) == l.owner = p \/ (call.lapsed /\ ~l.live)

Renew(p, k) ==
    /\ tick[p][k].pc = "renewing"
    /\ IF \E l \in lease : Renewable(p, tick[p][k], l)
       THEN lease' = Held(p) /\ Goto(p, k, "acquired")
       ELSE lease' = lease /\ Goto(p, k, "inserting")
    /\ UNCHANGED <<controller, active, timers, crashes, lapsed>>

\* insertOne; a duplicate key means another owner.
Insert(p, k) ==
    /\ tick[p][k].pc = "inserting"
    /\ IF lease = {} THEN lease' = Held(p) /\ Goto(p, k, "acquired")
                     ELSE lease' = lease /\ Goto(p, k, "refused")
    /\ UNCHANGED <<controller, active, timers, crashes, lapsed>>

\* The operation or its answer is lost, or start() throws.
TickFails(p, k) ==
    /\ tick[p][k].pc \in {"renewing", "inserting", "acquired"}
    /\ Goto(p, k, "refused")
    /\ UNCHANGED <<lease, controller, active, timers, crashes, lapsed>>

KeepRunning(p, k) ==
    /\ tick[p][k].pc = "acquired"
    /\ active[p]
    /\ End(p, k)
    /\ UNCHANGED <<lease, active, timers, crashes, lapsed>>

\* active is set only after start() has been awaited.
StartDaemon(p, k) ==
    /\ tick[p][k].pc = "acquired"
    /\ ~active[p]
    /\ timers[p] < MaxTimers
    /\ timers' = [timers EXCEPT ![p] = @ + 1]
    /\ Goto(p, k, "starting")
    /\ UNCHANGED <<lease, controller, active, crashes, lapsed>>

Promote(p, k) ==
    /\ tick[p][k].pc = "starting"
    /\ active' = [active EXCEPT ![p] = TRUE]
    /\ End(p, k)
    /\ UNCHANGED <<lease, timers, crashes, lapsed>>

DemoteLogsOnly(p, k) ==
    /\ tick[p][k].pc = "refused"
    /\ End(p, k)
    /\ UNCHANGED <<lease, active, timers, crashes, lapsed>>

Demote(p, k) ==
    /\ tick[p][k].pc = "refused"
    /\ IF active[p]
       THEN active' = [active EXCEPT ![p] = FALSE] /\ StopDaemon(p)
       ELSE UNCHANGED <<active, timers>>
    /\ End(p, k)
    /\ UNCHANGED <<lease, crashes, lapsed>>

-----------------------------------------------------------------------------
(* stop() of the controller, three steps between its awaits.               *)

Stop(p) ==
    /\ controller[p] = "joined"
    /\ controller' = [controller EXCEPT ![p] = "stopping"]
    /\ IF active[p] THEN StopDaemon(p) ELSE UNCHANGED timers
    /\ UNCHANGED <<lease, active, tick, crashes, lapsed>>

StopAwaited(p) ==
    /\ controller[p] = "stopping"
    /\ controller' = [controller EXCEPT ![p] = "releasing"]
    /\ active' = [active EXCEPT ![p] = FALSE]
    /\ UNCHANGED <<lease, timers, tick, crashes, lapsed>>

ReleaseLeaseOfAnyone(p) ==
    /\ controller[p] = "releasing"
    /\ controller' = [controller EXCEPT ![p] = "stopped"]
    /\ lease' = {}
    /\ UNCHANGED <<active, timers, tick, crashes, lapsed>>

\* deleteOne({ _id, ownerId }); its failure is swallowed.
ReleaseLease(p) ==
    /\ controller[p] = "releasing"
    /\ controller' = [controller EXCEPT ![p] = "stopped"]
    /\ \/ lease' = {l \in lease : l.owner # p}
       \/ lease' = lease
    /\ UNCHANGED <<active, timers, tick, crashes, lapsed>>

\* The process ends, and may be started again under the same ownerId.
Crash(p) ==
    /\ controller[p] # "none"
    /\ crashes < MaxCrashes
    /\ crashes' = crashes + 1
    /\ controller' = [controller EXCEPT ![p] = "none"]
    /\ active' = [active EXCEPT ![p] = FALSE]
    /\ timers' = [timers EXCEPT ![p] = 0]
    /\ tick' = [tick EXCEPT ![p] = [k \in Tick |-> Idle]]
    /\ UNCHANGED <<lease, lapsed>>

Deadline ==
    /\ \E l \in lease : l.live /\ lease' = {[l EXCEPT !.live = FALSE]}
    /\ lapsed' = TRUE
    /\ UNCHANGED <<controller, active, timers, tick, crashes>>

-----------------------------------------------------------------------------
Init ==
    /\ lease = {}
    /\ controller = [p \in Process |-> "none"]
    /\ active = [p \in Process |-> FALSE]
    /\ timers = [p \in Process |-> 0]
    /\ tick = [p \in Process |-> [k \in Tick |-> Idle]]
    /\ crashes = 0
    /\ lapsed = FALSE

TickStep(p, k) ==
    \/ TickBegin(p, k)
    \/ Renew(p, k)
    \/ Insert(p, k)
    \/ TickFails(p, k)
    \/ KeepRunning(p, k)
    \/ StartDaemon(p, k)
    \/ Promote(p, k)
    \/ Demote(p, k)

StopStep(p) == Stop(p) \/ StopAwaited(p) \/ ReleaseLease(p)

Next ==
    \/ \E p \in Process, k \in Tick : StartSingletonDaemon(p, k)
    \/ \E p \in Process, k \in Tick : TickStep(p, k)
    \/ \E p \in Process : StopStep(p) \/ Crash(p)
    \/ Deadline

Spec == Init /\ [][Next]_vars

Gone(p) == controller[p] \in {"none", "stopped"}

\* The timer fires while the controller is open, the process runs the code
\* after an await, MongoDB does not fail for ever and time passes.
FairSpec ==
    /\ Spec
    /\ \A p \in Process, k \in Tick :
          /\ WF_vars(TickBegin(p, k))
          /\ SF_vars(Renew(p, k))
          /\ SF_vars(Insert(p, k))
          /\ WF_vars(KeepRunning(p, k) \/ StartDaemon(p, k))
          /\ WF_vars(Promote(p, k))
          /\ WF_vars(Demote(p, k))
    /\ \A p \in Process : WF_vars(StopAwaited(p)) /\ WF_vars(ReleaseLease(p))
    /\ WF_vars(Deadline /\ \E l \in lease : Gone(l.owner))

-----------------------------------------------------------------------------
(* Properties.                                                             *)

\* Every variable has its type, and the document is one.
TypeOK ==
    /\ lease \subseteq [owner : Process, live : BOOLEAN]
    /\ Cardinality(lease) <= 1
    /\ controller \in [Process -> {"none", "joining", "joined", "stopping",
                                   "releasing", "stopped"}]
    /\ active \in [Process -> BOOLEAN]
    /\ timers \in [Process -> 0..MaxTimers]
    /\ tick \in [Process -> [Tick -> TickState]]
    /\ crashes \in 0..MaxCrashes
    /\ lapsed \in BOOLEAN

Serving(p) == controller[p] \in {"joining", "joined"} /\ timers[p] > 0

\* As long as renewals come in time, the daemon runs in one of the processes
\* that have not been told to stop, whatever the overlap of their ticks.
SingletonUnlessLapsed ==
    ~lapsed => \A p, q \in Process : Serving(p) /\ Serving(q) => p = q

\* A live lease changes hands in one way only: its owner gives it up.  A tick
\* that saw it lapsed does not take it once it has been renewed.
LiveLeaseKept ==
    [][\A l \in lease :
          l.live => \/ \E x \in lease' : x.owner = l.owner
                    \/ controller[l.owner] = "releasing"]_vars

\* A process that lost the lease to another stops its daemon, unless it gets
\* the lease back or is told to stop first.
DeposedLeaderStops ==
    \A p \in Process :
        active[p] /\ controller[p] = "joined" /\ (\E l \in lease : l.owner # p)
            ~> ~active[p] \/ Owns(p) \/ controller[p] # "joined"

\* The lease of a process that is gone does not stay with it while another
\* process stands by.
StandbyTakesOver ==
    \A p, q \in Process :
        Gone(p) /\ Owns(p) /\ controller[q] = "joined"
            ~> ~(Gone(p) /\ Owns(p)) \/ controller[q] # "joined"

-----------------------------------------------------------------------------
(* What the tests say, and the code does not do.                           *)

\* "starts only for the lease owner and releases on stop"
\* (core/tests/unit/leaderLeaseService.test.js:104): after the controller's
\* stop the daemon does not start again.
StoppedStaysStopped ==
    [][\A p \in Process :
          controller[p] = "stopped" /\ controller'[p] = "stopped"
             => timers'[p] <= timers[p]]_vars

\* A promotion calls start() once: "expect(start).toHaveBeenCalledTimes(1)"
\* (core/tests/unit/leaderLeaseService.test.js:123).
StartedOnce == \A p \in Process : timers[p] <= 1
=============================================================================
