------------------------ MODULE RuntimeCoordination ------------------------
(***************************************************************************)
(* The runtime coordination record of Core                                 *)
(* (core/src/services/runtimeCoordinationService.js).                      *)
(*                                                                         *)
(* One MongoDB document decides who may touch the Ollama hosts.  It holds  *)
(* at most one maintenance lease, the workload admissions of Benchmark,    *)
(* the inference admissions of Core and a bounded log of release receipts. *)
(*                                                                         *)
(* A handler reads the clock and the document, then sends one conditional  *)
(* update.  Between the two any other handler may run, so every such       *)
(* handler is two actions here: the first captures what the handler read   *)
(* in calls[c], the second (...Cas) is the update, whose filter is         *)
(* evaluated against the document of that later moment.                    *)
(*                                                                         *)
(* Time is not a number.  Each lease is live or lapsed, and Deadline makes *)
(* a live one lapse at any moment.  The filter "expiresAt > now", with the *)
(* now a handler captured, holds when the lease was live at the capture or *)
(* has been renewed since: operator Unexpired.                             *)
(***************************************************************************)
EXTENDS Integers, Sequences, FiniteSets

CONSTANTS
    Client,        \* callers of the coordination API, one call in flight each
    Watchdog,      \* the pollers that call listActive
    Request,       \* idempotency keys, each with the principal that uses it
    PrincipalOf,   \* the principal of each request
    Host,          \* canonical host URLs
    ResidencyKey,  \* hashes of the residency specification of an inference
    Owner,         \* identities of recovery workers
    NoOwner,       \* recoveryOwnerId: null
    MaxId,         \* bound: admissions and leases minted in a behaviour
    MaxGeneration, \* bound: recovery adoptions of one workload
    MaxVersion,    \* bound: recovery transitions of one workload
    ReceiptLimit   \* $slice of releaseReceipts, 100 in the code

ASSUME ConstantsAssumption ==
    /\ Watchdog \cap Client = {}
    /\ NoOwner \notin Owner
    /\ MaxId \in Nat
    /\ MaxGeneration \in Nat
    /\ MaxVersion \in Nat
    /\ ReceiptLimit \in Nat \ {0}

VARIABLES
    maintenance,     \* {} for null, or the set with the one lease
    workloads,       \* the workloads array
    inferences,      \* the inferences array
    releaseReceipts, \* the releaseReceipts array
    restarted,       \* quarantined inferences an Ollama restart has terminated
    minted,          \* how many ids Core has minted
    calls            \* what each handler in flight has captured

document == <<maintenance, workloads, inferences, releaseReceipts>>
vars == <<maintenance, workloads, inferences, releaseReceipts, restarted,
          minted, calls>>

Id == 1..MaxId
NoProof == 0
LeaseState == {"ACTIVE", "UNKNOWN"}
Mode == {"shared", "exclusive"}
RecoveryState == {"PREPARED", "MUTATING", "UNKNOWN", "VERIFIED", "RESTORED"}

Lease == [id : Id, req : Request, live : BOOLEAN, state : LeaseState]
Workload ==
    [id : Id, req : Request, hosts : SUBSET Host, live : BOOLEAN,
     state : RecoveryState, version : Nat, generation : Nat,
     owner : Owner \cup {NoOwner}, ownerLive : BOOLEAN, receipt : BOOLEAN]
Inference ==
    [id : Id, req : Request, host : Host, key : ResidencyKey, mode : Mode,
     proof : Id \cup {NoProof}, live : BOOLEAN, state : LeaseState]
Receipt ==
    [kind : {"maintenance", "maintenance-recovery", "workload", "inference"},
     id : Id]

-----------------------------------------------------------------------------
(* Handlers in flight.                                                     *)

Idle == [op |-> "idle"]

Call ==
    {Idle}
    \cup [op : {"reapExpired"}, lapsed : SUBSET Id]
    \cup [op : {"acquireMaintenance", "acquireWorkload"}, req : Request]
    \cup [op : {"acquireInference"}, req : Request, live : SUBSET Id]
    \cup [op : {"heartbeatMaintenance", "heartbeatWorkload",
                "heartbeatInference", "releaseMaintenance",
                "releaseWorkload", "releaseInference"},
          id : Id, live : BOOLEAN]
    \cup [op : {"adopt"}, id : Id, generation : Nat, owner : Owner]
    \cup [op : {"heartbeatRecovery"}, id : Id, generation : Nat,
          owner : Owner, live : BOOLEAN]
    \cup [op : {"transition"}, id : Id, generation : Nat,
          owner : Owner \cup {NoOwner}, version : Nat, from : RecoveryState,
          to : RecoveryState, receipt : BOOLEAN]
    \cup [op : {"resolve"}, id : Id, generation : Nat,
          owner : Owner \cup {NoOwner}, version : Nat]

Begin(c, call) == /\ calls[c] = Idle
                  /\ calls' = [calls EXCEPT ![c] = call]
Return(c) == calls' = [calls EXCEPT ![c] = Idle]

\* The filter "expiresAt: { $gt: now }" with the now the call captured.
Unexpired(call, lease) == call.live \/ lease.live

\* $push with $slice: the log keeps its last ReceiptLimit entries.
LastReceipts(log) == IF Len(log) > ReceiptLimit THEN Tail(log) ELSE log
Log(kind, id) ==
    releaseReceipts' = LastReceipts(Append(releaseReceipts,
                                           [kind |-> kind, id |-> id]))
HasReceipt(kind, id) ==
    \E n \in 1..Len(releaseReceipts) :
        releaseReceipts[n] = [kind |-> kind, id |-> id]

-----------------------------------------------------------------------------
(* reapExpired: entries whose deadline lies before the reaper's clock are  *)
(* quarantined.  The three updates touch three disjoint fields and are one *)
(* step.  `lapsed` holds the ids that had lapsed at the reaper's clock; an *)
(* entry renewed since then no longer matches.                             *)

ReapedWorkloads(lapsed) ==
    {IF /\ w.id \in lapsed
        /\ ~w.live
        /\ w.state \in {"PREPARED", "MUTATING"}
     THEN [w EXCEPT !.state = "UNKNOWN", !.receipt = TRUE]
     ELSE w : w \in workloads}

ReapedInferencesByStaleClock(lapsed) ==
    {IF i.id \in lapsed /\ i.state = "ACTIVE"
     THEN [i EXCEPT !.state = "UNKNOWN"]
     ELSE i : i \in inferences}

ReapedInferences(lapsed) ==
    {IF i.id \in lapsed /\ ~i.live /\ i.state = "ACTIVE"
     THEN [i EXCEPT !.state = "UNKNOWN"]
     ELSE i : i \in inferences}

ReapedMaintenance(lapsed) ==
    {IF m.id \in lapsed /\ ~m.live /\ m.state = "ACTIVE"
     THEN [m EXCEPT !.state = "UNKNOWN"]
     ELSE m : m \in maintenance}

Reap(lapsed) ==
    /\ workloads' = ReapedWorkloads(lapsed)
    /\ inferences' = ReapedInferences(lapsed)
    /\ maintenance' = ReapedMaintenance(lapsed)

LapsedWorkloadsOnly == {w.id : w \in {v \in workloads : ~v.live}}

Lapsed == {x.id : x \in {y \in workloads \cup inferences \cup maintenance :
                                ~y.live}}

\* listActive: the watchdog's probe cycle reads the clock and reaps.  The
\* other read-only handlers (assertWorkloadAdmission, hostHasActiveInferences)
\* and the refused calls of the handlers below change the document in this
\* way only.
ListActive(c) ==
    /\ Begin(c, [op |-> "reapExpired", lapsed |-> Lapsed])
    /\ UNCHANGED <<document, restarted, minted>>

ReapExpiredCas(c) ==
    /\ calls[c].op = "reapExpired"
    /\ Reap(calls[c].lapsed)
    /\ Return(c)
    /\ UNCHANGED <<releaseReceipts, restarted, minted>>

-----------------------------------------------------------------------------
(* Maintenance leases.                                                     *)

AcquireMaintenance(c, r) ==
    /\ \A m \in maintenance : m.req # r
    /\ Reap(Id)
    /\ Begin(c, [op |-> "acquireMaintenance", req |-> r])
    /\ UNCHANGED <<releaseReceipts, restarted, minted>>

MaintenanceFilterForgettingInferences == maintenance = {} /\ workloads = {}

MaintenanceFilter == maintenance = {} /\ workloads = {} /\ inferences = {}

AcquireMaintenanceCas(c) ==
    /\ calls[c].op = "acquireMaintenance"
    /\ minted < MaxId
    /\ IF MaintenanceFilter
       THEN /\ maintenance' = {[id |-> minted + 1, req |-> calls[c].req,
                                live |-> TRUE, state |-> "ACTIVE"]}
            /\ minted' = minted + 1
       ELSE UNCHANGED <<maintenance, minted>>
    /\ Return(c)
    /\ UNCHANGED <<workloads, inferences, releaseReceipts, restarted>>

HeartbeatMaintenance(c, m) ==
    /\ Begin(c, [op |-> "heartbeatMaintenance", id |-> m.id, live |-> m.live])
    /\ UNCHANGED <<document, restarted, minted>>

RenewableMaintenance(call, m) ==
    m.id = call.id /\ m.state = "ACTIVE" /\ Unexpired(call, m)

HeartbeatMaintenanceCas(c) ==
    /\ calls[c].op = "heartbeatMaintenance"
    /\ maintenance' =
         {IF RenewableMaintenance(calls[c], m) THEN [m EXCEPT !.live = TRUE]
                                               ELSE m : m \in maintenance}
    /\ Return(c)
    /\ UNCHANGED <<workloads, inferences, releaseReceipts, restarted, minted>>

\* release('maintenance'): reads after its own reap, so a lapsed lease is
\* quarantined and refused.
ReleaseMaintenance(c, id) ==
    /\ \E m \in ReapedMaintenance(Id) :
          /\ m.id = id
          /\ m.state = "ACTIVE"
          /\ Begin(c, [op |-> "releaseMaintenance", id |-> id,
                       live |-> m.live])
    /\ Reap(Id)
    /\ UNCHANGED <<releaseReceipts, restarted, minted>>

ReleasableMaintenance(call, m) ==
    m.id = call.id /\ m.state = "ACTIVE" /\ Unexpired(call, m)

ReleaseMaintenanceCas(c) ==
    /\ calls[c].op = "releaseMaintenance"
    /\ IF \E m \in maintenance : ReleasableMaintenance(calls[c], m)
       THEN maintenance' = {} /\ Log("maintenance", calls[c].id)
       ELSE UNCHANGED <<maintenance, releaseReceipts>>
    /\ Return(c)
    /\ UNCHANGED <<workloads, inferences, restarted, minted>>

MarkMaintenanceUnknown(m) ==
    /\ m.state = "ACTIVE"
    /\ maintenance' = {[m EXCEPT !.state = "UNKNOWN"]}
    /\ UNCHANGED <<workloads, inferences, releaseReceipts, restarted, minted,
                   calls>>

\* Needs the operator's confirmation that every side effect was verified or
\* rolled back, which the operator may give at any time.
RecoverMaintenance(m) ==
    /\ m.state = "UNKNOWN"
    /\ maintenance' = {}
    /\ Log("maintenance-recovery", m.id)
    /\ UNCHANGED <<workloads, inferences, restarted, minted, calls>>

-----------------------------------------------------------------------------
(* Workload admissions.                                                    *)

AcquireWorkload(c, r) ==
    /\ \A w \in workloads : w.req # r
    /\ Reap(Id)
    /\ Begin(c, [op |-> "acquireWorkload", req |-> r])
    /\ UNCHANGED <<releaseReceipts, restarted, minted>>

WorkloadFilterForgettingInferences(r, hosts) ==
    /\ maintenance = {}
    /\ \A w \in workloads : w.req # r /\ w.hosts \cap hosts = {}

\* A workload without hosts reserves none of them, yet waits for every
\* inference to end.
WorkloadFilter(r, hosts) ==
    /\ maintenance = {}
    /\ IF hosts = {} THEN inferences = {}
       ELSE \A i \in inferences : i.host \notin hosts
    /\ \A w \in workloads : w.req # r /\ w.hosts \cap hosts = {}

\* The hosts of the request are not looked at before the update.
AcquireWorkloadCas(c, hosts) ==
    /\ calls[c].op = "acquireWorkload"
    /\ minted < MaxId
    /\ IF WorkloadFilter(calls[c].req, hosts)
       THEN /\ workloads' = workloads \cup
                 {[id |-> minted + 1, req |-> calls[c].req,
                   hosts |-> hosts, live |-> TRUE,
                   state |-> "PREPARED", version |-> 0, generation |-> 0,
                   owner |-> NoOwner, ownerLive |-> FALSE,
                   receipt |-> FALSE]}
            /\ minted' = minted + 1
       ELSE UNCHANGED <<workloads, minted>>
    /\ Return(c)
    /\ UNCHANGED <<maintenance, inferences, releaseReceipts, restarted>>

HeartbeatWorkload(c, w) ==
    /\ Begin(c, [op |-> "heartbeatWorkload", id |-> w.id, live |-> w.live])
    /\ UNCHANGED <<document, restarted, minted>>

\* The filter names neither the recovery state nor the recovery owner.
RenewableWorkload(call, w) == w.id = call.id /\ Unexpired(call, w)

HeartbeatWorkloadCas(c) ==
    /\ calls[c].op = "heartbeatWorkload"
    /\ workloads' =
         {IF RenewableWorkload(calls[c], w) THEN [w EXCEPT !.live = TRUE]
                                            ELSE w : w \in workloads}
    /\ Return(c)
    /\ UNCHANGED <<maintenance, inferences, releaseReceipts, restarted, minted>>

\* release('workload'): only a workload read as PREPARED goes on.
ReleaseWorkload(c, id) ==
    /\ \E w \in ReapedWorkloads(Id) :
          /\ w.id = id
          /\ w.state = "PREPARED"
          /\ Begin(c, [op |-> "releaseWorkload", id |-> id, live |-> w.live])
    /\ Reap(Id)
    /\ UNCHANGED <<releaseReceipts, restarted, minted>>

\* The filter of the update does not name the state that was read.
ReleasableWorkload(call, w) == w.id = call.id /\ Unexpired(call, w)

ReleaseWorkloadCas(c) ==
    /\ calls[c].op = "releaseWorkload"
    /\ IF \E w \in workloads : ReleasableWorkload(calls[c], w)
       THEN /\ workloads' = {w \in workloads : w.id # calls[c].id}
            /\ Log("workload", calls[c].id)
       ELSE UNCHANGED <<workloads, releaseReceipts>>
    /\ Return(c)
    /\ UNCHANGED <<maintenance, inferences, restarted, minted>>

-----------------------------------------------------------------------------
(* Recovery of a workload whose owner is gone.                             *)

\* A recovery worker may take over when neither the admission nor another
\* recovery owner is live.
Adoptable(w) == ~w.live /\ ~w.ownerLive

AdoptRecovery(c, w, o) ==
    /\ Adoptable(w)
    /\ w.generation < MaxGeneration
    /\ Begin(c, [op |-> "adopt", id |-> w.id, generation |-> w.generation,
                 owner |-> o])
    /\ UNCHANGED <<document, restarted, minted>>

AdoptFilterForgettingOwner(call, w) ==
    w.id = call.id /\ w.generation = call.generation /\ ~w.live

AdoptFilter(call, w) ==
    w.id = call.id /\ w.generation = call.generation /\ Adoptable(w)

AdoptRecoveryCas(c) ==
    /\ calls[c].op = "adopt"
    /\ workloads' =
         {IF AdoptFilter(calls[c], w)
          THEN [w EXCEPT !.generation = @ + 1, !.owner = calls[c].owner,
                         !.ownerLive = TRUE]
          ELSE w : w \in workloads}
    /\ Return(c)
    /\ UNCHANGED <<maintenance, inferences, releaseReceipts, restarted, minted>>

HeartbeatRecovery(c, w) ==
    /\ w.owner # NoOwner
    /\ Begin(c, [op |-> "heartbeatRecovery", id |-> w.id,
                 generation |-> w.generation, owner |-> w.owner,
                 live |-> w.ownerLive])
    /\ UNCHANGED <<document, restarted, minted>>

RenewableRecovery(call, w) ==
    /\ w.id = call.id
    /\ w.generation = call.generation
    /\ w.owner = call.owner
    /\ call.live \/ w.ownerLive

HeartbeatRecoveryCas(c) ==
    /\ calls[c].op = "heartbeatRecovery"
    /\ workloads' =
         {IF RenewableRecovery(calls[c], w) THEN [w EXCEPT !.ownerLive = TRUE]
                                            ELSE w : w \in workloads}
    /\ Return(c)
    /\ UNCHANGED <<maintenance, inferences, releaseReceipts, restarted, minted>>

RecoveryTransitions ==
    [PREPARED  |-> {"MUTATING", "UNKNOWN"},
     MUTATING  |-> {"UNKNOWN", "VERIFIED"},
     UNKNOWN   |-> {"VERIFIED"},
     VERIFIED  |-> {"RESTORED"},
     RESTORED  |-> {}]

\* ownerLeaseLive: once a recovery worker has adopted the workload its lease
\* is the one that counts, before that the admission's own.
OwnerLeaseLive(w) == IF w.owner = NoOwner THEN w.live ELSE w.ownerLive

\* The caller presents the recovery generation, the owner and the version it
\* reads back here; a call with others is refused at the read.
TransitionRecovery(c, w, to, receipt) ==
    /\ OwnerLeaseLive(w)
    /\ to \in RecoveryTransitions[w.state]
    /\ w.version < MaxVersion
    /\ Begin(c, [op |-> "transition", id |-> w.id,
                 generation |-> w.generation, owner |-> w.owner,
                 version |-> w.version, from |-> w.state, to |-> to,
                 receipt |-> receipt])
    /\ UNCHANGED <<document, restarted, minted>>

TransitionFilterForgettingState(call, w) ==
    /\ w.id = call.id
    /\ w.generation = call.generation
    /\ w.version = call.version
    /\ call.owner # NoOwner => w.owner = call.owner

TransitionFilterForgettingGeneration(call, w) ==
    /\ w.id = call.id
    /\ w.version = call.version
    /\ w.state = call.from
    /\ call.owner # NoOwner => w.owner = call.owner

\* The lease the filter names was live at the captured clock; the owner is
\* named only when the read found one.
TransitionFilter(call, w) ==
    /\ w.id = call.id
    /\ w.generation = call.generation
    /\ w.version = call.version
    /\ w.state = call.from
    /\ call.owner # NoOwner => w.owner = call.owner

TransitionRecoveryCas(c) ==
    /\ calls[c].op = "transition"
    /\ workloads' =
         {IF TransitionFilter(calls[c], w)
          THEN [w EXCEPT !.state = calls[c].to,
                         !.version = calls[c].version + 1,
                         !.receipt = calls[c].receipt,
                         !.live = @ /\ calls[c].to # "UNKNOWN"]
          ELSE w : w \in workloads}
    /\ Return(c)
    /\ UNCHANGED <<maintenance, inferences, releaseReceipts, restarted, minted>>

\* assertWorkloadRecovery and the read after it.
ResolveRecovery(c, w) ==
    /\ OwnerLeaseLive(w)
    /\ w.state = "RESTORED"
    /\ w.receipt
    /\ Begin(c, [op |-> "resolve", id |-> w.id, generation |-> w.generation,
                 owner |-> w.owner, version |-> w.version])
    /\ UNCHANGED <<document, restarted, minted>>

ResolveFilter(call, w) ==
    /\ w.id = call.id
    /\ w.generation = call.generation
    /\ w.owner = call.owner
    /\ w.state = "RESTORED"
    /\ w.version = call.version
    /\ w.receipt

ResolveRecoveryCasPullingUnadopted(c) ==
    /\ calls[c].op = "resolve"
    /\ IF \E w \in workloads : ResolveFilter(calls[c], w)
       THEN /\ workloads' = {w \in workloads :
                               ~ResolveFilter(calls[c], w) \/ w.owner # NoOwner}
            /\ Log("workload", calls[c].id)
       ELSE UNCHANGED <<workloads, releaseReceipts>>
    /\ Return(c)
    /\ UNCHANGED <<maintenance, inferences, restarted, minted>>

ResolveRecoveryCas(c) ==
    /\ calls[c].op = "resolve"
    /\ IF \E w \in workloads : ResolveFilter(calls[c], w)
       THEN /\ workloads' = {w \in workloads : ~ResolveFilter(calls[c], w)}
            /\ Log("workload", calls[c].id)
       ELSE UNCHANGED <<workloads, releaseReceipts>>
    /\ Return(c)
    /\ UNCHANGED <<maintenance, inferences, restarted, minted>>

-----------------------------------------------------------------------------
(* Inference admissions.                                                   *)

\* A workload proof is good while its deadline lies behind the clock captured
\* here, so the call keeps which admissions were live.
AcquireInference(c, r) ==
    /\ \A i \in inferences : i.req # r
    /\ Reap(Id)
    /\ Begin(c, [op |-> "acquireInference", req |-> r,
                 live |-> {w.id : w \in {v \in workloads : v.live}}])
    /\ UNCHANGED <<releaseReceipts, restarted, minted>>

IncompatibleIgnoringExclusiveCaller(h, k, mode, i) ==
    /\ i.host = h
    /\ \/ i.state = "UNKNOWN"
       \/ i.mode = "exclusive"
       \/ i.key # k

IncompatibleIgnoringUnknown(h, k, mode, i) ==
    /\ i.host = h
    /\ \/ i.mode = "exclusive"
       \/ mode = "exclusive"
       \/ i.key # k

\* incompatibleInference
Incompatible(h, k, mode, i) ==
    /\ i.host = h
    /\ \/ i.state = "UNKNOWN"
       \/ i.mode = "exclusive"
       \/ mode = "exclusive"
       \/ i.key # k

CoveredBy(call, h, proof, w) ==
    /\ w.id = proof
    /\ PrincipalOf[w.req] = PrincipalOf[call.req]
    /\ h \in w.hosts
    /\ w.id \in call.live \/ w.live

InferenceFilterForgettingRequest(call, h, k, mode, proof) ==
    /\ maintenance = {}
    /\ \A i \in inferences : ~Incompatible(h, k, mode, i)
    /\ IF proof = NoProof
       THEN \A w \in workloads : h \notin w.hosts
       ELSE \E w \in workloads : CoveredBy(call, h, proof, w)

InferenceFilter(call, h, k, mode, proof) ==
    /\ maintenance = {}
    /\ \A i \in inferences :
          i.req # call.req /\ ~Incompatible(h, k, mode, i)
    /\ IF proof = NoProof
       THEN \A w \in workloads : h \notin w.hosts
       ELSE \E w \in workloads : CoveredBy(call, h, proof, w)

\* The rest of the request is not looked at before the update.
AcquireInferenceCas(c, h, k, mode, proof) ==
    /\ calls[c].op = "acquireInference"
    /\ minted < MaxId
    /\ IF InferenceFilter(calls[c], h, k, mode, proof)
       THEN /\ inferences' = inferences \cup
                 {[id |-> minted + 1, req |-> calls[c].req, host |-> h,
                   key |-> k, mode |-> mode, proof |-> proof, live |-> TRUE,
                   state |-> "ACTIVE"]}
            /\ minted' = minted + 1
       ELSE UNCHANGED <<inferences, minted>>
    /\ Return(c)
    /\ UNCHANGED <<maintenance, workloads, releaseReceipts, restarted>>

HeartbeatInference(c, i) ==
    /\ Begin(c, [op |-> "heartbeatInference", id |-> i.id, live |-> i.live])
    /\ UNCHANGED <<document, restarted, minted>>

RenewableInferenceAnyState(call, i) == i.id = call.id /\ Unexpired(call, i)

RenewableInference(call, i) ==
    i.id = call.id /\ i.state = "ACTIVE" /\ Unexpired(call, i)

HeartbeatInferenceCas(c) ==
    /\ calls[c].op = "heartbeatInference"
    /\ inferences' =
         {IF RenewableInference(calls[c], i) THEN [i EXCEPT !.live = TRUE]
                                             ELSE i : i \in inferences}
    /\ Return(c)
    /\ UNCHANGED <<maintenance, workloads, releaseReceipts, restarted, minted>>

\* A receipt already in the log is returned instead.
ReleaseInference(c, id) ==
    /\ ~HasReceipt("inference", id)
    /\ \E i \in ReapedInferences(Id) :
          /\ i.id = id
          /\ Begin(c, [op |-> "releaseInference", id |-> id,
                       live |-> i.live])
    /\ Reap(Id)
    /\ UNCHANGED <<releaseReceipts, restarted, minted>>

ReleasableInference(call, i) ==
    i.id = call.id /\ i.state = "ACTIVE" /\ Unexpired(call, i)

\* $pull names the state again: only an ACTIVE entry is removed.
ReleaseInferenceCas(c) ==
    /\ calls[c].op = "releaseInference"
    /\ IF \E i \in inferences : ReleasableInference(calls[c], i)
       THEN /\ inferences' = {i \in inferences :
                                ~(i.id = calls[c].id /\ i.state = "ACTIVE")}
            /\ Log("inference", calls[c].id)
       ELSE UNCHANGED <<inferences, releaseReceipts>>
    /\ Return(c)
    /\ UNCHANGED <<maintenance, workloads, restarted, minted>>

MarkInferenceUnknown(i) ==
    /\ i.state = "ACTIVE"
    /\ inferences' = (inferences \ {i}) \cup {[i EXCEPT !.state = "UNKNOWN"]}
    /\ UNCHANGED <<maintenance, workloads, releaseReceipts, restarted, minted,
                   calls>>

\* unknownAt <= restartedAt: the receipt's restart came after the quarantine.
RecoverableInference(i) == i.state = "UNKNOWN" /\ i.id \in restarted

RecoverInference(i) ==
    /\ RecoverableInference(i)
    /\ inferences' = inferences \ {i}
    /\ restarted' = restarted \ {i.id}
    /\ UNCHANGED <<maintenance, workloads, releaseReceipts, minted, calls>>

-----------------------------------------------------------------------------
(* The environment.                                                        *)

\* The deadline of a live lease passes.
Deadline ==
    /\ \/ \E w \in workloads :
             /\ w.live
             /\ workloads' = (workloads \ {w}) \cup {[w EXCEPT !.live = FALSE]}
             /\ UNCHANGED <<maintenance, inferences>>
       \/ \E w \in workloads :
             /\ w.ownerLive
             /\ workloads' = (workloads \ {w})
                                \cup {[w EXCEPT !.ownerLive = FALSE]}
             /\ UNCHANGED <<maintenance, inferences>>
       \/ \E i \in inferences :
             /\ i.live
             /\ inferences' = (inferences \ {i}) \cup {[i EXCEPT !.live = FALSE]}
             /\ UNCHANGED <<maintenance, workloads>>
       \/ \E m \in maintenance :
             /\ m.live
             /\ maintenance' = {[m EXCEPT !.live = FALSE]}
             /\ UNCHANGED <<workloads, inferences>>
    /\ UNCHANGED <<releaseReceipts, restarted, minted, calls>>

\* An operator restarts the Ollama runtime, which ends the requests of the
\* inferences quarantined by then.
RestartRuntime ==
    LET unknown == {i.id : i \in {j \in inferences : j.state = "UNKNOWN"}}
    IN /\ unknown # restarted
       /\ restarted' = unknown
       /\ UNCHANGED <<document, minted, calls>>

\* The process that runs a handler dies, or its request is cut, before the
\* update is sent.
Lost(c) == /\ calls[c] # Idle
           /\ Return(c)
           /\ UNCHANGED <<document, restarted, minted>>

-----------------------------------------------------------------------------
Init ==
    /\ maintenance = {}
    /\ workloads = {}
    /\ inferences = {}
    /\ releaseReceipts = <<>>
    /\ restarted = {}
    /\ minted = 0
    /\ calls = [c \in Client \cup Watchdog |-> Idle]

MaintenanceStep(c) ==
    \/ \E r \in Request : AcquireMaintenance(c, r)
    \/ AcquireMaintenanceCas(c)
    \/ \E m \in maintenance : \/ HeartbeatMaintenance(c, m)
                              \/ ReleaseMaintenance(c, m.id)
    \/ HeartbeatMaintenanceCas(c)
    \/ ReleaseMaintenanceCas(c)

WorkloadStep(c) ==
    \/ \E r \in Request : AcquireWorkload(c, r)
    \/ \E hosts \in SUBSET Host : AcquireWorkloadCas(c, hosts)
    \/ \E w \in workloads : \/ HeartbeatWorkload(c, w)
                            \/ ReleaseWorkload(c, w.id)
    \/ HeartbeatWorkloadCas(c)
    \/ ReleaseWorkloadCas(c)

RecoveryStep(c) ==
    \/ \E w \in workloads :
         \/ \E o \in Owner : AdoptRecovery(c, w, o)
         \/ HeartbeatRecovery(c, w)
         \/ \E to \in RecoveryState, receipt \in BOOLEAN :
                TransitionRecovery(c, w, to, receipt)
         \/ ResolveRecovery(c, w)
    \/ AdoptRecoveryCas(c)
    \/ HeartbeatRecoveryCas(c)
    \/ TransitionRecoveryCas(c)
    \/ ResolveRecoveryCas(c)

InferenceStep(c) ==
    \/ \E r \in Request : AcquireInference(c, r)
    \/ \E h \in Host, k \in ResidencyKey, mode \in Mode,
          proof \in {NoProof} \cup Id : AcquireInferenceCas(c, h, k, mode, proof)
    \/ \E i \in inferences : \/ HeartbeatInference(c, i)
                             \/ ReleaseInference(c, i.id)
    \/ HeartbeatInferenceCas(c)
    \/ ReleaseInferenceCas(c)

OperatorStep ==
    \/ \E m \in maintenance : MarkMaintenanceUnknown(m) \/ RecoverMaintenance(m)
    \/ \E i \in inferences : MarkInferenceUnknown(i) \/ RecoverInference(i)
    \/ RestartRuntime

Next ==
    \/ \E c \in Client : \/ MaintenanceStep(c)
                         \/ WorkloadStep(c)
                         \/ RecoveryStep(c)
                         \/ InferenceStep(c)
    \/ \E c \in Watchdog : ListActive(c) \/ ReapExpiredCas(c)
    \/ \E c \in Client \cup Watchdog : Lost(c)
    \/ OperatorStep
    \/ Deadline

Spec == Init /\ [][Next]_vars

\* The watchdog polls for as long as Core runs, and a poll is not cut for ever.
FairSpec == /\ Spec
            /\ \A c \in Watchdog : /\ WF_vars(ListActive(c))
                                  /\ SF_vars(ReapExpiredCas(c))

-----------------------------------------------------------------------------
(* Properties.                                                             *)

\* Every field of the document and of the handlers in flight has its type.
TypeOK ==
    /\ maintenance \subseteq Lease
    /\ workloads \subseteq Workload
    /\ inferences \subseteq Inference
    /\ releaseReceipts \in Seq(Receipt)
    /\ Len(releaseReceipts) <= ReceiptLimit
    /\ restarted \subseteq Id
    /\ minted \in 0..MaxId
    /\ calls \in [Client \cup Watchdog -> Call]

Held == {x.id : x \in maintenance \cup workloads \cup inferences}

\* While a maintenance lease is held, live or quarantined, no workload and no
\* inference is: the deploy it protects never overlaps either, whatever the
\* order in which the reads and updates of concurrent acquisitions land.
MaintenanceExclusion ==
    maintenance # {} => workloads = {} /\ inferences = {}

\* A host reserved by a workload serves that workload only: no other workload
\* names the host and every inference on it was admitted under the workload's
\* proof, for the workload's principal.
HostOwnership ==
    /\ \A v, w \in workloads : v.id # w.id => v.hosts \cap w.hosts = {}
    /\ \A w \in workloads, i \in inferences :
          i.host \in w.hosts =>
            i.proof = w.id /\ PrincipalOf[i.req] = PrincipalOf[w.req]

\* Two inferences share a host only when both asked for shared use of the same
\* residency, so no admitted inference evicts the model of another.
ResidencyAgreement ==
    \A i, j \in inferences :
        i.id # j.id /\ i.host = j.host =>
            i.mode = "shared" /\ j.mode = "shared" /\ i.key = j.key

\* Concurrent retries with one idempotency key never hold two admissions.
OneAdmissionPerRequest ==
    /\ \A v, w \in workloads : v.req = w.req => v.id = w.id
    /\ \A i, j \in inferences : i.req = j.req => i.id = j.id

\* A release receipt says that the admission is gone, and is written once: a
\* client that recovers a lost answer from the log is never told of a release
\* that did not happen, and no retry logs a second release.
ReceiptMeansGone ==
    \A m \in 1..Len(releaseReceipts) :
        /\ releaseReceipts[m].id \notin Held
        /\ \A n \in 1..Len(releaseReceipts) :
              m # n => releaseReceipts[m].id # releaseReceipts[n].id

StillQuarantined(x, entries) ==
    \E y \in entries : /\ y.id = x.id
                       /\ y.state = "UNKNOWN"
                       /\ y.live => x.live

\* An inference or a maintenance lease whose outcome is unknown is never made
\* active again, renewed or dropped: the inference leaves only after a runtime
\* restart that came after its quarantine, the lease only with the operator's
\* reconciliation in the log.
QuarantineIsDurable ==
    [][/\ \A i \in inferences :
             i.state = "UNKNOWN" =>
                \/ StillQuarantined(i, inferences')
                \/ i.id \in restarted /\ i.id \notin Held'
       /\ \A m \in maintenance :
             m.state = "UNKNOWN" =>
                \/ StillQuarantined(m, maintenance')
                \/ /\ maintenance' = {}
                   /\ releaseReceipts' # <<>>
                   /\ releaseReceipts'[Len(releaseReceipts')] =
                         [kind |-> "maintenance-recovery", id |-> m.id]]_vars

Rank == [PREPARED |-> 0, MUTATING |-> 1, UNKNOWN |-> 2, VERIFIED |-> 3,
         RESTORED |-> 4]

\* The recovery of a workload only moves forward: neither a stale transition
\* nor a late reaper takes it back behind a state that was already recorded,
\* and its version and recovery generation never decrease.
RecoveryMovesForward ==
    [][\A w \in workloads, x \in workloads' :
          w.id = x.id => /\ Rank[w.state] <= Rank[x.state]
                         /\ w.version <= x.version
                         /\ w.generation <= x.generation]_vars

\* Single writer: a handler that changes the version of a workload's recovery,
\* or ends a restored one, had read it under the recovery generation that is
\* still current; a handler begun before an adoption writes nothing after it.
RecoveryFenced ==
    [][\A c \in Client, w \in workloads :
          /\ calls[c].op \in {"transition", "resolve"}
          /\ calls'[c] = Idle
          /\ \A x \in workloads' : x.id = w.id => x.version # w.version
          => calls[c].generation = w.generation]_vars

\* A recovery worker whose lease is live keeps the workload: no other worker
\* adopts it, even one that read it while the lease was lapsed.
LiveOwnerKept ==
    [][\A w \in workloads, x \in workloads' :
          w.id = x.id /\ w.ownerLive =>
             x.owner = w.owner /\ x.generation = w.generation]_vars

Unnoticed(id) ==
    \/ \E m \in maintenance : m.id = id /\ ~m.live /\ m.state = "ACTIVE"
    \/ \E i \in inferences : i.id = id /\ ~i.live /\ i.state = "ACTIVE"
    \/ \E w \in workloads : /\ w.id = id
                            /\ ~w.live
                            /\ w.state \in {"PREPARED", "MUTATING"}

\* An admission that lapsed while nobody knows its outcome does not stay that
\* way: it is renewed, released or put in quarantine, because the watchdog
\* keeps polling.
LapseIsNoticed ==
    \A id \in Id : Unnoticed(id) ~> ~Unnoticed(id)

\* While the watchdog's reap is under way a holder may renew its lease; the
\* stale observation then does not quarantine it: "a renewed lease cannot be
\* erased by a stale reaper observation"
\* (docs/RUNTIME_COORDINATION_CONTRACT.md:113).
RenewalSurvivesReaper ==
    [][\A c \in Watchdog :
          calls[c].op = "reapExpired" /\ calls'[c] = Idle =>
             /\ \A w \in workloads : w.live => w \in workloads'
             /\ \A i \in inferences : i.live => i \in inferences'
             /\ \A m \in maintenance : m.live => m \in maintenance']_vars

\* The handlers, each a read and a later update, implement the atomic lock of
\* RuntimeExclusion: every grant and every end is one indivisible step that
\* respects the lock's rules at the moment it takes effect.
Exclusion == INSTANCE RuntimeExclusion WITH
    Principal <- {PrincipalOf[r] : r \in Request},
    maintenance <- {[id |-> m.id, unknown |-> m.state = "UNKNOWN"] :
                      m \in maintenance},
    workloads <- {[id |-> w.id, hosts |-> w.hosts,
                   principal |-> PrincipalOf[w.req]] : w \in workloads},
    inferences <- {[id |-> i.id, host |-> i.host, key |-> i.key,
                    mode |-> i.mode, proof |-> i.proof,
                    principal |-> PrincipalOf[i.req],
                    unknown |-> i.state = "UNKNOWN"] : i \in inferences},
    granted <- 1..minted

ImplementsExclusion == Exclusion!Spec

-----------------------------------------------------------------------------
(* What the tests and documents say, and the code does not do.             *)

\* A workload leaves the document only before it mutated anything or after it
\* was restored: "workload is protected by durable recovery quarantine"
\* (release, runtimeCoordinationService.js:1381).
ReleaseOnlyWhenSettled ==
    [][\A w \in workloads : w.id \notin Held' =>
          w.state \in {"PREPARED", "RESTORED"}]_vars

\* The admission's own lease and that of a recovery worker are never live
\* together: adoption is refused while the "original workload owner remains
\* live", and a "heartbeat never resurrects expired proof".
SingleLiveOwner == \A w \in workloads : ~(w.live /\ w.ownerLive)

\* "Expired entries are removed with generation/expiry-fenced writes"
\* (docs/RUNTIME_COORDINATION_CONTRACT.md:112): a reap removes what had lapsed.
ExpiredEntriesRemoved ==
    [][\A c \in Watchdog :
          calls[c].op = "reapExpired" /\ calls'[c] = Idle =>
             \A id \in calls[c].lapsed :
                (\A x \in workloads \cup inferences \cup maintenance :
                    x.id = id => ~x.live) => id \notin Held']_vars
=============================================================================
