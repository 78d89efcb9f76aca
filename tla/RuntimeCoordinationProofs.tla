--------------------- MODULE RuntimeCoordinationProofs ---------------------
(***************************************************************************)
(* Proofs about RuntimeCoordination, for every number of callers,          *)
(* requests, hosts, residencies, recovery workers and admissions.          *)
(***************************************************************************)
EXTENDS RuntimeCoordination, TLAPS

-----------------------------------------------------------------------------
(* The release log.                                                        *)

\* Pushing one receipt keeps the log a sequence of receipts within its slice.
LEMMA LastReceiptsType ==
    ASSUME NEW log \in Seq(Receipt), Len(log) <= ReceiptLimit,
           NEW r \in Receipt
    PROVE  /\ LastReceipts(Append(log, r)) \in Seq(Receipt)
           /\ Len(LastReceipts(Append(log, r))) <= ReceiptLimit
<1>1. /\ Append(log, r) \in Seq(Receipt)
      /\ Len(Append(log, r)) = Len(log) + 1
      /\ Append(log, r) # <<>>
  OBVIOUS
<1>2. /\ Tail(Append(log, r)) \in Seq(Receipt)
      /\ Len(Tail(Append(log, r))) = Len(Append(log, r)) - 1
  BY <1>1
<1>3. Len(log) \in Nat /\ ReceiptLimit \in Nat
  BY ConstantsAssumption
<1> QED
  BY <1>1, <1>2, <1>3 DEF LastReceipts

LEMMA LogType ==
    ASSUME releaseReceipts \in Seq(Receipt),
           Len(releaseReceipts) <= ReceiptLimit,
           NEW kind, NEW id,
           [kind |-> kind, id |-> id] \in Receipt,
           Log(kind, id)
    PROVE  /\ releaseReceipts' \in Seq(Receipt)
           /\ Len(releaseReceipts') <= ReceiptLimit
  BY LastReceiptsType DEF Log

-----------------------------------------------------------------------------
(* Type correctness.                                                       *)

LEMMA BeginType ==
    ASSUME calls \in [Client \cup Watchdog -> Call],
           NEW c \in Client \cup Watchdog, NEW call \in Call,
           Begin(c, call)
    PROVE  calls' \in [Client \cup Watchdog -> Call]
  BY DEF Begin

LEMMA ReturnType ==
    ASSUME calls \in [Client \cup Watchdog -> Call],
           NEW c \in Client \cup Watchdog,
           Return(c)
    PROVE  calls' \in [Client \cup Watchdog -> Call]
<1>1. Idle \in Call
  BY DEF Call
<1> QED
  BY <1>1 DEF Return

LEMMA ReapType ==
    ASSUME TypeOK, NEW lapsed, Reap(lapsed)
    PROVE  /\ maintenance' \subseteq Lease
           /\ workloads' \subseteq Workload
           /\ inferences' \subseteq Inference
<1>1. \A w \in workloads :
         [w EXCEPT !.state = "UNKNOWN", !.receipt = TRUE] \in Workload
  BY DEF TypeOK, Workload, RecoveryState
<1>2. \A i \in inferences : [i EXCEPT !.state = "UNKNOWN"] \in Inference
  BY DEF TypeOK, Inference, LeaseState
<1>3. \A m \in maintenance : [m EXCEPT !.state = "UNKNOWN"] \in Lease
  BY DEF TypeOK, Lease, LeaseState
<1> QED
  BY <1>1, <1>2, <1>3
  DEF Reap, ReapedMaintenance, ReapedWorkloads, ReapedInferences, TypeOK

LEMMA CallTypes ==
    /\ Idle \in Call
    /\ \A lapsed \in SUBSET Id :
          [op |-> "reapExpired", lapsed |-> lapsed] \in Call
    /\ \A r \in Request :
          /\ [op |-> "acquireMaintenance", req |-> r] \in Call
          /\ [op |-> "acquireWorkload", req |-> r] \in Call
          /\ \A live \in SUBSET Id :
                [op |-> "acquireInference", req |-> r, live |-> live] \in Call
    /\ \A id \in Id, live \in BOOLEAN :
          /\ [op |-> "heartbeatMaintenance", id |-> id, live |-> live] \in Call
          /\ [op |-> "heartbeatWorkload", id |-> id, live |-> live] \in Call
          /\ [op |-> "heartbeatInference", id |-> id, live |-> live] \in Call
          /\ [op |-> "releaseMaintenance", id |-> id, live |-> live] \in Call
          /\ [op |-> "releaseWorkload", id |-> id, live |-> live] \in Call
          /\ [op |-> "releaseInference", id |-> id, live |-> live] \in Call
  BY DEF Call

\* What a handler of each kind has captured.
LEMMA CallFields ==
    ASSUME NEW call \in Call
    PROVE  /\ call.op = "acquireMaintenance" => call.req \in Request
           /\ call.op = "acquireWorkload" => call.req \in Request
           /\ call.op = "acquireInference" => call.req \in Request
           /\ call.op \in {"releaseMaintenance", "releaseWorkload",
                           "releaseInference"} => call.id \in Id
           /\ call.op = "adopt" => call.owner \in Owner
           /\ call.op = "transition" => /\ call.to \in RecoveryState
                                        /\ call.version \in Nat
                                        /\ call.receipt \in BOOLEAN
           /\ call.op = "resolve" => call.id \in Id
  BY DEF Call, Idle

\* A lease that is renewed, lapses or is quarantined keeps its type.
LEMMA LeaseUpdates ==
    ASSUME NEW m \in Lease, NEW b \in BOOLEAN
    PROVE  /\ [m EXCEPT !.live = b] \in Lease
           /\ [m EXCEPT !.state = "UNKNOWN"] \in Lease
  BY DEF Lease, LeaseState

LEMMA InferenceUpdates ==
    ASSUME NEW i \in Inference, NEW b \in BOOLEAN
    PROVE  /\ [i EXCEPT !.live = b] \in Inference
           /\ [i EXCEPT !.state = "UNKNOWN"] \in Inference
  BY DEF Inference, LeaseState

LEMMA WorkloadUpdates ==
    ASSUME NEW w \in Workload, NEW b \in BOOLEAN
    PROVE  /\ [w EXCEPT !.live = b] \in Workload
           /\ [w EXCEPT !.ownerLive = b] \in Workload
  BY DEF Workload

LEMMA AdoptedWorkload ==
    ASSUME NEW w \in Workload, NEW g \in Nat, NEW o \in Owner
    PROVE  [w EXCEPT !.generation = g, !.owner = o, !.ownerLive = TRUE]
              \in Workload
  BY DEF Workload

LEMMA TransitionedWorkload ==
    ASSUME NEW w \in Workload, NEW state \in RecoveryState, NEW v \in Nat,
           NEW receipt \in BOOLEAN, NEW live \in BOOLEAN
    PROVE  [w EXCEPT !.state = state, !.version = v, !.receipt = receipt,
                     !.live = live] \in Workload
  BY DEF Workload

LEMMA MaintenanceStepType ==
    ASSUME TypeOK, NEW c \in Client, MaintenanceStep(c)
    PROVE  TypeOK'
<1> USE DEF TypeOK
<1>c. calls[c] \in Call
  OBVIOUS
<1>1. ASSUME NEW r \in Request, AcquireMaintenance(c, r)
      PROVE  TypeOK'
  <2>1. calls' \in [Client \cup Watchdog -> Call]
    BY <1>1, BeginType, CallTypes DEF AcquireMaintenance
  <2> QED
    BY <1>1, <2>1, ReapType DEF AcquireMaintenance
<1>2. ASSUME AcquireMaintenanceCas(c)
      PROVE  TypeOK'
  <2>1. calls' \in [Client \cup Watchdog -> Call]
    BY <1>2, ReturnType DEF AcquireMaintenanceCas
  <2>2. calls[c].req \in Request
    BY <1>2, <1>c, CallFields DEF AcquireMaintenanceCas
  <2>3. minted + 1 \in Id /\ minted + 1 \in 0..MaxId
    BY <1>2, ConstantsAssumption DEF AcquireMaintenanceCas, Id
  <2>4. [id |-> minted + 1, req |-> calls[c].req, live |-> TRUE,
         state |-> "ACTIVE"] \in Lease
    BY <2>2, <2>3 DEF Lease, LeaseState
  <2> QED
    BY <1>2, <2>1, <2>3, <2>4 DEF AcquireMaintenanceCas
<1>3. ASSUME NEW m \in maintenance, HeartbeatMaintenance(c, m)
      PROVE  TypeOK'
  <2>1. m.id \in Id /\ m.live \in BOOLEAN
    BY DEF Lease
  <2>2. calls' \in [Client \cup Watchdog -> Call]
    BY <1>3, <2>1, BeginType, CallTypes DEF HeartbeatMaintenance
  <2> QED
    BY <1>3, <2>2 DEF HeartbeatMaintenance, document
<1>4. ASSUME HeartbeatMaintenanceCas(c)
      PROVE  TypeOK'
  <2>1. calls' \in [Client \cup Watchdog -> Call]
    BY <1>4, ReturnType DEF HeartbeatMaintenanceCas
  <2> QED
    BY <1>4, <2>1, LeaseUpdates DEF HeartbeatMaintenanceCas
<1>5. ASSUME NEW id \in Id, ReleaseMaintenance(c, id)
      PROVE  TypeOK'
  <2>1. PICK m \in ReapedMaintenance(Id) :
           Begin(c, [op |-> "releaseMaintenance", id |-> id, live |-> m.live])
    BY <1>5 DEF ReleaseMaintenance
  <2>2. m \in Lease
    BY LeaseUpdates DEF ReapedMaintenance
  <2>3. calls' \in [Client \cup Watchdog -> Call]
    BY <2>1, <2>2, BeginType, CallTypes DEF Lease
  <2> QED
    BY <1>5, <2>3, ReapType DEF ReleaseMaintenance
<1>6. ASSUME ReleaseMaintenanceCas(c)
      PROVE  TypeOK'
  <2>1. calls' \in [Client \cup Watchdog -> Call]
    BY <1>6, ReturnType DEF ReleaseMaintenanceCas
  <2>2. [kind |-> "maintenance", id |-> calls[c].id] \in Receipt
    BY <1>6, <1>c, CallFields DEF ReleaseMaintenanceCas, Receipt
  <2>3. /\ releaseReceipts' \in Seq(Receipt)
        /\ Len(releaseReceipts') <= ReceiptLimit
    BY <1>6, <2>2, LogType DEF ReleaseMaintenanceCas
  <2> QED
    BY <1>6, <2>1, <2>3 DEF ReleaseMaintenanceCas
<1>7. \A m \in maintenance : m.id \in Id
  BY DEF Lease
<1> QED
  BY <1>1, <1>2, <1>3, <1>4, <1>5, <1>6, <1>7 DEF MaintenanceStep

LEMMA WorkloadStepType ==
    ASSUME TypeOK, NEW c \in Client, WorkloadStep(c)
    PROVE  TypeOK'
<1> USE DEF TypeOK
<1>c. calls[c] \in Call
  OBVIOUS
<1>1. ASSUME NEW r \in Request, AcquireWorkload(c, r)
      PROVE  TypeOK'
  <2>1. calls' \in [Client \cup Watchdog -> Call]
    BY <1>1, BeginType, CallTypes DEF AcquireWorkload
  <2> QED
    BY <1>1, <2>1, ReapType DEF AcquireWorkload
<1>2. ASSUME NEW hosts \in SUBSET Host, AcquireWorkloadCas(c, hosts)
      PROVE  TypeOK'
  <2>1. calls' \in [Client \cup Watchdog -> Call]
    BY <1>2, ReturnType DEF AcquireWorkloadCas
  <2>2. calls[c].req \in Request
    BY <1>2, <1>c, CallFields DEF AcquireWorkloadCas
  <2>3. minted + 1 \in Id /\ minted + 1 \in 0..MaxId
    BY <1>2, ConstantsAssumption DEF AcquireWorkloadCas, Id
  <2>4. [id |-> minted + 1, req |-> calls[c].req, hosts |-> hosts,
         live |-> TRUE, state |-> "PREPARED", version |-> 0,
         generation |-> 0, owner |-> NoOwner, ownerLive |-> FALSE,
         receipt |-> FALSE] \in Workload
    BY <2>2, <2>3 DEF Workload, RecoveryState
  <2> QED
    BY <1>2, <2>1, <2>3, <2>4 DEF AcquireWorkloadCas
<1>3. ASSUME NEW w \in workloads, HeartbeatWorkload(c, w)
      PROVE  TypeOK'
  <2>1. w.id \in Id /\ w.live \in BOOLEAN
    BY DEF Workload
  <2>2. calls' \in [Client \cup Watchdog -> Call]
    BY <1>3, <2>1, BeginType, CallTypes DEF HeartbeatWorkload
  <2> QED
    BY <1>3, <2>2 DEF HeartbeatWorkload, document
<1>4. ASSUME HeartbeatWorkloadCas(c)
      PROVE  TypeOK'
  <2>1. calls' \in [Client \cup Watchdog -> Call]
    BY <1>4, ReturnType DEF HeartbeatWorkloadCas
  <2> QED
    BY <1>4, <2>1, WorkloadUpdates DEF HeartbeatWorkloadCas
<1>5. ASSUME NEW id \in Id, ReleaseWorkload(c, id)
      PROVE  TypeOK'
  <2>1. PICK w \in ReapedWorkloads(Id) :
           Begin(c, [op |-> "releaseWorkload", id |-> id, live |-> w.live])
    BY <1>5 DEF ReleaseWorkload
  <2>2. w \in Workload
    <3>1. workloads' = ReapedWorkloads(Id)
      BY <1>5 DEF ReleaseWorkload, Reap
    <3> QED
      BY <1>5, <3>1, <2>1, ReapType DEF ReleaseWorkload
  <2>3. calls' \in [Client \cup Watchdog -> Call]
    BY <2>1, <2>2, BeginType, CallTypes DEF Workload
  <2> QED
    BY <1>5, <2>3, ReapType DEF ReleaseWorkload
<1>6. ASSUME ReleaseWorkloadCas(c)
      PROVE  TypeOK'
  <2>1. calls' \in [Client \cup Watchdog -> Call]
    BY <1>6, ReturnType DEF ReleaseWorkloadCas
  <2>2. [kind |-> "workload", id |-> calls[c].id] \in Receipt
    BY <1>6, <1>c, CallFields DEF ReleaseWorkloadCas, Receipt
  <2>3. /\ releaseReceipts' \in Seq(Receipt)
        /\ Len(releaseReceipts') <= ReceiptLimit
    BY <1>6, <2>2, LogType DEF ReleaseWorkloadCas
  <2> QED
    BY <1>6, <2>1, <2>3 DEF ReleaseWorkloadCas
<1>7. \A w \in workloads : w.id \in Id
  BY DEF Workload
<1> QED
  BY <1>1, <1>2, <1>3, <1>4, <1>5, <1>6, <1>7 DEF WorkloadStep

LEMMA RecoveryStepType ==
    ASSUME TypeOK, NEW c \in Client, RecoveryStep(c)
    PROVE  TypeOK'
<1> USE DEF TypeOK
<1>c. calls[c] \in Call
  OBVIOUS
<1>1. ASSUME NEW w \in workloads, NEW o \in Owner, AdoptRecovery(c, w, o)
      PROVE  TypeOK'
  <2>1. [op |-> "adopt", id |-> w.id, generation |-> w.generation,
         owner |-> o] \in Call
    BY DEF Call, Workload
  <2> QED
    BY <1>1, <2>1, BeginType DEF AdoptRecovery, document
<1>2. ASSUME NEW w \in workloads, HeartbeatRecovery(c, w)
      PROVE  TypeOK'
  <2>1. [op |-> "heartbeatRecovery", id |-> w.id, generation |-> w.generation,
         owner |-> w.owner, live |-> w.ownerLive] \in Call
    BY <1>2 DEF HeartbeatRecovery, Call, Workload
  <2> QED
    BY <1>2, <2>1, BeginType DEF HeartbeatRecovery, document
<1>3. ASSUME NEW w \in workloads, NEW to \in RecoveryState,
             NEW receipt \in BOOLEAN, TransitionRecovery(c, w, to, receipt)
      PROVE  TypeOK'
  <2>1. [op |-> "transition", id |-> w.id, generation |-> w.generation,
         owner |-> w.owner, version |-> w.version, from |-> w.state,
         to |-> to, receipt |-> receipt] \in Call
    BY DEF Call, Workload
  <2> QED
    BY <1>3, <2>1, BeginType DEF TransitionRecovery, document
<1>4. ASSUME NEW w \in workloads, ResolveRecovery(c, w)
      PROVE  TypeOK'
  <2>1. [op |-> "resolve", id |-> w.id, generation |-> w.generation,
         owner |-> w.owner, version |-> w.version] \in Call
    BY DEF Call, Workload
  <2> QED
    BY <1>4, <2>1, BeginType DEF ResolveRecovery, document
<1>5. ASSUME AdoptRecoveryCas(c)
      PROVE  TypeOK'
  <2>1. calls' \in [Client \cup Watchdog -> Call]
    BY <1>5, ReturnType DEF AdoptRecoveryCas
  <2>2. calls[c].owner \in Owner
    BY <1>5, <1>c, CallFields DEF AdoptRecoveryCas
  <2>3. \A w \in workloads :
           [w EXCEPT !.generation = @ + 1, !.owner = calls[c].owner,
                     !.ownerLive = TRUE] \in Workload
    <3>1. \A w \in workloads : w.generation + 1 \in Nat
      BY DEF Workload
    <3> QED
      BY <2>2, <3>1, AdoptedWorkload
  <2> QED
    BY <1>5, <2>1, <2>3 DEF AdoptRecoveryCas
<1>6. ASSUME HeartbeatRecoveryCas(c)
      PROVE  TypeOK'
  <2>1. calls' \in [Client \cup Watchdog -> Call]
    BY <1>6, ReturnType DEF HeartbeatRecoveryCas
  <2> QED
    BY <1>6, <2>1, WorkloadUpdates DEF HeartbeatRecoveryCas
<1>7. ASSUME TransitionRecoveryCas(c)
      PROVE  TypeOK'
  <2>1. calls' \in [Client \cup Watchdog -> Call]
    BY <1>7, ReturnType DEF TransitionRecoveryCas
  <2>2. /\ calls[c].to \in RecoveryState
        /\ calls[c].version \in Nat
        /\ calls[c].receipt \in BOOLEAN
    BY <1>7, <1>c, CallFields DEF TransitionRecoveryCas
  <2>3. \A w \in workloads :
           [w EXCEPT !.state = calls[c].to, !.version = calls[c].version + 1,
                     !.receipt = calls[c].receipt,
                     !.live = @ /\ calls[c].to # "UNKNOWN"] \in Workload
    <3>1. calls[c].version + 1 \in Nat
      BY <2>2
    <3>2. \A w \in workloads :
             (w.live /\ calls[c].to # "UNKNOWN") \in BOOLEAN
      OBVIOUS
    <3> QED
      BY <2>2, <3>1, <3>2, TransitionedWorkload
  <2> QED
    BY <1>7, <2>1, <2>3 DEF TransitionRecoveryCas
<1>8. ASSUME ResolveRecoveryCas(c)
      PROVE  TypeOK'
  <2>1. calls' \in [Client \cup Watchdog -> Call]
    BY <1>8, ReturnType DEF ResolveRecoveryCas
  <2>2. [kind |-> "workload", id |-> calls[c].id] \in Receipt
    BY <1>8, <1>c, CallFields DEF ResolveRecoveryCas, Receipt
  <2>3. /\ releaseReceipts' \in Seq(Receipt)
        /\ Len(releaseReceipts') <= ReceiptLimit
    BY <1>8, <2>2, LogType DEF ResolveRecoveryCas
  <2> QED
    BY <1>8, <2>1, <2>3 DEF ResolveRecoveryCas
<1> QED
  BY <1>1, <1>2, <1>3, <1>4, <1>5, <1>6, <1>7, <1>8 DEF RecoveryStep

LEMMA InferenceStepType ==
    ASSUME TypeOK, NEW c \in Client, InferenceStep(c)
    PROVE  TypeOK'
<1> USE DEF TypeOK
<1>c. calls[c] \in Call
  OBVIOUS
<1>1. ASSUME NEW r \in Request, AcquireInference(c, r)
      PROVE  TypeOK'
  <2>1. {w.id : w \in {v \in workloads : v.live}} \in SUBSET Id
    BY DEF Workload
  <2>2. calls' \in [Client \cup Watchdog -> Call]
    BY <1>1, <2>1, BeginType, CallTypes DEF AcquireInference
  <2> QED
    BY <1>1, <2>2, ReapType DEF AcquireInference
<1>2. ASSUME NEW h \in Host, NEW k \in ResidencyKey, NEW mode \in Mode,
             NEW proof \in {NoProof} \cup Id,
             AcquireInferenceCas(c, h, k, mode, proof)
      PROVE  TypeOK'
  <2>1. calls' \in [Client \cup Watchdog -> Call]
    BY <1>2, ReturnType DEF AcquireInferenceCas
  <2>2. calls[c].req \in Request
    BY <1>2, <1>c, CallFields DEF AcquireInferenceCas
  <2>3. minted + 1 \in Id /\ minted + 1 \in 0..MaxId
    BY <1>2, ConstantsAssumption DEF AcquireInferenceCas, Id
  <2>4. [id |-> minted + 1, req |-> calls[c].req, host |-> h, key |-> k,
         mode |-> mode, proof |-> proof, live |-> TRUE, state |-> "ACTIVE"]
           \in Inference
    BY <2>2, <2>3 DEF Inference, LeaseState
  <2> QED
    BY <1>2, <2>1, <2>3, <2>4 DEF AcquireInferenceCas
<1>3. ASSUME NEW i \in inferences, HeartbeatInference(c, i)
      PROVE  TypeOK'
  <2>1. i.id \in Id /\ i.live \in BOOLEAN
    BY DEF Inference
  <2>2. calls' \in [Client \cup Watchdog -> Call]
    BY <1>3, <2>1, BeginType, CallTypes DEF HeartbeatInference
  <2> QED
    BY <1>3, <2>2 DEF HeartbeatInference, document
<1>4. ASSUME HeartbeatInferenceCas(c)
      PROVE  TypeOK'
  <2>1. calls' \in [Client \cup Watchdog -> Call]
    BY <1>4, ReturnType DEF HeartbeatInferenceCas
  <2> QED
    BY <1>4, <2>1, InferenceUpdates DEF HeartbeatInferenceCas
<1>5. ASSUME NEW id \in Id, ReleaseInference(c, id)
      PROVE  TypeOK'
  <2>1. PICK i \in ReapedInferences(Id) :
           Begin(c, [op |-> "releaseInference", id |-> id, live |-> i.live])
    BY <1>5 DEF ReleaseInference
  <2>2. i \in Inference
    BY <2>1, InferenceUpdates DEF ReapedInferences
  <2>3. calls' \in [Client \cup Watchdog -> Call]
    BY <2>1, <2>2, BeginType, CallTypes DEF Inference
  <2> QED
    BY <1>5, <2>3, ReapType DEF ReleaseInference
<1>6. ASSUME ReleaseInferenceCas(c)
      PROVE  TypeOK'
  <2>1. calls' \in [Client \cup Watchdog -> Call]
    BY <1>6, ReturnType DEF ReleaseInferenceCas
  <2>2. [kind |-> "inference", id |-> calls[c].id] \in Receipt
    BY <1>6, <1>c, CallFields DEF ReleaseInferenceCas, Receipt
  <2>3. /\ releaseReceipts' \in Seq(Receipt)
        /\ Len(releaseReceipts') <= ReceiptLimit
    BY <1>6, <2>2, LogType DEF ReleaseInferenceCas
  <2> QED
    BY <1>6, <2>1, <2>3 DEF ReleaseInferenceCas
<1>7. \A i \in inferences : i.id \in Id
  BY DEF Inference
<1> QED
  BY <1>1, <1>2, <1>3, <1>4, <1>5, <1>6, <1>7 DEF InferenceStep

LEMMA OperatorStepType ==
    ASSUME TypeOK, OperatorStep
    PROVE  TypeOK'
<1> USE DEF TypeOK
<1>1. ASSUME NEW m \in maintenance, MarkMaintenanceUnknown(m)
      PROVE  TypeOK'
  BY <1>1, LeaseUpdates DEF MarkMaintenanceUnknown
<1>2. ASSUME NEW m \in maintenance, RecoverMaintenance(m)
      PROVE  TypeOK'
  <2>1. [kind |-> "maintenance-recovery", id |-> m.id] \in Receipt
    BY DEF Receipt, Lease
  <2>2. /\ releaseReceipts' \in Seq(Receipt)
        /\ Len(releaseReceipts') <= ReceiptLimit
    BY <1>2, <2>1, LogType DEF RecoverMaintenance
  <2> QED
    BY <1>2, <2>2 DEF RecoverMaintenance
<1>3. ASSUME NEW i \in inferences, MarkInferenceUnknown(i)
      PROVE  TypeOK'
  BY <1>3, InferenceUpdates DEF MarkInferenceUnknown
<1>4. ASSUME NEW i \in inferences, RecoverInference(i)
      PROVE  TypeOK'
  BY <1>4 DEF RecoverInference
<1>5. ASSUME RestartRuntime
      PROVE  TypeOK'
  <2>1. restarted' \subseteq Id
    BY <1>5 DEF RestartRuntime, Inference
  <2> QED
    BY <1>5, <2>1 DEF RestartRuntime, document
<1> QED
  BY <1>1, <1>2, <1>3, <1>4, <1>5 DEF OperatorStep

LEMMA WatchdogStepType ==
    ASSUME TypeOK, NEW c \in Watchdog, ListActive(c) \/ ReapExpiredCas(c)
    PROVE  TypeOK'
<1> USE DEF TypeOK
<1>1. CASE ListActive(c)
  <2>1. Lapsed \in SUBSET Id
    BY DEF Lapsed, Lease, Workload, Inference
  <2>2. calls' \in [Client \cup Watchdog -> Call]
    BY <1>1, <2>1, BeginType, CallTypes DEF ListActive
  <2> QED
    BY <1>1, <2>2 DEF ListActive, document
<1>2. CASE ReapExpiredCas(c)
  <2>1. calls' \in [Client \cup Watchdog -> Call]
    BY <1>2, ReturnType DEF ReapExpiredCas
  <2> QED
    BY <1>2, <2>1, ReapType DEF ReapExpiredCas
<1> QED
  BY <1>1, <1>2

LEMMA DeadlineType ==
    ASSUME TypeOK, Deadline
    PROVE  TypeOK'
  BY LeaseUpdates, InferenceUpdates, WorkloadUpdates DEF Deadline, TypeOK

LEMMA LostType ==
    ASSUME TypeOK, NEW c \in Client \cup Watchdog, Lost(c)
    PROVE  TypeOK'
<1>1. calls' \in [Client \cup Watchdog -> Call]
  BY ReturnType DEF Lost, TypeOK
<1> QED
  BY <1>1 DEF Lost, document, TypeOK

LEMMA TypeStep == TypeOK /\ [Next]_vars => TypeOK'
<1> SUFFICES ASSUME TypeOK, [Next]_vars
             PROVE  TypeOK'
  OBVIOUS
<1>1. CASE Next
  BY <1>1, MaintenanceStepType, WorkloadStepType, RecoveryStepType,
     InferenceStepType, WatchdogStepType, LostType, OperatorStepType,
     DeadlineType
  DEF Next
<1>2. CASE UNCHANGED vars
  BY <1>2 DEF vars, TypeOK
<1> QED
  BY <1>1, <1>2

LEMMA TypeInit == Init => TypeOK
<1> SUFFICES ASSUME Init
             PROVE  TypeOK
  OBVIOUS
<1>1. calls \in [Client \cup Watchdog -> Call]
  BY CallTypes DEF Init
<1>2. 0 <= ReceiptLimit /\ 0 \in 0..MaxId
  BY ConstantsAssumption
<1> QED
  BY <1>1, <1>2 DEF Init, TypeOK

\* Every value the record ever holds has its type, and the release log never
\* outgrows its slice.
THEOREM TypeCorrect == Spec => []TypeOK
  BY TypeInit, TypeStep, PTL DEF Spec

-----------------------------------------------------------------------------
(* Exclusion.  Every step is one of four: it grants maintenance, a workload *)
(* or an inference, or it grants nothing, and then what identifies the      *)
(* entries (NoGrant) can only disappear.                                    *)

\* Entries with one id are one admission, and no id is ahead of the counter:
\* without it a proof could name two workloads with different hosts.
WorkloadIds ==
    /\ \A w \in workloads : w.id <= minted
    /\ \A v, w \in workloads :
          v.id = w.id => v.req = w.req /\ v.hosts = w.hosts

\* The inductive invariant.
ExclusionInv ==
    /\ TypeOK
    /\ WorkloadIds
    /\ MaintenanceExclusion
    /\ HostOwnership
    /\ ResidencyAgreement
    /\ OneAdmissionPerRequest

SameWorkload(w, x) == w.id = x.id /\ w.req = x.req /\ w.hosts = x.hosts

SameInference(i, x) ==
    /\ i.id = x.id
    /\ i.req = x.req
    /\ i.host = x.host
    /\ i.key = x.key
    /\ i.mode = x.mode
    /\ i.proof = x.proof

NoGrant ==
    /\ maintenance' # {} => maintenance # {}
    /\ \A x \in workloads' : \E w \in workloads : SameWorkload(w, x)
    /\ \A x \in inferences' : \E i \in inferences : SameInference(i, x)
    /\ minted' = minted

LEMMA NoGrantKeepsExclusion ==
    ASSUME ExclusionInv, TypeOK', NoGrant
    PROVE  ExclusionInv'
<1>1. WorkloadIds'
  BY DEF ExclusionInv, WorkloadIds, NoGrant, SameWorkload
<1>2. MaintenanceExclusion'
  BY DEF ExclusionInv, MaintenanceExclusion, NoGrant
<1>3. HostOwnership'
  <2>1. \A v, w \in workloads' : v.id # w.id => v.hosts \cap w.hosts = {}
    BY DEF ExclusionInv, HostOwnership, NoGrant, SameWorkload
  <2>2. \A w \in workloads', i \in inferences' :
           i.host \in w.hosts =>
             i.proof = w.id /\ PrincipalOf[i.req] = PrincipalOf[w.req]
    BY DEF ExclusionInv, HostOwnership, NoGrant, SameWorkload, SameInference
  <2> QED
    BY <2>1, <2>2 DEF HostOwnership
<1>4. ResidencyAgreement'
  BY DEF ExclusionInv, ResidencyAgreement, NoGrant, SameInference
<1>5. OneAdmissionPerRequest'
  BY DEF ExclusionInv, OneAdmissionPerRequest, NoGrant, SameWorkload,
     SameInference
<1> QED
  BY <1>1, <1>2, <1>3, <1>4, <1>5 DEF ExclusionInv

\* A maintenance lease is granted only on an empty record.
LEMMA GrantMaintenanceKeepsExclusion ==
    ASSUME ExclusionInv, TypeOK', NEW c \in Client, AcquireMaintenanceCas(c),
           MaintenanceFilter
    PROVE  ExclusionInv'
  BY DEF ExclusionInv, AcquireMaintenanceCas, MaintenanceFilter, WorkloadIds,
     MaintenanceExclusion, HostOwnership, ResidencyAgreement,
     OneAdmissionPerRequest

\* A workload is granted hosts nobody holds and nobody computes on.
LEMMA GrantWorkloadKeepsExclusion ==
    ASSUME ExclusionInv, TypeOK', NEW c \in Client,
           NEW hosts \in SUBSET Host, AcquireWorkloadCas(c, hosts),
           WorkloadFilter(calls[c].req, hosts)
    PROVE  ExclusionInv'
<1> DEFINE new == [id |-> minted + 1, req |-> calls[c].req, hosts |-> hosts,
                   live |-> TRUE, state |-> "PREPARED", version |-> 0,
                   generation |-> 0, owner |-> NoOwner, ownerLive |-> FALSE,
                   receipt |-> FALSE]
<1>1. /\ workloads' = workloads \cup {new}
      /\ minted' = minted + 1
      /\ UNCHANGED <<maintenance, inferences>>
  BY DEF AcquireWorkloadCas
<1>2. new.id = minted + 1 /\ new.req = calls[c].req /\ new.hosts = hosts
  OBVIOUS
<1>3. minted \in Nat /\ \A w \in workloads : w.id \in Nat
  BY DEF ExclusionInv, TypeOK, Workload, Id
<1>4. /\ maintenance = {}
      /\ \A w \in workloads : w.req # new.req /\ w.hosts \cap new.hosts = {}
      /\ \A i \in inferences : i.host \notin new.hosts
  BY <1>2 DEF WorkloadFilter
<1> HIDE DEF new
<1>5. \A w \in workloads : w.id # new.id
  BY <1>2, <1>3 DEF ExclusionInv, WorkloadIds
<1>6. WorkloadIds'
  <2>1. \A w \in workloads' : w.id <= minted'
    BY <1>1, <1>2, <1>3 DEF ExclusionInv, WorkloadIds
  <2>2. \A v, w \in workloads' :
           v.id = w.id => v.req = w.req /\ v.hosts = w.hosts
    BY <1>1, <1>5 DEF ExclusionInv, WorkloadIds
  <2> QED
    BY <2>1, <2>2 DEF WorkloadIds
<1>7. MaintenanceExclusion'
  BY <1>1, <1>4 DEF MaintenanceExclusion
<1>8. HostOwnership'
  <2>1. \A v, w \in workloads' : v.id # w.id => v.hosts \cap w.hosts = {}
    BY <1>1, <1>4 DEF ExclusionInv, HostOwnership
  <2>2. \A w \in workloads', i \in inferences' :
           i.host \in w.hosts =>
             i.proof = w.id /\ PrincipalOf[i.req] = PrincipalOf[w.req]
    BY <1>1, <1>4 DEF ExclusionInv, HostOwnership
  <2> QED
    BY <2>1, <2>2 DEF HostOwnership
<1>9. ResidencyAgreement'
  BY <1>1 DEF ExclusionInv, ResidencyAgreement
<1>10. OneAdmissionPerRequest'
  BY <1>1, <1>4 DEF ExclusionInv, OneAdmissionPerRequest
<1> QED
  BY <1>6, <1>7, <1>8, <1>9, <1>10 DEF ExclusionInv

\* An inference is granted next to compatible ones, on a host that is free or
\* under the proof of the one workload that reserves it.
LEMMA GrantInferenceKeepsExclusion ==
    ASSUME ExclusionInv, TypeOK', NEW c \in Client,
           NEW h \in Host, NEW k \in ResidencyKey, NEW mode \in Mode,
           NEW proof \in {NoProof} \cup Id,
           AcquireInferenceCas(c, h, k, mode, proof),
           InferenceFilter(calls[c], h, k, mode, proof)
    PROVE  ExclusionInv'
<1> DEFINE new == [id |-> minted + 1, req |-> calls[c].req, host |-> h,
                   key |-> k, mode |-> mode, proof |-> proof, live |-> TRUE,
                   state |-> "ACTIVE"]
<1>1. /\ inferences' = inferences \cup {new}
      /\ minted' = minted + 1
      /\ UNCHANGED <<maintenance, workloads>>
  BY DEF AcquireInferenceCas
<1>2. /\ new.id = minted + 1 /\ new.req = calls[c].req /\ new.host = h
      /\ new.key = k /\ new.mode = mode /\ new.proof = proof
  OBVIOUS
<1>3. minted \in Nat /\ \A w \in workloads : w.id \in Nat
  BY DEF ExclusionInv, TypeOK, Workload, Id
<1>4. /\ maintenance = {}
      /\ \A i \in inferences : i.req # new.req
      /\ \A i \in inferences :
            i.host = new.host =>
              i.mode # "exclusive" /\ new.mode # "exclusive" /\ i.key = new.key
  BY <1>2 DEF InferenceFilter, Incompatible
<1>5. \A w \in workloads :
         new.host \in w.hosts =>
           new.proof = w.id /\ PrincipalOf[new.req] = PrincipalOf[w.req]
  <2>1. CASE proof = NoProof
    BY <2>1, <1>2 DEF InferenceFilter
  <2>2. CASE proof # NoProof
    <3>1. PICK v \in workloads : CoveredBy(calls[c], h, proof, v)
      BY <2>2 DEF InferenceFilter
    <3>2. \A w \in workloads : h \in w.hosts => w.id = v.id
      BY <3>1 DEF CoveredBy, ExclusionInv, HostOwnership
    <3>3. \A w \in workloads : w.id = v.id => w.req = v.req
      BY DEF ExclusionInv, WorkloadIds
    <3> QED
      BY <1>2, <3>1, <3>2, <3>3 DEF CoveredBy
  <2> QED
    BY <2>1, <2>2
<1>6. new.mode \in Mode /\ \A i \in inferences : i.mode \in Mode
  BY <1>2 DEF ExclusionInv, TypeOK, Inference
<1> HIDE DEF new
<1>7. WorkloadIds'
  BY <1>1, <1>3 DEF ExclusionInv, WorkloadIds
<1>8. MaintenanceExclusion'
  BY <1>1, <1>4 DEF MaintenanceExclusion
<1>9. HostOwnership'
  BY <1>1, <1>5 DEF ExclusionInv, HostOwnership
<1>10. ResidencyAgreement'
  BY <1>1, <1>4, <1>6 DEF ExclusionInv, ResidencyAgreement, Mode
<1>11. OneAdmissionPerRequest'
  BY <1>1, <1>4 DEF ExclusionInv, OneAdmissionPerRequest
<1> QED
  BY <1>7, <1>8, <1>9, <1>10, <1>11 DEF ExclusionInv

-----------------------------------------------------------------------------
(* The steps that grant nothing.                                           *)

LEMMA UnchangedKeepsIdentity ==
    /\ \A w : SameWorkload(w, w)
    /\ \A i : SameInference(i, i)
  BY DEF SameWorkload, SameInference

LEMMA ReapGrantsNothing ==
    ASSUME TypeOK, NEW lapsed, Reap(lapsed), minted' = minted
    PROVE  NoGrant
<1>1. \A x \in workloads' : \E w \in workloads : SameWorkload(w, x)
  <2>1. \A w \in workloads :
           SameWorkload(w, [w EXCEPT !.state = "UNKNOWN", !.receipt = TRUE])
    BY DEF SameWorkload, Workload, TypeOK
  <2> QED
    BY <2>1, UnchangedKeepsIdentity DEF Reap, ReapedWorkloads
<1>2. \A x \in inferences' : \E i \in inferences : SameInference(i, x)
  <2>1. \A i \in inferences :
           SameInference(i, [i EXCEPT !.state = "UNKNOWN"])
    BY DEF SameInference, Inference, TypeOK
  <2> QED
    BY <2>1, UnchangedKeepsIdentity DEF Reap, ReapedInferences
<1>3. maintenance' # {} => maintenance # {}
  BY DEF Reap, ReapedMaintenance
<1> QED
  BY <1>1, <1>2, <1>3 DEF NoGrant

LEMMA DocumentUnchangedGrantsNothing ==
    ASSUME UNCHANGED <<maintenance, workloads, inferences, minted>>
    PROVE  NoGrant
  BY UnchangedKeepsIdentity DEF NoGrant

LEMMA MaintenanceStepKeepsExclusion ==
    ASSUME ExclusionInv, TypeOK', NEW c \in Client, MaintenanceStep(c)
    PROVE  ExclusionInv'
<1>t. TypeOK
  BY DEF ExclusionInv
<1>1. ASSUME NEW r \in Request, AcquireMaintenance(c, r)
      PROVE  NoGrant
  BY <1>t, <1>1, ReapGrantsNothing DEF AcquireMaintenance
<1>2. ASSUME AcquireMaintenanceCas(c), ~MaintenanceFilter
      PROVE  NoGrant
  BY <1>2, DocumentUnchangedGrantsNothing DEF AcquireMaintenanceCas
<1>3. ASSUME NEW m \in maintenance, HeartbeatMaintenance(c, m)
      PROVE  NoGrant
  BY <1>3, DocumentUnchangedGrantsNothing DEF HeartbeatMaintenance, document
<1>4. ASSUME HeartbeatMaintenanceCas(c)
      PROVE  NoGrant
  BY <1>4, UnchangedKeepsIdentity DEF HeartbeatMaintenanceCas, NoGrant
<1>5. ASSUME NEW id, ReleaseMaintenance(c, id)
      PROVE  NoGrant
  BY <1>t, <1>5, ReapGrantsNothing DEF ReleaseMaintenance
<1>6. ASSUME ReleaseMaintenanceCas(c)
      PROVE  NoGrant
  BY <1>6, UnchangedKeepsIdentity DEF ReleaseMaintenanceCas, NoGrant
<1> QED
  BY <1>1, <1>2, <1>3, <1>4, <1>5, <1>6, NoGrantKeepsExclusion,
     GrantMaintenanceKeepsExclusion
  DEF MaintenanceStep

LEMMA WorkloadStepKeepsExclusion ==
    ASSUME ExclusionInv, TypeOK', NEW c \in Client, WorkloadStep(c)
    PROVE  ExclusionInv'
<1>t. TypeOK
  BY DEF ExclusionInv
<1>1. ASSUME NEW r \in Request, AcquireWorkload(c, r)
      PROVE  NoGrant
  BY <1>t, <1>1, ReapGrantsNothing DEF AcquireWorkload
<1>2. ASSUME NEW hosts \in SUBSET Host, AcquireWorkloadCas(c, hosts),
             ~WorkloadFilter(calls[c].req, hosts)
      PROVE  NoGrant
  BY <1>2, DocumentUnchangedGrantsNothing DEF AcquireWorkloadCas
<1>3. ASSUME NEW w \in workloads, HeartbeatWorkload(c, w)
      PROVE  NoGrant
  BY <1>3, DocumentUnchangedGrantsNothing DEF HeartbeatWorkload, document
<1>4. ASSUME HeartbeatWorkloadCas(c)
      PROVE  NoGrant
  <2>1. \A w \in workloads :
           SameWorkload(w, [w EXCEPT !.live = TRUE])
    BY <1>t DEF SameWorkload, Workload, TypeOK
  <2>2. \A x \in workloads' : \E w \in workloads : SameWorkload(w, x)
    BY <1>4, <2>1, UnchangedKeepsIdentity DEF HeartbeatWorkloadCas
  <2> QED
    BY <1>4, <2>2, UnchangedKeepsIdentity DEF HeartbeatWorkloadCas, NoGrant
<1>5. ASSUME NEW id, ReleaseWorkload(c, id)
      PROVE  NoGrant
  BY <1>t, <1>5, ReapGrantsNothing DEF ReleaseWorkload
<1>6. ASSUME ReleaseWorkloadCas(c)
      PROVE  NoGrant
  BY <1>6, UnchangedKeepsIdentity DEF ReleaseWorkloadCas, NoGrant
<1> QED
  BY <1>1, <1>2, <1>3, <1>4, <1>5, <1>6, NoGrantKeepsExclusion,
     GrantWorkloadKeepsExclusion
  DEF WorkloadStep

LEMMA RecoveryStepKeepsExclusion ==
    ASSUME ExclusionInv, TypeOK', NEW c \in Client, RecoveryStep(c)
    PROVE  ExclusionInv'
<1>t. TypeOK
  BY DEF ExclusionInv
<1>1. ASSUME NEW w \in workloads, NEW o \in Owner, AdoptRecovery(c, w, o)
      PROVE  NoGrant
  BY <1>1, DocumentUnchangedGrantsNothing DEF AdoptRecovery, document
<1>2. ASSUME NEW w \in workloads, HeartbeatRecovery(c, w)
      PROVE  NoGrant
  BY <1>2, DocumentUnchangedGrantsNothing DEF HeartbeatRecovery, document
<1>3. ASSUME NEW w \in workloads, NEW to \in RecoveryState,
             NEW receipt \in BOOLEAN, TransitionRecovery(c, w, to, receipt)
      PROVE  NoGrant
  BY <1>3, DocumentUnchangedGrantsNothing DEF TransitionRecovery, document
<1>4. ASSUME NEW w \in workloads, ResolveRecovery(c, w)
      PROVE  NoGrant
  BY <1>4, DocumentUnchangedGrantsNothing DEF ResolveRecovery, document
<1>5. ASSUME AdoptRecoveryCas(c)
      PROVE  NoGrant
  <2>1. \A w \in workloads :
           SameWorkload(w, [w EXCEPT !.generation = @ + 1,
                                !.owner = calls[c].owner,
                                !.ownerLive = TRUE])
    BY <1>t DEF SameWorkload, Workload, TypeOK
  <2>2. \A x \in workloads' : \E w \in workloads : SameWorkload(w, x)
    BY <1>5, <2>1, UnchangedKeepsIdentity DEF AdoptRecoveryCas
  <2> QED
    BY <1>5, <2>2, UnchangedKeepsIdentity DEF AdoptRecoveryCas, NoGrant
<1>6. ASSUME HeartbeatRecoveryCas(c)
      PROVE  NoGrant
  <2>1. \A w \in workloads :
           SameWorkload(w, [w EXCEPT !.ownerLive = TRUE])
    BY <1>t DEF SameWorkload, Workload, TypeOK
  <2>2. \A x \in workloads' : \E w \in workloads : SameWorkload(w, x)
    BY <1>6, <2>1, UnchangedKeepsIdentity DEF HeartbeatRecoveryCas
  <2> QED
    BY <1>6, <2>2, UnchangedKeepsIdentity DEF HeartbeatRecoveryCas, NoGrant
<1>7. ASSUME TransitionRecoveryCas(c)
      PROVE  NoGrant
  <2>1. \A w \in workloads :
           SameWorkload(w, [w EXCEPT !.state = calls[c].to,
                                !.version = calls[c].version + 1,
                                !.receipt = calls[c].receipt,
                                !.live = @ /\ calls[c].to # "UNKNOWN"])
    BY <1>t DEF SameWorkload, Workload, TypeOK
  <2>2. \A x \in workloads' : \E w \in workloads : SameWorkload(w, x)
    BY <1>7, <2>1, UnchangedKeepsIdentity DEF TransitionRecoveryCas
  <2> QED
    BY <1>7, <2>2, UnchangedKeepsIdentity DEF TransitionRecoveryCas, NoGrant
<1>8. ASSUME ResolveRecoveryCas(c)
      PROVE  NoGrant
  BY <1>8, UnchangedKeepsIdentity DEF ResolveRecoveryCas, NoGrant
<1> QED
  BY <1>1, <1>2, <1>3, <1>4, <1>5, <1>6, <1>7, <1>8, NoGrantKeepsExclusion
  DEF RecoveryStep

LEMMA InferenceStepKeepsExclusion ==
    ASSUME ExclusionInv, TypeOK', NEW c \in Client, InferenceStep(c)
    PROVE  ExclusionInv'
<1>t. TypeOK
  BY DEF ExclusionInv
<1>1. ASSUME NEW r \in Request, AcquireInference(c, r)
      PROVE  NoGrant
  BY <1>t, <1>1, ReapGrantsNothing DEF AcquireInference
<1>2. ASSUME NEW h \in Host, NEW k \in ResidencyKey, NEW mode \in Mode,
             NEW proof \in {NoProof} \cup Id,
             AcquireInferenceCas(c, h, k, mode, proof),
             ~InferenceFilter(calls[c], h, k, mode, proof)
      PROVE  NoGrant
  BY <1>2, DocumentUnchangedGrantsNothing DEF AcquireInferenceCas
<1>3. ASSUME NEW i \in inferences, HeartbeatInference(c, i)
      PROVE  NoGrant
  BY <1>3, DocumentUnchangedGrantsNothing DEF HeartbeatInference, document
<1>4. ASSUME HeartbeatInferenceCas(c)
      PROVE  NoGrant
  <2>1. \A i \in inferences :
           SameInference(i, [i EXCEPT !.live = TRUE])
    BY <1>t DEF SameInference, Inference, TypeOK
  <2>2. \A x \in inferences' : \E i \in inferences : SameInference(i, x)
    BY <1>4, <2>1, UnchangedKeepsIdentity DEF HeartbeatInferenceCas
  <2> QED
    BY <1>4, <2>2, UnchangedKeepsIdentity DEF HeartbeatInferenceCas, NoGrant
<1>5. ASSUME NEW id, ReleaseInference(c, id)
      PROVE  NoGrant
  BY <1>t, <1>5, ReapGrantsNothing DEF ReleaseInference
<1>6. ASSUME ReleaseInferenceCas(c)
      PROVE  NoGrant
  BY <1>6, UnchangedKeepsIdentity DEF ReleaseInferenceCas, NoGrant
<1> QED
  BY <1>1, <1>2, <1>3, <1>4, <1>5, <1>6, NoGrantKeepsExclusion,
     GrantInferenceKeepsExclusion
  DEF InferenceStep

LEMMA OperatorStepGrantsNothing ==
    ASSUME TypeOK, OperatorStep
    PROVE  NoGrant
<1>1. ASSUME NEW m \in maintenance, MarkMaintenanceUnknown(m)
      PROVE  NoGrant
  BY <1>1, UnchangedKeepsIdentity DEF MarkMaintenanceUnknown, NoGrant
<1>2. ASSUME NEW m \in maintenance, RecoverMaintenance(m)
      PROVE  NoGrant
  BY <1>2, UnchangedKeepsIdentity DEF RecoverMaintenance, NoGrant
<1>3. ASSUME NEW i \in inferences, MarkInferenceUnknown(i)
      PROVE  NoGrant
  <2>1. SameInference(i, [i EXCEPT !.state = "UNKNOWN"])
    BY DEF SameInference, Inference, TypeOK
  <2> QED
    BY <1>3, <2>1, UnchangedKeepsIdentity DEF MarkInferenceUnknown, NoGrant
<1>4. ASSUME NEW i \in inferences, RecoverInference(i)
      PROVE  NoGrant
  BY <1>4, UnchangedKeepsIdentity DEF RecoverInference, NoGrant
<1>5. ASSUME RestartRuntime
      PROVE  NoGrant
  BY <1>5, DocumentUnchangedGrantsNothing DEF RestartRuntime, document
<1> QED
  BY <1>1, <1>2, <1>3, <1>4, <1>5 DEF OperatorStep

LEMMA DeadlineGrantsNothing ==
    ASSUME TypeOK, Deadline
    PROVE  NoGrant
<1>1. \A w \in workloads : /\ SameWorkload(w, [w EXCEPT !.live = FALSE])
                          /\ SameWorkload(w, [w EXCEPT !.ownerLive = FALSE])
  BY DEF SameWorkload, Workload, TypeOK
<1>2. \A i \in inferences : SameInference(i, [i EXCEPT !.live = FALSE])
  BY DEF SameInference, Inference, TypeOK
<1>3. \A x \in workloads' : \E w \in workloads : SameWorkload(w, x)
  BY <1>1, UnchangedKeepsIdentity DEF Deadline
<1>4. \A x \in inferences' : \E i \in inferences : SameInference(i, x)
  BY <1>2, UnchangedKeepsIdentity DEF Deadline
<1> QED
  BY <1>3, <1>4 DEF Deadline, NoGrant

LEMMA ExclusionStep == ExclusionInv /\ [Next]_vars => ExclusionInv'
<1> SUFFICES ASSUME ExclusionInv, [Next]_vars
             PROVE  ExclusionInv'
  OBVIOUS
<1>1. TypeOK /\ TypeOK'
  BY TypeStep DEF ExclusionInv
<1>2. ASSUME NEW c \in Client,
             MaintenanceStep(c) \/ WorkloadStep(c) \/ RecoveryStep(c)
               \/ InferenceStep(c)
      PROVE  ExclusionInv'
  BY <1>1, <1>2, MaintenanceStepKeepsExclusion, WorkloadStepKeepsExclusion,
     RecoveryStepKeepsExclusion, InferenceStepKeepsExclusion
<1>3. ASSUME NEW c \in Watchdog, ListActive(c) \/ ReapExpiredCas(c)
      PROVE  NoGrant
  BY <1>1, <1>3, ReapGrantsNothing, DocumentUnchangedGrantsNothing
  DEF ListActive, ReapExpiredCas, document
<1>4. ASSUME NEW c \in Client \cup Watchdog, Lost(c)
      PROVE  NoGrant
  BY <1>4, DocumentUnchangedGrantsNothing DEF Lost, document
<1>5. ASSUME OperatorStep \/ Deadline
      PROVE  NoGrant
  BY <1>1, <1>5, OperatorStepGrantsNothing, DeadlineGrantsNothing
<1>6. ASSUME UNCHANGED vars
      PROVE  NoGrant
  BY <1>6, DocumentUnchangedGrantsNothing DEF vars
<1> QED
  BY <1>1, <1>2, <1>3, <1>4, <1>5, <1>6, NoGrantKeepsExclusion DEF Next

LEMMA ExclusionInit == Init => ExclusionInv
<1> SUFFICES ASSUME Init
             PROVE  ExclusionInv
  OBVIOUS
<1>1. TypeOK
  BY TypeInit
<1> QED
  BY <1>1
  DEF Init, ExclusionInv, WorkloadIds, MaintenanceExclusion, HostOwnership,
      ResidencyAgreement, OneAdmissionPerRequest

\* The types, the uniqueness of ids and the four exclusions, together.
THEOREM ExclusionInvariant == Spec => []ExclusionInv
  BY ExclusionInit, ExclusionStep, PTL DEF Spec

\* Maintenance excludes every workload and inference in every behaviour.
THEOREM MaintenanceIsExclusive == Spec => []MaintenanceExclusion
<1>1. ExclusionInv => MaintenanceExclusion
  BY DEF ExclusionInv
<1> QED
  BY <1>1, ExclusionInvariant, PTL

\* A reserved host serves its workload only, in every behaviour.
THEOREM HostsAreOwned == Spec => []HostOwnership
<1>1. ExclusionInv => HostOwnership
  BY DEF ExclusionInv
<1> QED
  BY <1>1, ExclusionInvariant, PTL

\* No admitted inference evicts the model of another, in every behaviour.
THEOREM ResidenciesAgree == Spec => []ResidencyAgreement
<1>1. ExclusionInv => ResidencyAgreement
  BY DEF ExclusionInv
<1> QED
  BY <1>1, ExclusionInvariant, PTL

\* Retries with one key never hold two admissions, in every behaviour.
THEOREM RequestsAreIdempotent == Spec => []OneAdmissionPerRequest
<1>1. ExclusionInv => OneAdmissionPerRequest
  BY DEF ExclusionInv
<1> QED
  BY <1>1, ExclusionInvariant, PTL

-----------------------------------------------------------------------------
(* The refinement.  Every step of the record is a step of RuntimeExclusion: *)
(* a grant or an end of one holder, the loss of some outcomes, or nothing.  *)

\* No two entries of an array carry one id, and no inference's id is ahead of
\* the counter.  (Ids of workloads: WorkloadIds.)
OneLease == \A m, n \in maintenance : m = n
DistinctWorkloads == \A v, w \in workloads : v.id = w.id => v = w
DistinctInferences ==
    /\ \A i, j \in inferences : i.id = j.id => i = j
    /\ \A i \in inferences : i.id <= minted

DistinctEntries == OneLease /\ DistinctWorkloads /\ DistinctInferences

\* The holders of the abstract lock: what Exclusion substitutes.
LockLease(m) == [id |-> m.id, unknown |-> m.state = "UNKNOWN"]
LockWorkload(w) ==
    [id |-> w.id, hosts |-> w.hosts, principal |-> PrincipalOf[w.req]]
LockInference(i) ==
    [id |-> i.id, host |-> i.host, key |-> i.key, mode |-> i.mode,
     proof |-> i.proof, principal |-> PrincipalOf[i.req],
     unknown |-> i.state = "UNKNOWN"]

LockMaintenance == {LockLease(m) : m \in maintenance}
LockWorkloads == {LockWorkload(w) : w \in workloads}
LockInferences == {LockInference(i) : i \in inferences}

\* The step changes nothing that the lock sees.
Stutter ==
    /\ LockMaintenance' = LockMaintenance
    /\ LockWorkloads' = LockWorkloads
    /\ LockInferences' = LockInferences
    /\ minted' = minted

LEMMA StutterRefines ==
    ASSUME Stutter PROVE UNCHANGED Exclusion!lockVars
  BY DEF Stutter, LockMaintenance, LockWorkloads, LockInferences, LockLease,
     LockWorkload, LockInference, Exclusion!lockVars

\* The lock's initial states and its LoseTrack, in these names.
LEMMA LockNames ==
    /\ Exclusion!Init <=> /\ LockMaintenance = {}
                          /\ LockWorkloads = {}
                          /\ LockInferences = {}
                          /\ 1..minted = {}
    /\ \A lost : Exclusion!LoseTrack(lost) <=>
          /\ LockMaintenance' = {[m EXCEPT !.unknown = @ \/ m.id \in lost] :
                         m \in LockMaintenance}
          /\ LockInferences' = {[i EXCEPT !.unknown = @ \/ i.id \in lost] :
                         i \in LockInferences}
          /\ LockWorkloads' = LockWorkloads
          /\ (1..minted)' = 1..minted
  BY DEF Exclusion!Init, Exclusion!LoseTrack, LockMaintenance, LockWorkloads,
     LockInferences, LockLease, LockWorkload, LockInference

\* To the lock, an entry whose outcome is lost is the quarantined entry.
LEMMA LostLease ==
    ASSUME NEW m \in Lease, NEW lost
    PROVE LET forgotten == [LockLease(m) EXCEPT !.unknown = @ \/ m.id \in lost]
          IN  /\ m.id \notin lost => forgotten = LockLease(m)
              /\ m.id \in lost =>
                    forgotten = LockLease([m EXCEPT !.state = "UNKNOWN"])
<1>1. \A b : [LockLease(m) EXCEPT !.unknown = b] = [id |-> m.id, unknown |-> b]
  BY DEF LockLease
<1>2. LockLease(m).unknown = (m.state = "UNKNOWN")
  BY DEF LockLease
<1>3. CASE m.id \in lost
  <2>1. (LockLease(m).unknown \/ m.id \in lost) = TRUE
    BY <1>3
  <2>2. LockLease([m EXCEPT !.state = "UNKNOWN"]) =
          [id |-> m.id, unknown |-> TRUE]
    BY DEF LockLease, Lease
  <2> QED
    BY <1>1, <1>3, <2>1, <2>2
<1>4. CASE m.id \notin lost
  <2>1. (LockLease(m).unknown \/ m.id \in lost) = LockLease(m).unknown
    BY <1>2, <1>4
  <2>2. [LockLease(m) EXCEPT !.unknown = LockLease(m).unknown] = LockLease(m)
    BY DEF LockLease
  <2> QED
    BY <1>4, <2>1, <2>2
<1> QED
  BY <1>3, <1>4

LEMMA LostInference ==
    ASSUME NEW i \in Inference, NEW lost
    PROVE LET forgotten ==
                [LockInference(i) EXCEPT !.unknown = @ \/ i.id \in lost]
          IN  /\ i.id \notin lost => forgotten = LockInference(i)
              /\ i.id \in lost =>
                    forgotten = LockInference([i EXCEPT !.state = "UNKNOWN"])
<1>1. \A b : [LockInference(i) EXCEPT !.unknown = b] =
               [id |-> i.id, host |-> i.host, key |-> i.key, mode |-> i.mode,
                proof |-> i.proof, principal |-> PrincipalOf[i.req],
                unknown |-> b]
  BY DEF LockInference
<1>2. LockInference(i).unknown = (i.state = "UNKNOWN")
  BY DEF LockInference
<1>3. CASE i.id \in lost
  <2>1. (LockInference(i).unknown \/ i.id \in lost) = TRUE
    BY <1>3
  <2>2. LockInference([i EXCEPT !.state = "UNKNOWN"]) =
          [id |-> i.id, host |-> i.host, key |-> i.key, mode |-> i.mode,
           proof |-> i.proof, principal |-> PrincipalOf[i.req],
           unknown |-> TRUE]
    BY DEF LockInference, Inference
  <2> QED
    BY <1>1, <1>3, <2>1, <2>2
<1>4. CASE i.id \notin lost
  <2>1. (LockInference(i).unknown \/ i.id \in lost) = LockInference(i).unknown
    BY <1>2, <1>4
  <2>2. [LockInference(i) EXCEPT !.unknown = LockInference(i).unknown] =
          LockInference(i)
    BY DEF LockInference
  <2> QED
    BY <1>4, <2>1, <2>2
<1> QED
  BY <1>3, <1>4

\* What the refinement needs of the record.
RefinementInv == ExclusionInv /\ DistinctEntries

\* The entries of `lost` are quarantined, the workloads keep their hosts.
Quarantine(lost) ==
    /\ maintenance' = {IF m.id \in lost THEN [m EXCEPT !.state = "UNKNOWN"]
                                        ELSE m : m \in maintenance}
    /\ inferences' = {IF i.id \in lost THEN [i EXCEPT !.state = "UNKNOWN"]
                                       ELSE i : i \in inferences}
    /\ LockWorkloads' = LockWorkloads
    /\ minted' = minted

LEMMA QuarantineRefines ==
    ASSUME TypeOK, NEW lost \in SUBSET Id, Quarantine(lost)
    PROVE  Exclusion!LoseTrack(lost)
<1>1. LockMaintenance' = {[m EXCEPT !.unknown = @ \/ m.id \in lost] :
                            m \in LockMaintenance}
  <2> DEFINE after(m) ==
               IF m.id \in lost THEN [m EXCEPT !.state = "UNKNOWN"] ELSE m
             forgotten(m) ==
               [LockLease(m) EXCEPT !.unknown = @ \/ m.id \in lost]
  <2>1. LockMaintenance' = {LockLease(m) : m \in maintenance'}
    BY DEF LockMaintenance, LockLease
  <2>2. maintenance' = {after(m) : m \in maintenance}
    BY DEF Quarantine
  <2>3. \A m \in maintenance : forgotten(m) = LockLease(after(m))
    BY LostLease DEF TypeOK
  <2>4. \A m \in maintenance : LockLease(m).id = m.id
    BY DEF LockLease
  <2>5. {[m EXCEPT !.unknown = @ \/ m.id \in lost] : m \in LockMaintenance} =
          {forgotten(m) : m \in maintenance}
    BY <2>4 DEF LockMaintenance
  <2> HIDE DEF after, forgotten
  <2> QED
    BY <2>1, <2>2, <2>3, <2>5
<1>2. LockInferences' = {[i EXCEPT !.unknown = @ \/ i.id \in lost] :
                            i \in LockInferences}
  <2> DEFINE after(i) ==
               IF i.id \in lost THEN [i EXCEPT !.state = "UNKNOWN"] ELSE i
             forgotten(i) ==
               [LockInference(i) EXCEPT !.unknown = @ \/ i.id \in lost]
  <2>1. LockInferences' = {LockInference(i) : i \in inferences'}
    BY DEF LockInferences, LockInference
  <2>2. inferences' = {after(i) : i \in inferences}
    BY DEF Quarantine
  <2>3. \A i \in inferences : forgotten(i) = LockInference(after(i))
    BY LostInference DEF TypeOK
  <2>4. \A i \in inferences : LockInference(i).id = i.id
    BY DEF LockInference
  <2>5. {[i EXCEPT !.unknown = @ \/ i.id \in lost] : i \in LockInferences} =
          {forgotten(i) : i \in inferences}
    BY <2>4 DEF LockInferences
  <2> HIDE DEF after, forgotten
  <2> QED
    BY <2>1, <2>2, <2>3, <2>5
<1> QED
  BY <1>1, <1>2, LockNames DEF Quarantine

\* The step is one of the lock's, or invisible to it.
Implemented == [Exclusion!Next]_(Exclusion!lockVars)

LEMMA LoseTrackImplemented ==
    ASSUME NEW lost \in SUBSET Id, Exclusion!LoseTrack(lost)
    PROVE  Implemented
<1>1. Exclusion!Next
  BY DEF Exclusion!Next
<1> QED
  BY <1>1 DEF Implemented

LEMMA QuarantineImplemented ==
    ASSUME TypeOK, NEW lost \in SUBSET Id, Quarantine(lost)
    PROVE  Implemented
  BY QuarantineRefines, LoseTrackImplemented

\* The lock's End, in the names above.
LEMMA EndNames ==
    \A id : Exclusion!End(id) <=>
       /\ \/ /\ LockMaintenance' = {m \in LockMaintenance : m.id # id}
             /\ UNCHANGED <<LockWorkloads, LockInferences>>
          \/ /\ LockWorkloads' = {w \in LockWorkloads : w.id # id}
             /\ UNCHANGED <<LockMaintenance, LockInferences>>
          \/ /\ LockInferences' = {i \in LockInferences : i.id # id}
             /\ UNCHANGED <<LockMaintenance, LockWorkloads>>
       /\ (1..minted)' = 1..minted
  BY DEF Exclusion!End, LockMaintenance, LockWorkloads, LockInferences,
     LockLease, LockWorkload, LockInference

LEMMA UnchangedLock ==
    /\ UNCHANGED maintenance => UNCHANGED LockMaintenance
    /\ UNCHANGED workloads => UNCHANGED LockWorkloads
    /\ UNCHANGED inferences => UNCHANGED LockInferences
    /\ UNCHANGED minted => (1..minted)' = 1..minted
  BY DEF LockMaintenance, LockWorkloads, LockInferences, LockLease,
     LockWorkload, LockInference

LEMMA EndMaintenance ==
    ASSUME NEW id, maintenance' = {m \in maintenance : m.id # id},
           UNCHANGED <<workloads, inferences, minted>>
    PROVE  Exclusion!End(id)
<1>1. LockMaintenance' = {m \in LockMaintenance : m.id # id}
  BY DEF LockMaintenance, LockLease
<1> QED
  BY <1>1, EndNames, UnchangedLock

LEMMA EndWorkload ==
    ASSUME NEW id, workloads' = {w \in workloads : w.id # id},
           UNCHANGED <<maintenance, inferences, minted>>
    PROVE  Exclusion!End(id)
<1>1. LockWorkloads' = {w \in LockWorkloads : w.id # id}
  BY DEF LockWorkloads, LockWorkload
<1> QED
  BY <1>1, EndNames, UnchangedLock

LEMMA EndInference ==
    ASSUME NEW id, inferences' = {i \in inferences : i.id # id},
           UNCHANGED <<maintenance, workloads, minted>>
    PROVE  Exclusion!End(id)
<1>1. LockInferences' = {i \in LockInferences : i.id # id}
  BY DEF LockInferences, LockInference
<1> QED
  BY <1>1, EndNames, UnchangedLock

LEMMA HeldOnce ==
    ASSUME RefinementInv
    PROVE  /\ \A m \in maintenance : m.id \in Id
           /\ \A i \in inferences : i.id \in Id
           /\ maintenance # {} => inferences = {}
           /\ \A m, n \in maintenance : m = n
           /\ \A i, j \in inferences : i.id = j.id => i = j
  BY DEF RefinementInv, ExclusionInv, TypeOK, Lease, Inference,
     MaintenanceExclusion, DistinctEntries, OneLease, DistinctInferences

\* The entries a reap quarantines are those it noticed.  The ids tell them
\* apart: with two entries of one id the lock would lose track of both.
LEMMA ReapRefines ==
    ASSUME RefinementInv, NEW lapsed, Reap(lapsed), UNCHANGED minted
    PROVE  Implemented
<1> DEFINE noticed(x) == x.id \in lapsed /\ ~x.live /\ x.state = "ACTIVE"
           lost == {id \in Id :
                      \/ \E m \in maintenance : noticed(m) /\ m.id = id
                      \/ \E i \in inferences : noticed(i) /\ i.id = id}
<1>1. \A m \in maintenance : noticed(m) <=> m.id \in lost
  BY HeldOnce
<1>2. \A i \in inferences : noticed(i) <=> i.id \in lost
  BY HeldOnce
<1>3. maintenance' = {IF m.id \in lost THEN [m EXCEPT !.state = "UNKNOWN"]
                                       ELSE m : m \in maintenance}
  <2>1. maintenance' = {IF noticed(m) THEN [m EXCEPT !.state = "UNKNOWN"]
                                       ELSE m : m \in maintenance}
    BY DEF Reap, ReapedMaintenance
  <2> HIDE DEF lost, noticed
  <2> QED
    BY <1>1, <2>1
<1>4. inferences' = {IF i.id \in lost THEN [i EXCEPT !.state = "UNKNOWN"]
                                      ELSE i : i \in inferences}
  <2>1. inferences' = {IF noticed(i) THEN [i EXCEPT !.state = "UNKNOWN"]
                                      ELSE i : i \in inferences}
    BY DEF Reap, ReapedInferences
  <2> HIDE DEF lost, noticed
  <2> QED
    BY <1>2, <2>1
<1>5. LockWorkloads' = LockWorkloads
  <2>1. \A w \in workloads :
           LockWorkload([w EXCEPT !.state = "UNKNOWN", !.receipt = TRUE])
             = LockWorkload(w)
    BY DEF RefinementInv, ExclusionInv, TypeOK, Workload, LockWorkload
  <2>2. LockWorkloads' = {LockWorkload(w) : w \in workloads'}
    BY DEF LockWorkloads, LockWorkload
  <2> QED
    BY <2>1, <2>2 DEF Reap, ReapedWorkloads, LockWorkloads
<1>6. lost \in SUBSET Id
  OBVIOUS
<1> HIDE DEF lost
<1>7. Quarantine(lost)
  BY <1>3, <1>4, <1>5 DEF Quarantine
<1> QED
  BY <1>6, <1>7, QuarantineImplemented DEF RefinementInv, ExclusionInv

LEMMA StutterImplemented ==
    ASSUME Stutter PROVE Implemented
  BY StutterRefines DEF Implemented

LEMMA DocumentUnchangedImplemented ==
    ASSUME UNCHANGED <<maintenance, workloads, inferences, minted>>
    PROVE  Implemented
  BY UnchangedLock, StutterImplemented DEF Stutter

LEMMA EndImplemented ==
    ASSUME NEW id \in Id, Exclusion!End(id)
    PROVE  Implemented
<1>1. Exclusion!Next
  BY DEF Exclusion!Next
<1> QED
  BY <1>1 DEF Implemented

LEMMA GrantImplemented ==
    ASSUME NEW id \in Id, Exclusion!Grant(id)
    PROVE  Implemented
<1>1. Exclusion!Next
  BY DEF Exclusion!Next
<1> QED
  BY <1>1 DEF Implemented

\* `id` is the next id of the counter.
Minted(id) ==
    /\ id = minted + 1
    /\ id \notin 1..minted
    /\ (1..minted)' = (1..minted) \cup {id}

LEMMA CounterMints ==
    ASSUME TypeOK, minted < MaxId, minted' = minted + 1
    PROVE  \E id \in Id : Minted(id)
<1>1. minted + 1 \in Id
  BY ConstantsAssumption DEF TypeOK, Id
<1>2. Minted(minted + 1)
  BY ConstantsAssumption DEF TypeOK, Minted
<1> QED
  BY <1>1, <1>2

\* The grants: the filter of the update is the guard of the lock.
LEMMA MaintenanceGrantImplemented ==
    ASSUME RefinementInv, NEW c \in Client, AcquireMaintenanceCas(c)
    PROVE  Implemented
<1>1. CASE ~MaintenanceFilter
  BY <1>1, DocumentUnchangedImplemented DEF AcquireMaintenanceCas
<1>2. CASE MaintenanceFilter
  <2> DEFINE new == [id |-> minted + 1, req |-> calls[c].req, live |-> TRUE,
                     state |-> "ACTIVE"]
  <2>1. PICK id \in Id : Minted(id)
    BY <1>2, CounterMints
    DEF AcquireMaintenanceCas, RefinementInv, ExclusionInv
  <2>2. /\ LockMaintenance = {}
        /\ LockWorkloads = {}
        /\ LockInferences = {}
        /\ UNCHANGED <<LockWorkloads, LockInferences>>
    BY <1>2, UnchangedLock
    DEF MaintenanceFilter, AcquireMaintenanceCas, LockMaintenance,
        LockWorkloads, LockInferences
  <2>3. LockMaintenance' = {[id |-> id, unknown |-> FALSE]}
    <3>1. LockLease(new) = [id |-> id, unknown |-> FALSE]
      BY <2>1 DEF LockLease, Minted
    <3>2. maintenance' = {new}
      BY <1>2 DEF AcquireMaintenanceCas
    <3>3. LockMaintenance' = {LockLease(m) : m \in maintenance'}
      BY DEF LockMaintenance, LockLease
    <3> HIDE DEF new
    <3> QED
      BY <3>1, <3>2, <3>3
  <2>4. Exclusion!GrantMaintenance(id)
    BY <2>2, <2>3
    DEF Exclusion!GrantMaintenance, LockMaintenance, LockWorkloads,
        LockInferences, LockLease, LockWorkload, LockInference
  <2>5. Exclusion!Grant(id)
    BY <2>1, <2>4 DEF Exclusion!Grant, Exclusion!Free, Minted
  <2> QED
    BY <2>5, GrantImplemented
<1> QED
  BY <1>1, <1>2

LEMMA WorkloadGrantImplemented ==
    ASSUME RefinementInv, NEW c \in Client, NEW hosts \in SUBSET Host,
           AcquireWorkloadCas(c, hosts)
    PROVE  Implemented
<1>1. CASE ~WorkloadFilter(calls[c].req, hosts)
  BY <1>1, DocumentUnchangedImplemented DEF AcquireWorkloadCas
<1>2. CASE WorkloadFilter(calls[c].req, hosts)
  <2> DEFINE new == [id |-> minted + 1, req |-> calls[c].req, hosts |-> hosts,
                     live |-> TRUE, state |-> "PREPARED", version |-> 0,
                     generation |-> 0, owner |-> NoOwner, ownerLive |-> FALSE,
                     receipt |-> FALSE]
  <2>1. PICK id \in Id : Minted(id)
    BY <1>2, CounterMints
    DEF AcquireWorkloadCas, RefinementInv, ExclusionInv
  <2>p. PICK p \in {PrincipalOf[r] : r \in Request} :
           p = PrincipalOf[calls[c].req]
    BY CallFields
    DEF AcquireWorkloadCas, RefinementInv, ExclusionInv, TypeOK
  <2> DEFINE granted == [id |-> id, hosts |-> hosts, principal |-> p]
  <2>2. /\ LockMaintenance = {}
        /\ UNCHANGED <<LockMaintenance, LockInferences>>
    BY <1>2, UnchangedLock
    DEF WorkloadFilter, AcquireWorkloadCas, LockMaintenance
  <2>3. LockWorkloads' = LockWorkloads \cup {granted}
    <3>1. LockWorkload(new) = granted
      BY <2>1, <2>p DEF LockWorkload, Minted
    <3>2. workloads' = workloads \cup {new}
      BY <1>2 DEF AcquireWorkloadCas
    <3>3. LockWorkloads' = {LockWorkload(w) : w \in workloads'}
      BY DEF LockWorkloads, LockWorkload
    <3> HIDE DEF new, granted
    <3> QED
      BY <3>1, <3>2, <3>3 DEF LockWorkloads
  <2>4. \A w \in LockWorkloads : w.hosts \cap hosts = {}
    BY <1>2 DEF WorkloadFilter, LockWorkloads, LockWorkload
  <2>5. \A i \in LockInferences : hosts # {} /\ i.host \notin hosts
    BY <1>2 DEF WorkloadFilter, LockInferences, LockInference
  <2>6. Exclusion!GrantWorkload(id, hosts, p)
    BY <2>2, <2>3, <2>4, <2>5
    DEF Exclusion!GrantWorkload, LockMaintenance, LockWorkloads,
        LockInferences, LockLease, LockWorkload, LockInference
  <2>7. Exclusion!Grant(id)
    BY <2>1, <2>6 DEF Exclusion!Grant, Exclusion!Free, Minted
  <2> QED
    BY <2>7, GrantImplemented
<1> QED
  BY <1>1, <1>2

LEMMA InferenceGrantImplemented ==
    ASSUME RefinementInv, NEW c \in Client,
           NEW h \in Host, NEW k \in ResidencyKey, NEW mode \in Mode,
           NEW proof \in {NoProof} \cup Id,
           AcquireInferenceCas(c, h, k, mode, proof)
    PROVE  Implemented
<1>1. CASE ~InferenceFilter(calls[c], h, k, mode, proof)
  BY <1>1, DocumentUnchangedImplemented DEF AcquireInferenceCas
<1>2. CASE InferenceFilter(calls[c], h, k, mode, proof)
  <2> DEFINE new == [id |-> minted + 1, req |-> calls[c].req, host |-> h,
                     key |-> k, mode |-> mode, proof |-> proof, live |-> TRUE,
                     state |-> "ACTIVE"]
  <2>1. PICK id \in Id : Minted(id)
    BY <1>2, CounterMints
    DEF AcquireInferenceCas, RefinementInv, ExclusionInv
  <2>p. PICK p \in {PrincipalOf[r] : r \in Request} :
           p = PrincipalOf[calls[c].req]
    BY CallFields
    DEF AcquireInferenceCas, RefinementInv, ExclusionInv, TypeOK
  <2> DEFINE granted == [id |-> id, host |-> h, key |-> k, mode |-> mode,
                         proof |-> proof, principal |-> p, unknown |-> FALSE]
  <2>2. /\ LockMaintenance = {}
        /\ UNCHANGED <<LockMaintenance, LockWorkloads>>
    BY <1>2, UnchangedLock
    DEF InferenceFilter, AcquireInferenceCas, LockMaintenance
  <2>3. LockInferences' = LockInferences \cup {granted}
    <3>1. LockInference(new) = granted
      BY <2>1, <2>p DEF LockInference, Minted
    <3>2. inferences' = inferences \cup {new}
      BY <1>2 DEF AcquireInferenceCas
    <3>3. LockInferences' = {LockInference(i) : i \in inferences'}
      BY DEF LockInferences, LockInference
    <3> HIDE DEF new, granted
    <3> QED
      BY <3>1, <3>2, <3>3 DEF LockInferences
  <2>4. Exclusion!Vouched(h, proof, p)
    <3>1. CASE proof = NoProof
      BY <1>2, <3>1 DEF InferenceFilter, Exclusion!Vouched
    <3>2. CASE proof # NoProof
      <4>1. PICK w \in workloads : CoveredBy(calls[c], h, proof, w)
        BY <1>2, <3>2 DEF InferenceFilter
      <4>2. /\ LockWorkload(w) \in LockWorkloads
            /\ LockWorkload(w).id = proof
            /\ LockWorkload(w).principal = p
            /\ h \in LockWorkload(w).hosts
        BY <2>p, <4>1 DEF CoveredBy, LockWorkload, LockWorkloads
      <4> QED
        BY <3>2, <4>2 DEF Exclusion!Vouched, LockWorkloads, LockWorkload
    <3> QED
      BY <3>1, <3>2
  <2>5. \A i \in LockInferences :
           i.host = h => Exclusion!Compatible(i, k, mode)
    <3>1. \A i \in inferences :
             i.host = h => /\ i.state # "UNKNOWN" /\ i.key = k
                           /\ i.mode # "exclusive" /\ mode # "exclusive"
      BY <1>2 DEF InferenceFilter, Incompatible
    <3>2. \A i \in inferences :
             i.host = h => /\ i.state # "UNKNOWN" /\ i.key = k
                           /\ i.mode = "shared" /\ mode = "shared"
      BY <3>1 DEF RefinementInv, ExclusionInv, TypeOK, Inference, Mode
    <3>3. \A i \in inferences :
             i.host = h => Exclusion!Compatible(LockInference(i), k, mode)
      BY <3>2 DEF Exclusion!Compatible, LockInference
    <3>4. \A i \in inferences : LockInference(i).host = i.host
      BY DEF LockInference
    <3> QED
      BY <3>3, <3>4 DEF LockInferences
  <2>6. Exclusion!GrantInference(id, h, k, mode, proof, p)
    BY <2>2, <2>3, <2>4, <2>5
    DEF Exclusion!GrantInference, LockMaintenance, LockWorkloads,
        LockInferences, LockLease, LockWorkload, LockInference
  <2>7. Exclusion!Grant(id)
    BY <2>1, <2>6 DEF Exclusion!Grant, Exclusion!Free, Minted
  <2> QED
    BY <2>7, GrantImplemented
<1> QED
  BY <1>1, <1>2

\* Renewals, adoptions and transitions change fields the lock does not see.
LEMMA SameWorkloadsImplemented ==
    ASSUME \A x \in workloads' : \E w \in workloads : SameWorkload(w, x),
           \A w \in workloads : \E x \in workloads' : SameWorkload(w, x),
           UNCHANGED <<maintenance, inferences, minted>>
    PROVE  Implemented
<1>1. \A w, x : SameWorkload(w, x) => LockWorkload(w) = LockWorkload(x)
  BY DEF SameWorkload, LockWorkload
<1>2. LockWorkloads' = {LockWorkload(w) : w \in workloads'}
  BY DEF LockWorkloads, LockWorkload
<1>3. LockWorkloads' = LockWorkloads
  BY <1>1, <1>2 DEF LockWorkloads
<1> QED
  BY <1>3, UnchangedLock, StutterImplemented DEF Stutter

LEMMA SameInferencesImplemented ==
    ASSUME \A x \in inferences' :
              \E i \in inferences : SameInference(i, x) /\ i.state = x.state,
           \A i \in inferences :
              \E x \in inferences' : SameInference(i, x) /\ i.state = x.state,
           UNCHANGED <<maintenance, workloads, minted>>
    PROVE  Implemented
<1>1. \A i, x : SameInference(i, x) /\ i.state = x.state =>
                  LockInference(i) = LockInference(x)
  BY DEF SameInference, LockInference
<1>2. LockInferences' = {LockInference(i) : i \in inferences'}
  BY DEF LockInferences, LockInference
<1>3. LockInferences' = LockInferences
  BY <1>1, <1>2 DEF LockInferences
<1> QED
  BY <1>3, UnchangedLock, StutterImplemented DEF Stutter

SameLease(m, x) == m.id = x.id /\ m.state = x.state

LEMMA SameMaintenanceImplemented ==
    ASSUME \A x \in maintenance' : \E m \in maintenance : SameLease(m, x),
           \A m \in maintenance : \E x \in maintenance' : SameLease(m, x),
           UNCHANGED <<workloads, inferences, minted>>
    PROVE  Implemented
<1>1. \A m, x : SameLease(m, x) => LockLease(m) = LockLease(x)
  BY DEF SameLease, LockLease
<1>2. LockMaintenance' = {LockLease(m) : m \in maintenance'}
  BY DEF LockMaintenance, LockLease
<1>3. LockMaintenance' = LockMaintenance
  BY <1>1, <1>2 DEF LockMaintenance
<1> QED
  BY <1>3, UnchangedLock, StutterImplemented DEF Stutter

LEMMA MaintenanceStepImplemented ==
    ASSUME RefinementInv, NEW c \in Client, MaintenanceStep(c)
    PROVE  Implemented
<1>1. ASSUME NEW r \in Request, AcquireMaintenance(c, r)
      PROVE  Implemented
  BY <1>1, ReapRefines DEF AcquireMaintenance
<1>2. ASSUME NEW m \in maintenance, HeartbeatMaintenance(c, m)
      PROVE  Implemented
  BY <1>2, DocumentUnchangedImplemented DEF HeartbeatMaintenance, document
<1>3. ASSUME NEW id, ReleaseMaintenance(c, id)
      PROVE  Implemented
  BY <1>3, ReapRefines DEF ReleaseMaintenance
<1>4. ASSUME HeartbeatMaintenanceCas(c)
      PROVE  Implemented
  <2>1. \A m \in maintenance : /\ SameLease(m, m)
                               /\ SameLease(m, [m EXCEPT !.live = TRUE])
    BY DEF SameLease, RefinementInv, ExclusionInv, TypeOK, Lease
  <2> QED
    BY <1>4, <2>1, SameMaintenanceImplemented DEF HeartbeatMaintenanceCas
<1>5. ASSUME ReleaseMaintenanceCas(c)
      PROVE  Implemented
  <2>1. CASE \E m \in maintenance : ReleasableMaintenance(calls[c], m)
    <3>1. PICK m \in maintenance : TRUE
      BY <2>1
    <3>2. maintenance' = {n \in maintenance : n.id # m.id} /\ m.id \in Id
      BY <1>5, <2>1, HeldOnce DEF ReleaseMaintenanceCas
    <3>3. UNCHANGED <<workloads, inferences, minted>>
      BY <1>5 DEF ReleaseMaintenanceCas
    <3>4. PICK id \in Id : id = m.id
      BY <3>2
    <3> QED
      BY <3>2, <3>3, <3>4, EndMaintenance, EndImplemented
  <2>2. CASE ~\E m \in maintenance : ReleasableMaintenance(calls[c], m)
    BY <1>5, <2>2, DocumentUnchangedImplemented DEF ReleaseMaintenanceCas
  <2> QED
    BY <2>1, <2>2
<1> QED
  BY <1>1, <1>2, <1>3, <1>4, <1>5, MaintenanceGrantImplemented
  DEF MaintenanceStep

LEMMA WorkloadIdType ==
    ASSUME RefinementInv, NEW w \in workloads
    PROVE  w.id \in Id
  BY DEF RefinementInv, ExclusionInv, TypeOK, Workload

LEMMA WorkloadStepImplemented ==
    ASSUME RefinementInv, NEW c \in Client, WorkloadStep(c)
    PROVE  Implemented
<1>1. ASSUME NEW r \in Request, AcquireWorkload(c, r)
      PROVE  Implemented
  BY <1>1, ReapRefines DEF AcquireWorkload
<1>2. ASSUME NEW w \in workloads, HeartbeatWorkload(c, w)
      PROVE  Implemented
  BY <1>2, DocumentUnchangedImplemented DEF HeartbeatWorkload, document
<1>3. ASSUME NEW id, ReleaseWorkload(c, id)
      PROVE  Implemented
  BY <1>3, ReapRefines DEF ReleaseWorkload
<1>4. ASSUME HeartbeatWorkloadCas(c)
      PROVE  Implemented
  <2>1. \A w \in workloads : SameWorkload(w, [w EXCEPT !.live = TRUE])
    BY DEF SameWorkload, RefinementInv, ExclusionInv, TypeOK, Workload
  <2>2. \A x \in workloads' : \E w \in workloads : SameWorkload(w, x)
    BY <1>4, <2>1, UnchangedKeepsIdentity DEF HeartbeatWorkloadCas
  <2>3. \A w \in workloads : \E x \in workloads' : SameWorkload(w, x)
    BY <1>4, <2>1, UnchangedKeepsIdentity DEF HeartbeatWorkloadCas
  <2>4. UNCHANGED <<maintenance, inferences, minted>>
    BY <1>4 DEF HeartbeatWorkloadCas
  <2> QED
    BY <2>2, <2>3, <2>4, SameWorkloadsImplemented
<1>5. ASSUME ReleaseWorkloadCas(c)
      PROVE  Implemented
  <2>1. CASE \E w \in workloads : ReleasableWorkload(calls[c], w)
    <3>1. PICK id \in Id : id = calls[c].id
      BY <2>1, WorkloadIdType DEF ReleasableWorkload
    <3> QED
      BY <1>5, <2>1, <3>1, EndWorkload, EndImplemented DEF ReleaseWorkloadCas
  <2>2. CASE ~\E w \in workloads : ReleasableWorkload(calls[c], w)
    BY <1>5, <2>2, DocumentUnchangedImplemented DEF ReleaseWorkloadCas
  <2> QED
    BY <2>1, <2>2
<1> QED
  BY <1>1, <1>2, <1>3, <1>4, <1>5, WorkloadGrantImplemented DEF WorkloadStep

LEMMA RecoveryStepImplemented ==
    ASSUME RefinementInv, NEW c \in Client, RecoveryStep(c)
    PROVE  Implemented
<1>1. ASSUME NEW w \in workloads, NEW o \in Owner, AdoptRecovery(c, w, o)
      PROVE  Implemented
  BY <1>1, DocumentUnchangedImplemented DEF AdoptRecovery, document
<1>2. ASSUME NEW w \in workloads, HeartbeatRecovery(c, w)
      PROVE  Implemented
  BY <1>2, DocumentUnchangedImplemented DEF HeartbeatRecovery, document
<1>3. ASSUME NEW w \in workloads, NEW to \in RecoveryState,
             NEW receipt \in BOOLEAN, TransitionRecovery(c, w, to, receipt)
      PROVE  Implemented
  BY <1>3, DocumentUnchangedImplemented DEF TransitionRecovery, document
<1>4. ASSUME NEW w \in workloads, ResolveRecovery(c, w)
      PROVE  Implemented
  BY <1>4, DocumentUnchangedImplemented DEF ResolveRecovery, document
<1>5. ASSUME AdoptRecoveryCas(c)
      PROVE  Implemented
  <2>1. \A w \in workloads : SameWorkload(w, [w EXCEPT !.generation = @ + 1,
                                               !.owner = calls[c].owner,
                                               !.ownerLive = TRUE])
    BY DEF SameWorkload, RefinementInv, ExclusionInv, TypeOK, Workload
  <2>2. \A x \in workloads' : \E w \in workloads : SameWorkload(w, x)
    BY <1>5, <2>1, UnchangedKeepsIdentity DEF AdoptRecoveryCas
  <2>3. \A w \in workloads : \E x \in workloads' : SameWorkload(w, x)
    BY <1>5, <2>1, UnchangedKeepsIdentity DEF AdoptRecoveryCas
  <2>4. UNCHANGED <<maintenance, inferences, minted>>
    BY <1>5 DEF AdoptRecoveryCas
  <2> QED
    BY <2>2, <2>3, <2>4, SameWorkloadsImplemented
<1>6. ASSUME HeartbeatRecoveryCas(c)
      PROVE  Implemented
  <2>1. \A w \in workloads : SameWorkload(w, [w EXCEPT !.ownerLive = TRUE])
    BY DEF SameWorkload, RefinementInv, ExclusionInv, TypeOK, Workload
  <2>2. \A x \in workloads' : \E w \in workloads : SameWorkload(w, x)
    BY <1>6, <2>1, UnchangedKeepsIdentity DEF HeartbeatRecoveryCas
  <2>3. \A w \in workloads : \E x \in workloads' : SameWorkload(w, x)
    BY <1>6, <2>1, UnchangedKeepsIdentity DEF HeartbeatRecoveryCas
  <2>4. UNCHANGED <<maintenance, inferences, minted>>
    BY <1>6 DEF HeartbeatRecoveryCas
  <2> QED
    BY <2>2, <2>3, <2>4, SameWorkloadsImplemented
<1>7. ASSUME TransitionRecoveryCas(c)
      PROVE  Implemented
  <2>1. \A w \in workloads : SameWorkload(w, [w EXCEPT !.state = calls[c].to,
                                   !.version = calls[c].version + 1,
                                   !.receipt = calls[c].receipt,
                                   !.live = @ /\ calls[c].to # "UNKNOWN"])
    BY DEF SameWorkload, RefinementInv, ExclusionInv, TypeOK, Workload
  <2>2. \A x \in workloads' : \E w \in workloads : SameWorkload(w, x)
    BY <1>7, <2>1, UnchangedKeepsIdentity DEF TransitionRecoveryCas
  <2>3. \A w \in workloads : \E x \in workloads' : SameWorkload(w, x)
    BY <1>7, <2>1, UnchangedKeepsIdentity DEF TransitionRecoveryCas
  <2>4. UNCHANGED <<maintenance, inferences, minted>>
    BY <1>7 DEF TransitionRecoveryCas
  <2> QED
    BY <2>2, <2>3, <2>4, SameWorkloadsImplemented
<1>8. ASSUME ResolveRecoveryCas(c)
      PROVE  Implemented
  <2>1. CASE \E w \in workloads : ResolveFilter(calls[c], w)
    <3>1. PICK v \in workloads : ResolveFilter(calls[c], v)
      BY <2>1
    <3>2. PICK id \in Id : id = v.id
      BY WorkloadIdType
    <3>3. workloads' = {w \in workloads : w.id # id}
      BY <1>8, <3>1, <3>2
      DEF ResolveRecoveryCas, RefinementInv, DistinctEntries,
          DistinctWorkloads, ResolveFilter
    <3>4. UNCHANGED <<maintenance, inferences, minted>>
      BY <1>8 DEF ResolveRecoveryCas
    <3> QED
      BY <3>3, <3>4, EndWorkload, EndImplemented
  <2>2. CASE ~\E w \in workloads : ResolveFilter(calls[c], w)
    BY <1>8, <2>2, DocumentUnchangedImplemented DEF ResolveRecoveryCas
  <2> QED
    BY <2>1, <2>2
<1> QED
  BY <1>1, <1>2, <1>3, <1>4, <1>5, <1>6, <1>7, <1>8 DEF RecoveryStep

LEMMA InferenceStepImplemented ==
    ASSUME RefinementInv, NEW c \in Client, InferenceStep(c)
    PROVE  Implemented
<1>1. ASSUME NEW r \in Request, AcquireInference(c, r)
      PROVE  Implemented
  BY <1>1, ReapRefines DEF AcquireInference
<1>2. ASSUME NEW i \in inferences, HeartbeatInference(c, i)
      PROVE  Implemented
  BY <1>2, DocumentUnchangedImplemented DEF HeartbeatInference, document
<1>3. ASSUME NEW id, ReleaseInference(c, id)
      PROVE  Implemented
  BY <1>3, ReapRefines DEF ReleaseInference
<1>4. ASSUME HeartbeatInferenceCas(c)
      PROVE  Implemented
  <2>1. \A i \in inferences :
           LET x == [i EXCEPT !.live = TRUE]
           IN  /\ SameInference(i, x) /\ i.state = x.state
               /\ SameInference(i, i)
    BY DEF SameInference, RefinementInv, ExclusionInv, TypeOK, Inference
  <2> QED
    BY <1>4, <2>1, SameInferencesImplemented DEF HeartbeatInferenceCas
<1>5. ASSUME ReleaseInferenceCas(c)
      PROVE  Implemented
  <2>1. CASE \E i \in inferences : ReleasableInference(calls[c], i)
    <3>1. PICK j \in inferences : ReleasableInference(calls[c], j)
      BY <2>1
    <3>2. PICK id \in Id : id = j.id
      BY HeldOnce
    <3>3. inferences' = {i \in inferences : i.id # id}
      BY <1>5, <3>1, <3>2, HeldOnce
      DEF ReleaseInferenceCas, ReleasableInference
    <3>4. UNCHANGED <<maintenance, workloads, minted>>
      BY <1>5 DEF ReleaseInferenceCas
    <3> QED
      BY <3>3, <3>4, EndInference, EndImplemented
  <2>2. CASE ~\E i \in inferences : ReleasableInference(calls[c], i)
    BY <1>5, <2>2, DocumentUnchangedImplemented DEF ReleaseInferenceCas
  <2> QED
    BY <2>1, <2>2
<1> QED
  BY <1>1, <1>2, <1>3, <1>4, <1>5, InferenceGrantImplemented DEF InferenceStep

LEMMA OperatorStepImplemented ==
    ASSUME RefinementInv, OperatorStep
    PROVE  Implemented
<1>t. TypeOK
  BY DEF RefinementInv, ExclusionInv
<1>1. ASSUME NEW m \in maintenance, MarkMaintenanceUnknown(m)
      PROVE  Implemented
  <2>1. PICK id \in Id : id = m.id
    BY HeldOnce
  <2>2. Quarantine({id})
    BY <1>1, <2>1, HeldOnce, UnchangedLock
    DEF MarkMaintenanceUnknown, Quarantine
  <2> QED
    BY <1>t, <2>2, QuarantineImplemented
<1>2. ASSUME NEW m \in maintenance, RecoverMaintenance(m)
      PROVE  Implemented
  <2>1. PICK id \in Id : id = m.id
    BY HeldOnce
  <2>2. maintenance' = {n \in maintenance : n.id # id}
    BY <1>2, <2>1, HeldOnce DEF RecoverMaintenance
  <2>3. UNCHANGED <<workloads, inferences, minted>>
    BY <1>2 DEF RecoverMaintenance
  <2> QED
    BY <2>2, <2>3, EndMaintenance, EndImplemented
<1>3. ASSUME NEW i \in inferences, MarkInferenceUnknown(i)
      PROVE  Implemented
  <2>1. PICK id \in Id : id = i.id
    BY HeldOnce
  <2>2. Quarantine({id})
    BY <1>3, <2>1, HeldOnce, UnchangedLock
    DEF MarkInferenceUnknown, Quarantine
  <2> QED
    BY <1>t, <2>2, QuarantineImplemented
<1>4. ASSUME NEW i \in inferences, RecoverInference(i)
      PROVE  Implemented
  <2>1. PICK id \in Id : id = i.id
    BY HeldOnce
  <2>2. inferences' = {j \in inferences : j.id # id}
    BY <1>4, <2>1, HeldOnce DEF RecoverInference
  <2>3. UNCHANGED <<maintenance, workloads, minted>>
    BY <1>4 DEF RecoverInference
  <2> QED
    BY <2>2, <2>3, EndInference, EndImplemented
<1>5. ASSUME RestartRuntime
      PROVE  Implemented
  BY <1>5, DocumentUnchangedImplemented DEF RestartRuntime, document
<1> QED
  BY <1>1, <1>2, <1>3, <1>4, <1>5 DEF OperatorStep

LEMMA DeadlineImplemented ==
    ASSUME RefinementInv, Deadline
    PROVE  Implemented
<1>1. ASSUME NEW w \in workloads, NEW x, SameWorkload(w, x),
             workloads' = (workloads \ {w}) \cup {x},
             UNCHANGED <<maintenance, inferences, minted>>
      PROVE  Implemented
  <2>1. \A v \in workloads' : \E u \in workloads : SameWorkload(u, v)
    BY <1>1, UnchangedKeepsIdentity
  <2>2. \A u \in workloads : \E v \in workloads' : SameWorkload(u, v)
    BY <1>1, UnchangedKeepsIdentity
  <2> QED
    BY <1>1, <2>1, <2>2, SameWorkloadsImplemented
<1>2. ASSUME NEW i \in inferences,
             inferences' = (inferences \ {i}) \cup {[i EXCEPT !.live = FALSE]},
             UNCHANGED <<maintenance, workloads, minted>>
      PROVE  Implemented
  <2>1. LET x == [i EXCEPT !.live = FALSE]
        IN  SameInference(i, x) /\ i.state = x.state
    BY DEF SameInference, RefinementInv, ExclusionInv, TypeOK, Inference
  <2>2. \A j \in inferences : SameInference(j, j)
    BY DEF SameInference
  <2> QED
    BY <1>2, <2>1, <2>2, SameInferencesImplemented
<1>3. ASSUME NEW m \in maintenance,
             maintenance' = {[m EXCEPT !.live = FALSE]},
             UNCHANGED <<workloads, inferences, minted>>
      PROVE  Implemented
  <2>1. SameLease(m, [m EXCEPT !.live = FALSE])
    BY DEF SameLease, RefinementInv, ExclusionInv, TypeOK, Lease
  <2> QED
    BY <1>3, <2>1, HeldOnce, SameMaintenanceImplemented
<1> QED
  <2>1. \A w \in workloads :
           /\ SameWorkload(w, [w EXCEPT !.live = FALSE])
           /\ SameWorkload(w, [w EXCEPT !.ownerLive = FALSE])
    BY DEF SameWorkload, RefinementInv, ExclusionInv, TypeOK, Workload
  <2> QED
    BY <1>1, <1>2, <1>3, <2>1 DEF Deadline

LEMMA StepImplemented == RefinementInv /\ [Next]_vars => Implemented
<1> SUFFICES ASSUME RefinementInv, [Next]_vars
             PROVE  Implemented
  OBVIOUS
<1>1. ASSUME NEW c \in Watchdog, ListActive(c) \/ ReapExpiredCas(c)
      PROVE  Implemented
  BY <1>1, ReapRefines, DocumentUnchangedImplemented
  DEF ListActive, ReapExpiredCas, document
<1>2. ASSUME NEW c \in Client \cup Watchdog, Lost(c)
      PROVE  Implemented
  BY <1>2, DocumentUnchangedImplemented DEF Lost, document
<1>3. ASSUME UNCHANGED vars
      PROVE  Implemented
  BY <1>3, DocumentUnchangedImplemented DEF vars
<1> QED
  BY <1>1, <1>2, <1>3, MaintenanceStepImplemented, WorkloadStepImplemented,
     RecoveryStepImplemented, InferenceStepImplemented,
     OperatorStepImplemented, DeadlineImplemented
  DEF Next

-----------------------------------------------------------------------------
(* The ids stay distinct.                                                   *)

LEMMA DistinctUnchanged ==
    /\ OneLease /\ UNCHANGED maintenance => OneLease'
    /\ DistinctWorkloads /\ UNCHANGED workloads => DistinctWorkloads'
    /\ DistinctInferences /\ UNCHANGED <<inferences, minted>> =>
          DistinctInferences'
  BY DEF OneLease, DistinctWorkloads, DistinctInferences

LEMMA CounterAdvances ==
    ASSUME TypeOK, DistinctInferences, UNCHANGED inferences,
           minted' = minted \/ minted' = minted + 1
    PROVE  DistinctInferences'
<1>1. minted \in Nat /\ \A i \in inferences : i.id \in Nat
  BY DEF TypeOK, Inference, Id
<1> QED
  BY <1>1 DEF DistinctInferences

LEMMA DocumentUnchangedKeepsDistinct ==
    ASSUME DistinctEntries,
           UNCHANGED <<maintenance, workloads, inferences, minted>>
    PROVE  DistinctEntries'
  BY DistinctUnchanged DEF DistinctEntries

LEMMA ReapKeepsDistinct ==
    ASSUME TypeOK, DistinctEntries, NEW lapsed, Reap(lapsed), UNCHANGED minted
    PROVE  DistinctEntries'
<1> USE DEF DistinctEntries
<1>1. OneLease'
  <2> DEFINE after(m) ==
               IF m.id \in lapsed /\ ~m.live /\ m.state = "ACTIVE"
               THEN [m EXCEPT !.state = "UNKNOWN"] ELSE m
  <2>1. maintenance' = {after(m) : m \in maintenance}
    BY DEF Reap, ReapedMaintenance
  <2> HIDE DEF after
  <2> QED
    BY <2>1 DEF OneLease
<1>2. DistinctWorkloads'
  <2> DEFINE after(w) ==
               IF /\ w.id \in lapsed
                  /\ ~w.live
                  /\ w.state \in {"PREPARED", "MUTATING"}
               THEN [w EXCEPT !.state = "UNKNOWN", !.receipt = TRUE]
               ELSE w
  <2>1. workloads' = {after(w) : w \in workloads}
    BY DEF Reap, ReapedWorkloads
  <2>2. \A w \in workloads : after(w).id = w.id
    BY DEF TypeOK, Workload
  <2> HIDE DEF after
  <2> QED
    BY <2>1, <2>2 DEF DistinctWorkloads
<1>3. DistinctInferences'
  <2> DEFINE after(i) ==
               IF i.id \in lapsed /\ ~i.live /\ i.state = "ACTIVE"
               THEN [i EXCEPT !.state = "UNKNOWN"] ELSE i
  <2>1. inferences' = {after(i) : i \in inferences}
    BY DEF Reap, ReapedInferences
  <2>2. \A i \in inferences : after(i).id = i.id
    BY DEF TypeOK, Inference
  <2> HIDE DEF after
  <2> QED
    BY <2>1, <2>2 DEF DistinctInferences
<1> QED
  BY <1>1, <1>2, <1>3

LEMMA MaintenanceStepKeepsDistinct ==
    ASSUME TypeOK, DistinctEntries, NEW c \in Client, MaintenanceStep(c)
    PROVE  DistinctEntries'
<1> USE DEF DistinctEntries
<1>1. ASSUME NEW r \in Request, AcquireMaintenance(c, r)
      PROVE  DistinctEntries'
  BY <1>1, ReapKeepsDistinct DEF AcquireMaintenance
<1>2. ASSUME NEW m \in maintenance, HeartbeatMaintenance(c, m)
      PROVE  DistinctEntries'
  BY <1>2, DocumentUnchangedKeepsDistinct DEF HeartbeatMaintenance, document
<1>3. ASSUME NEW id, ReleaseMaintenance(c, id)
      PROVE  DistinctEntries'
  BY <1>3, ReapKeepsDistinct DEF ReleaseMaintenance
<1>4. ASSUME AcquireMaintenanceCas(c)
      PROVE  DistinctEntries'
  <2>1. OneLease'
    BY <1>4 DEF AcquireMaintenanceCas, OneLease
  <2>2. /\ UNCHANGED <<workloads, inferences>>
        /\ minted' = minted \/ minted' = minted + 1
    BY <1>4 DEF AcquireMaintenanceCas
  <2> QED
    BY <2>1, <2>2, DistinctUnchanged, CounterAdvances
<1>5. ASSUME HeartbeatMaintenanceCas(c)
      PROVE  DistinctEntries'
  <2>1. OneLease'
    <3> DEFINE after(m) ==
                 IF RenewableMaintenance(calls[c], m)
                 THEN [m EXCEPT !.live = TRUE] ELSE m
    <3>1. maintenance' = {after(m) : m \in maintenance}
      BY <1>5 DEF HeartbeatMaintenanceCas
    <3> HIDE DEF after
    <3> QED
      BY <3>1 DEF OneLease
  <2> QED
    BY <1>5, <2>1, DistinctUnchanged DEF HeartbeatMaintenanceCas
<1>6. ASSUME ReleaseMaintenanceCas(c)
      PROVE  DistinctEntries'
  <2>1. OneLease'
    BY <1>6 DEF ReleaseMaintenanceCas, OneLease
  <2> QED
    BY <1>6, <2>1, DistinctUnchanged DEF ReleaseMaintenanceCas
<1> QED
  BY <1>1, <1>2, <1>3, <1>4, <1>5, <1>6 DEF MaintenanceStep

LEMMA WorkloadStepKeepsDistinct ==
    ASSUME TypeOK, WorkloadIds, DistinctEntries, NEW c \in Client,
           WorkloadStep(c)
    PROVE  DistinctEntries'
<1> USE DEF DistinctEntries
<1>1. ASSUME NEW r \in Request, AcquireWorkload(c, r)
      PROVE  DistinctEntries'
  BY <1>1, ReapKeepsDistinct DEF AcquireWorkload
<1>2. ASSUME NEW w \in workloads, HeartbeatWorkload(c, w)
      PROVE  DistinctEntries'
  BY <1>2, DocumentUnchangedKeepsDistinct DEF HeartbeatWorkload, document
<1>3. ASSUME NEW id, ReleaseWorkload(c, id)
      PROVE  DistinctEntries'
  BY <1>3, ReapKeepsDistinct DEF ReleaseWorkload
<1>4. ASSUME NEW hosts \in SUBSET Host, AcquireWorkloadCas(c, hosts)
      PROVE  DistinctEntries'
  <2>1. DistinctWorkloads'
    <3> DEFINE new == [id |-> minted + 1, req |-> calls[c].req,
                       hosts |-> hosts, live |-> TRUE, state |-> "PREPARED",
                       version |-> 0, generation |-> 0, owner |-> NoOwner,
                       ownerLive |-> FALSE, receipt |-> FALSE]
    <3>1. workloads' = workloads \cup {new} \/ workloads' = workloads
      BY <1>4 DEF AcquireWorkloadCas
    <3>2. \A w \in workloads : w.id # new.id
      BY DEF TypeOK, WorkloadIds, Workload, Id
    <3> HIDE DEF new
    <3> QED
      BY <3>1, <3>2 DEF DistinctWorkloads
  <2>2. /\ UNCHANGED <<maintenance, inferences>>
        /\ minted' = minted \/ minted' = minted + 1
    BY <1>4 DEF AcquireWorkloadCas
  <2> QED
    BY <2>1, <2>2, DistinctUnchanged, CounterAdvances
<1>5. ASSUME HeartbeatWorkloadCas(c)
      PROVE  DistinctEntries'
  <2>1. DistinctWorkloads'
    <3> DEFINE after(w) ==
                 IF RenewableWorkload(calls[c], w)
                 THEN [w EXCEPT !.live = TRUE] ELSE w
    <3>1. workloads' = {after(w) : w \in workloads}
      BY <1>5 DEF HeartbeatWorkloadCas
    <3>2. \A w \in workloads : after(w).id = w.id
      BY DEF TypeOK, Workload
    <3> HIDE DEF after
    <3> QED
      BY <3>1, <3>2 DEF DistinctWorkloads
  <2> QED
    BY <1>5, <2>1, DistinctUnchanged DEF HeartbeatWorkloadCas
<1>6. ASSUME ReleaseWorkloadCas(c)
      PROVE  DistinctEntries'
  <2>1. DistinctWorkloads'
    BY <1>6 DEF ReleaseWorkloadCas, DistinctWorkloads
  <2> QED
    BY <1>6, <2>1, DistinctUnchanged DEF ReleaseWorkloadCas
<1> QED
  BY <1>1, <1>2, <1>3, <1>4, <1>5, <1>6 DEF WorkloadStep

LEMMA RecoveryStepKeepsDistinct ==
    ASSUME TypeOK, DistinctEntries, NEW c \in Client, RecoveryStep(c)
    PROVE  DistinctEntries'
<1> USE DEF DistinctEntries
<1>1. ASSUME NEW w \in workloads, NEW o \in Owner, AdoptRecovery(c, w, o)
      PROVE  DistinctEntries'
  BY <1>1, DocumentUnchangedKeepsDistinct DEF AdoptRecovery, document
<1>2. ASSUME NEW w \in workloads, HeartbeatRecovery(c, w)
      PROVE  DistinctEntries'
  BY <1>2, DocumentUnchangedKeepsDistinct DEF HeartbeatRecovery, document
<1>3. ASSUME NEW w \in workloads, NEW to \in RecoveryState,
             NEW receipt \in BOOLEAN, TransitionRecovery(c, w, to, receipt)
      PROVE  DistinctEntries'
  BY <1>3, DocumentUnchangedKeepsDistinct DEF TransitionRecovery, document
<1>4. ASSUME NEW w \in workloads, ResolveRecovery(c, w)
      PROVE  DistinctEntries'
  BY <1>4, DocumentUnchangedKeepsDistinct DEF ResolveRecovery, document
<1>5. ASSUME AdoptRecoveryCas(c)
      PROVE  DistinctEntries'
  <2>1. DistinctWorkloads'
    <3> DEFINE after(w) ==
                 IF AdoptFilter(calls[c], w)
                 THEN [w EXCEPT !.generation = @ + 1,
                                !.owner = calls[c].owner,
                                !.ownerLive = TRUE]
                 ELSE w
    <3>1. workloads' = {after(w) : w \in workloads}
      BY <1>5 DEF AdoptRecoveryCas
    <3>2. \A w \in workloads : after(w).id = w.id
      BY DEF TypeOK, Workload
    <3> HIDE DEF after
    <3> QED
      BY <3>1, <3>2 DEF DistinctWorkloads
  <2> QED
    BY <1>5, <2>1, DistinctUnchanged DEF AdoptRecoveryCas
<1>6. ASSUME HeartbeatRecoveryCas(c)
      PROVE  DistinctEntries'
  <2>1. DistinctWorkloads'
    <3> DEFINE after(w) ==
                 IF RenewableRecovery(calls[c], w)
                 THEN [w EXCEPT !.ownerLive = TRUE] ELSE w
    <3>1. workloads' = {after(w) : w \in workloads}
      BY <1>6 DEF HeartbeatRecoveryCas
    <3>2. \A w \in workloads : after(w).id = w.id
      BY DEF TypeOK, Workload
    <3> HIDE DEF after
    <3> QED
      BY <3>1, <3>2 DEF DistinctWorkloads
  <2> QED
    BY <1>6, <2>1, DistinctUnchanged DEF HeartbeatRecoveryCas
<1>7. ASSUME TransitionRecoveryCas(c)
      PROVE  DistinctEntries'
  <2>1. DistinctWorkloads'
    <3> DEFINE after(w) ==
                 IF TransitionFilter(calls[c], w)
                 THEN [w EXCEPT !.state = calls[c].to,
                                !.version = calls[c].version + 1,
                                !.receipt = calls[c].receipt,
                                !.live = @ /\ calls[c].to # "UNKNOWN"]
                 ELSE w
    <3>1. workloads' = {after(w) : w \in workloads}
      BY <1>7 DEF TransitionRecoveryCas
    <3>2. \A w \in workloads : after(w).id = w.id
      BY DEF TypeOK, Workload
    <3> HIDE DEF after
    <3> QED
      BY <3>1, <3>2 DEF DistinctWorkloads
  <2> QED
    BY <1>7, <2>1, DistinctUnchanged DEF TransitionRecoveryCas
<1>8. ASSUME ResolveRecoveryCas(c)
      PROVE  DistinctEntries'
  <2>1. DistinctWorkloads'
    BY <1>8 DEF ResolveRecoveryCas, DistinctWorkloads
  <2> QED
    BY <1>8, <2>1, DistinctUnchanged DEF ResolveRecoveryCas
<1> QED
  BY <1>1, <1>2, <1>3, <1>4, <1>5, <1>6, <1>7, <1>8 DEF RecoveryStep

LEMMA InferenceStepKeepsDistinct ==
    ASSUME TypeOK, DistinctEntries, NEW c \in Client, InferenceStep(c)
    PROVE  DistinctEntries'
<1> USE DEF DistinctEntries
<1>1. ASSUME NEW r \in Request, AcquireInference(c, r)
      PROVE  DistinctEntries'
  BY <1>1, ReapKeepsDistinct DEF AcquireInference
<1>2. ASSUME NEW i \in inferences, HeartbeatInference(c, i)
      PROVE  DistinctEntries'
  BY <1>2, DocumentUnchangedKeepsDistinct DEF HeartbeatInference, document
<1>3. ASSUME NEW id, ReleaseInference(c, id)
      PROVE  DistinctEntries'
  BY <1>3, ReapKeepsDistinct DEF ReleaseInference
<1>4. ASSUME NEW h \in Host, NEW k \in ResidencyKey, NEW mode \in Mode,
             NEW proof \in {NoProof} \cup Id,
             AcquireInferenceCas(c, h, k, mode, proof)
      PROVE  DistinctEntries'
  <2>1. CASE UNCHANGED <<inferences, minted>>
    BY <1>4, <2>1, DistinctUnchanged DEF AcquireInferenceCas
  <2>2. CASE ~UNCHANGED <<inferences, minted>>
    <3> DEFINE new == [id |-> minted + 1, req |-> calls[c].req, host |-> h,
                       key |-> k, mode |-> mode, proof |-> proof,
                       live |-> TRUE, state |-> "ACTIVE"]
    <3>1. inferences' = inferences \cup {new} /\ minted' = minted + 1
      BY <1>4, <2>2 DEF AcquireInferenceCas
    <3>2. minted \in Nat /\ \A i \in inferences : i.id \in Nat
      BY DEF TypeOK, Inference, Id
    <3>3. new.id = minted + 1
      OBVIOUS
    <3> HIDE DEF new
    <3>4. DistinctInferences'
      BY <3>1, <3>2, <3>3 DEF DistinctInferences
    <3> QED
      BY <1>4, <3>4, DistinctUnchanged DEF AcquireInferenceCas
  <2> QED
    BY <2>1, <2>2
<1>5. ASSUME HeartbeatInferenceCas(c)
      PROVE  DistinctEntries'
  <2>1. DistinctInferences'
    <3> DEFINE after(i) ==
                 IF RenewableInference(calls[c], i)
                 THEN [i EXCEPT !.live = TRUE] ELSE i
    <3>1. inferences' = {after(i) : i \in inferences}
      BY <1>5 DEF HeartbeatInferenceCas
    <3>2. \A i \in inferences : after(i).id = i.id
      BY DEF TypeOK, Inference
    <3> HIDE DEF after
    <3> QED
      BY <1>5, <3>1, <3>2 DEF HeartbeatInferenceCas, DistinctInferences
  <2> QED
    BY <1>5, <2>1, DistinctUnchanged DEF HeartbeatInferenceCas
<1>6. ASSUME ReleaseInferenceCas(c)
      PROVE  DistinctEntries'
  <2>1. DistinctInferences'
    BY <1>6 DEF ReleaseInferenceCas, DistinctInferences
  <2> QED
    BY <1>6, <2>1, DistinctUnchanged DEF ReleaseInferenceCas
<1> QED
  BY <1>1, <1>2, <1>3, <1>4, <1>5, <1>6 DEF InferenceStep

LEMMA OperatorStepKeepsDistinct ==
    ASSUME TypeOK, DistinctEntries, OperatorStep
    PROVE  DistinctEntries'
<1> USE DEF DistinctEntries
<1>1. ASSUME NEW m \in maintenance,
             MarkMaintenanceUnknown(m) \/ RecoverMaintenance(m)
      PROVE  DistinctEntries'
  <2>1. OneLease'
    BY <1>1 DEF MarkMaintenanceUnknown, RecoverMaintenance, OneLease
  <2> QED
    BY <1>1, <2>1, DistinctUnchanged
    DEF MarkMaintenanceUnknown, RecoverMaintenance
<1>2. ASSUME NEW i \in inferences, MarkInferenceUnknown(i)
      PROVE  DistinctEntries'
  <2>1. [i EXCEPT !.state = "UNKNOWN"].id = i.id
    BY DEF TypeOK, Inference
  <2>2. DistinctInferences'
    BY <1>2, <2>1 DEF MarkInferenceUnknown, DistinctInferences
  <2> QED
    BY <1>2, <2>2, DistinctUnchanged DEF MarkInferenceUnknown
<1>3. ASSUME NEW i \in inferences, RecoverInference(i)
      PROVE  DistinctEntries'
  <2>1. DistinctInferences'
    BY <1>3 DEF RecoverInference, DistinctInferences
  <2> QED
    BY <1>3, <2>1, DistinctUnchanged DEF RecoverInference
<1>4. ASSUME RestartRuntime
      PROVE  DistinctEntries'
  BY <1>4, DocumentUnchangedKeepsDistinct DEF RestartRuntime, document
<1> QED
  BY <1>1, <1>2, <1>3, <1>4 DEF OperatorStep

LEMMA DeadlineKeepsDistinct ==
    ASSUME TypeOK, DistinctEntries, Deadline, UNCHANGED minted
    PROVE  DistinctEntries'
<1> USE DEF DistinctEntries
<1>1. ASSUME NEW w \in workloads, NEW x, x.id = w.id,
             workloads' = (workloads \ {w}) \cup {x},
             UNCHANGED <<maintenance, inferences>>
      PROVE  DistinctEntries'
  <2>1. DistinctWorkloads'
    BY <1>1 DEF DistinctWorkloads
  <2> QED
    BY <1>1, <2>1, DistinctUnchanged
<1>2. ASSUME NEW i \in inferences,
             inferences' = (inferences \ {i}) \cup {[i EXCEPT !.live = FALSE]},
             UNCHANGED <<maintenance, workloads>>
      PROVE  DistinctEntries'
  <2>1. [i EXCEPT !.live = FALSE].id = i.id
    BY DEF TypeOK, Inference
  <2>2. DistinctInferences'
    BY <1>2, <2>1 DEF DistinctInferences
  <2> QED
    BY <1>2, <2>2, DistinctUnchanged
<1>3. ASSUME NEW m \in maintenance,
             maintenance' = {[m EXCEPT !.live = FALSE]},
             UNCHANGED <<workloads, inferences>>
      PROVE  DistinctEntries'
  <2>1. OneLease'
    BY <1>3 DEF OneLease
  <2> QED
    BY <1>3, <2>1, DistinctUnchanged
<1>4. \A w \in workloads : /\ [w EXCEPT !.live = FALSE].id = w.id
                          /\ [w EXCEPT !.ownerLive = FALSE].id = w.id
  BY DEF TypeOK, Workload
<1> QED
  BY <1>1, <1>2, <1>3, <1>4 DEF Deadline

LEMMA DistinctStep ==
    TypeOK /\ WorkloadIds /\ DistinctEntries /\ [Next]_vars => DistinctEntries'
<1> SUFFICES ASSUME TypeOK, WorkloadIds, DistinctEntries, [Next]_vars
             PROVE  DistinctEntries'
  OBVIOUS
<1>1. ASSUME NEW c \in Watchdog, ListActive(c) \/ ReapExpiredCas(c)
      PROVE  DistinctEntries'
  BY <1>1, ReapKeepsDistinct, DocumentUnchangedKeepsDistinct
  DEF ListActive, ReapExpiredCas, document
<1>2. ASSUME NEW c \in Client \cup Watchdog, Lost(c)
      PROVE  DistinctEntries'
  BY <1>2, DocumentUnchangedKeepsDistinct DEF Lost, document
<1>3. ASSUME UNCHANGED vars
      PROVE  DistinctEntries'
  BY <1>3, DocumentUnchangedKeepsDistinct DEF vars
<1>4. ASSUME Deadline
      PROVE  DistinctEntries'
  BY <1>4, DeadlineKeepsDistinct DEF Deadline
<1> QED
  BY <1>1, <1>2, <1>3, <1>4, MaintenanceStepKeepsDistinct,
     WorkloadStepKeepsDistinct, RecoveryStepKeepsDistinct,
     InferenceStepKeepsDistinct, OperatorStepKeepsDistinct
  DEF Next

-----------------------------------------------------------------------------
(* The record implements the lock.                                          *)

LEMMA LockInit == Init => Exclusion!Init
<1> SUFFICES ASSUME Init
             PROVE  Exclusion!Init
  OBVIOUS
<1>1. 1..minted = {}
  BY DEF Init
<1> QED
  BY <1>1, LockNames
  DEF Init, LockMaintenance, LockWorkloads, LockInferences

\* The entries of the record carry distinct ids, in every behaviour.
THEOREM RefinementInvariant == Spec => []RefinementInv
<1>1. Init => DistinctEntries
  BY DEF Init, DistinctEntries, OneLease, DistinctWorkloads,
     DistinctInferences
<1>2. ExclusionInv => TypeOK /\ WorkloadIds
  BY DEF ExclusionInv
<1>3. RefinementInv /\ [Next]_vars => RefinementInv'
  BY <1>2, DistinctStep, ExclusionStep DEF RefinementInv
<1>4. Init => RefinementInv
  BY <1>1, ExclusionInit DEF RefinementInv
<1> QED
  BY <1>3, <1>4, PTL DEF Spec

\* The record is the atomic lock: every read and later update of the code is a
\* single step of RuntimeExclusion, or changes nothing its callers rely on.
THEOREM ImplementsTheLock == Spec => ImplementsExclusion
<1>1. RefinementInv /\ [Next]_vars => [Exclusion!Next]_(Exclusion!lockVars)
  BY StepImplemented DEF Implemented
<1> QED
  BY <1>1, LockInit, RefinementInvariant, PTL
  DEF Spec, ImplementsExclusion, Exclusion!Spec

\* The steps of the lock, in the names above.
Alone == LockMaintenance = {} /\ LockWorkloads = {} /\ LockInferences = {}

TakesHosts(id, hosts, p) ==
    /\ \A w \in LockWorkloads : w.hosts \cap hosts = {}
    /\ \A i \in LockInferences : i.host \notin hosts
    /\ LockWorkloads' = LockWorkloads \cup
         {[id |-> id, hosts |-> hosts, principal |-> p]}
    /\ LockInferences' = LockInferences

SharesHost(id, h, k, mode, proof, p) ==
    /\ \/ \A w \in LockWorkloads : h \notin w.hosts
       \/ \E w \in LockWorkloads : w.id = proof /\ w.principal = p /\ h \in w.hosts
    /\ \A i \in LockInferences :
          i.host = h => i.mode = "shared" /\ mode = "shared" /\ i.key = k
    /\ LockInferences' = LockInferences \cup
         {[id |-> id, host |-> h, key |-> k, mode |-> mode, proof |-> proof,
           principal |-> p, unknown |-> FALSE]}
    /\ LockWorkloads' = LockWorkloads

Ends ==
    /\ LockMaintenance' \subseteq LockMaintenance
    /\ LockWorkloads' \subseteq LockWorkloads
    /\ LockInferences' \subseteq LockInferences

LosesTrack(lost) ==
    /\ LockMaintenance' = {[m EXCEPT !.unknown = @ \/ m.id \in lost] :
                              m \in LockMaintenance}
    /\ LockInferences' = {[i EXCEPT !.unknown = @ \/ i.id \in lost] :
                             i \in LockInferences}
    /\ LockWorkloads' = LockWorkloads

LEMMA LockSteps ==
    ASSUME Exclusion!Next
    PROVE  \/ Alone /\ LockWorkloads' = {} /\ LockInferences' = {}
           \/ \E id, hosts, p : /\ LockMaintenance = {} /\ LockMaintenance' = {}
                                /\ TakesHosts(id, hosts, p)
           \/ \E id, h, k, mode, proof, p : /\ LockMaintenance = {} /\ LockMaintenance' = {}
                                            /\ SharesHost(id, h, k, mode, proof, p)
           \/ Ends
           \/ \E lost : LosesTrack(lost)
<1>1. ASSUME NEW id, Exclusion!GrantMaintenance(id)
      PROVE  Alone /\ LockWorkloads' = {} /\ LockInferences' = {}
  BY <1>1 DEF Exclusion!GrantMaintenance, Alone, LockMaintenance, LockWorkloads,
     LockInferences, LockLease, LockWorkload, LockInference
<1>2. ASSUME NEW id, NEW hosts, NEW p, Exclusion!GrantWorkload(id, hosts, p)
      PROVE  LockMaintenance = {} /\ LockMaintenance' = {} /\ TakesHosts(id, hosts, p)
  BY <1>2 DEF Exclusion!GrantWorkload, TakesHosts, LockMaintenance, LockWorkloads,
     LockInferences, LockLease, LockWorkload, LockInference
<1>3. ASSUME NEW id, NEW h, NEW k, NEW mode, NEW proof, NEW p,
             Exclusion!GrantInference(id, h, k, mode, proof, p)
      PROVE  LockMaintenance = {} /\ LockMaintenance' = {}
             /\ SharesHost(id, h, k, mode, proof, p)
  BY <1>3 DEF Exclusion!GrantInference, Exclusion!Vouched, Exclusion!Compatible,
     SharesHost, LockMaintenance, LockWorkloads,
     LockInferences, LockLease, LockWorkload, LockInference
<1>4. ASSUME NEW id, Exclusion!End(id)
      PROVE  Ends
  BY <1>4 DEF Exclusion!End, Ends, LockMaintenance, LockWorkloads,
     LockInferences, LockLease, LockWorkload, LockInference
<1>5. ASSUME NEW lost, Exclusion!LoseTrack(lost)
      PROVE  LosesTrack(lost)
  BY <1>5, LockNames DEF LosesTrack
<1> QED
  BY <1>1, <1>2, <1>3, <1>4, <1>5 DEF Exclusion!Next, Exclusion!Grant

\* The promise of the lock, in the names above.
LockExcludes ==
    /\ LockMaintenance # {} => LockWorkloads = {} /\ LockInferences = {}
    /\ \A v, w \in LockWorkloads : v # w => v.hosts \cap w.hosts = {}
    /\ \A w \in LockWorkloads, i \in LockInferences :
          i.host \in w.hosts => i.proof = w.id /\ i.principal = w.principal
    /\ \A i, j \in LockInferences :
          i # j /\ i.host = j.host
             => i.mode = "shared" /\ j.mode = "shared" /\ i.key = j.key

LEMMA PromiseNames == Exclusion!Excludes <=> LockExcludes
  BY DEF Exclusion!Excludes, LockExcludes, LockMaintenance, LockWorkloads,
     LockInferences, LockLease, LockWorkload, LockInference

\* The promise is kept by each kind of step.
LEMMA PromiseKept ==
    ASSUME LockExcludes, Exclusion!Next
    PROVE  LockExcludes'
<1>1. CASE Alone /\ LockWorkloads' = {} /\ LockInferences' = {}
  BY <1>1 DEF LockExcludes
<1>2. ASSUME NEW id, NEW hosts, NEW p, LockMaintenance = {}, LockMaintenance' = {},
             TakesHosts(id, hosts, p)
      PROVE  LockExcludes'
  <2> DEFINE new == [id |-> id, hosts |-> hosts, principal |-> p]
  <2>1. /\ new.hosts = hosts
        /\ LockWorkloads' = LockWorkloads \cup {new}
        /\ LockInferences' = LockInferences
    BY <1>2 DEF TakesHosts
  <2>2. /\ \A w \in LockWorkloads : w.hosts \cap hosts = {}
        /\ \A i \in LockInferences : i.host \notin hosts
    BY <1>2 DEF TakesHosts
  <2> HIDE DEF new
  <2> QED
    BY <1>2, <2>1, <2>2 DEF LockExcludes
<1>3. ASSUME NEW id, NEW h, NEW k, NEW mode, NEW proof, NEW p,
             LockMaintenance = {}, LockMaintenance' = {},
             SharesHost(id, h, k, mode, proof, p)
      PROVE  LockExcludes'
  <2> DEFINE new == [id |-> id, host |-> h, key |-> k, mode |-> mode,
                     proof |-> proof, principal |-> p, unknown |-> FALSE]
  <2>1. /\ new.host = h /\ new.key = k /\ new.mode = mode
        /\ new.proof = proof /\ new.principal = p
        /\ LockInferences' = LockInferences \cup {new}
        /\ LockWorkloads' = LockWorkloads
    BY <1>3 DEF SharesHost
  <2>2. \A i \in LockInferences :
           i.host = h => i.mode = "shared" /\ mode = "shared" /\ i.key = k
    BY <1>3 DEF SharesHost
  <2>3. \A w \in LockWorkloads : h \in w.hosts => proof = w.id /\ p = w.principal
    BY <1>3 DEF SharesHost, LockExcludes
  <2> HIDE DEF new
  <2> QED
    BY <1>3, <2>1, <2>2, <2>3 DEF LockExcludes
<1>4. CASE Ends
  BY <1>4 DEF Ends, LockExcludes
<1>5. ASSUME NEW lost, LosesTrack(lost)
      PROVE  LockExcludes'
  <2> DEFINE Marked(i) == [i EXCEPT !.unknown = @ \/ i.id \in lost]
  <2>1. ASSUME NEW i \in LockInferences
        PROVE  /\ Marked(i).host = i.host /\ Marked(i).mode = i.mode
               /\ Marked(i).key = i.key /\ Marked(i).proof = i.proof
               /\ Marked(i).principal = i.principal
    BY DEF LockInferences, LockInference
  <2>2. LockInferences' = {Marked(i) : i \in LockInferences}
    BY <1>5 DEF LosesTrack
  <2>3. LockWorkloads' = LockWorkloads /\ (LockMaintenance = {} => LockMaintenance' = {})
        /\ (LockInferences = {} => LockInferences' = {})
        /\ (LockMaintenance' # {} => LockMaintenance # {})
    BY <1>5 DEF LosesTrack
  <2> HIDE DEF Marked
  <2> QED
    BY <2>1, <2>2, <2>3 DEF LockExcludes
<1> QED
  BY <1>1, <1>2, <1>3, <1>4, <1>5, LockSteps

\* The lock that the record implements is worth implementing: whatever grants,
\* ends and loses track as RuntimeExclusion does keeps maintenance alone, hosts
\* owned and residencies agreed.
THEOREM TheLockExcludes == ImplementsExclusion => []Exclusion!Excludes
<1>1. Exclusion!Init => LockExcludes
  BY LockNames DEF LockExcludes
<1>2. LockExcludes /\ [Exclusion!Next]_(Exclusion!lockVars) => LockExcludes'
  <2>1. LockExcludes /\ UNCHANGED Exclusion!lockVars => LockExcludes'
    <3> SUFFICES ASSUME LockExcludes, UNCHANGED Exclusion!lockVars
                 PROVE  LockExcludes'
      OBVIOUS
    <3>1. /\ LockMaintenance' = LockMaintenance
          /\ LockWorkloads' = LockWorkloads
          /\ LockInferences' = LockInferences
      BY DEF Exclusion!lockVars, LockMaintenance, LockWorkloads, LockInferences,
         LockLease, LockWorkload, LockInference
    <3> QED
      BY <3>1 DEF LockExcludes
  <2> QED
    BY <2>1, PromiseKept
<1> QED
  BY <1>1, <1>2, PromiseNames, PTL DEF ImplementsExclusion, Exclusion!Spec

-----------------------------------------------------------------------------
(* Recovery: what a step may never do to a workload.                        *)

\* A transition in flight goes to a state that follows the one it read.
CapturedTransitions ==
    \A c \in Client \cup Watchdog :
        calls[c].op = "transition" =>
            calls[c].to \in RecoveryTransitions[calls[c].from]

LEMMA BeginKeepsCaptured ==
    ASSUME CapturedTransitions, calls \in [Client \cup Watchdog -> Call],
           NEW c \in Client \cup Watchdog, NEW call, Begin(c, call),
           call.op = "transition" => call.to \in RecoveryTransitions[call.from]
    PROVE  CapturedTransitions'
  BY DEF CapturedTransitions, Begin

LEMMA ReturnKeepsCaptured ==
    ASSUME CapturedTransitions, calls \in [Client \cup Watchdog -> Call],
           NEW c \in Client \cup Watchdog, Return(c)
    PROVE  CapturedTransitions'
  BY DEF CapturedTransitions, Return, Idle

LEMMA CapturedStep ==
    ASSUME TypeOK, CapturedTransitions, [Next]_vars
    PROVE  CapturedTransitions'
<1>t. calls \in [Client \cup Watchdog -> Call]
  BY DEF TypeOK
<1>u. ASSUME UNCHANGED calls
      PROVE  CapturedTransitions'
  BY <1>u DEF CapturedTransitions
<1>1. ASSUME NEW c \in Client, MaintenanceStep(c)
      PROVE  CapturedTransitions'
  <2>1. CASE \E r \in Request : AcquireMaintenance(c, r)
    BY <1>t, <2>1, BeginKeepsCaptured DEF AcquireMaintenance
  <2>2. CASE \E m \in maintenance : HeartbeatMaintenance(c, m)
    BY <1>t, <2>2, BeginKeepsCaptured DEF HeartbeatMaintenance
  <2>3. CASE \E m \in maintenance : ReleaseMaintenance(c, m.id)
    BY <1>t, <2>3, BeginKeepsCaptured DEF ReleaseMaintenance
  <2>4. CASE AcquireMaintenanceCas(c) \/ HeartbeatMaintenanceCas(c)
               \/ ReleaseMaintenanceCas(c)
    BY <1>t, <2>4, ReturnKeepsCaptured
    DEF AcquireMaintenanceCas, HeartbeatMaintenanceCas, ReleaseMaintenanceCas
  <2> QED
    BY <1>1, <2>1, <2>2, <2>3, <2>4 DEF MaintenanceStep
<1>2. ASSUME NEW c \in Client, WorkloadStep(c)
      PROVE  CapturedTransitions'
  <2>1. CASE \E r \in Request : AcquireWorkload(c, r)
    BY <1>t, <2>1, BeginKeepsCaptured DEF AcquireWorkload
  <2>2. CASE \E w \in workloads : HeartbeatWorkload(c, w)
    BY <1>t, <2>2, BeginKeepsCaptured DEF HeartbeatWorkload
  <2>3. CASE \E w \in workloads : ReleaseWorkload(c, w.id)
    BY <1>t, <2>3, BeginKeepsCaptured DEF ReleaseWorkload
  <2>4. CASE \/ \E hosts \in SUBSET Host : AcquireWorkloadCas(c, hosts)
             \/ HeartbeatWorkloadCas(c)
             \/ ReleaseWorkloadCas(c)
    BY <1>t, <2>4, ReturnKeepsCaptured
    DEF AcquireWorkloadCas, HeartbeatWorkloadCas, ReleaseWorkloadCas
  <2> QED
    BY <1>2, <2>1, <2>2, <2>3, <2>4 DEF WorkloadStep
<1>3. ASSUME NEW c \in Client, RecoveryStep(c)
      PROVE  CapturedTransitions'
  <2>1. CASE \E w \in workloads, o \in Owner : AdoptRecovery(c, w, o)
    BY <1>t, <2>1, BeginKeepsCaptured DEF AdoptRecovery
  <2>2. CASE \E w \in workloads : HeartbeatRecovery(c, w)
    BY <1>t, <2>2, BeginKeepsCaptured DEF HeartbeatRecovery
  <2>3. CASE \E w \in workloads, to \in RecoveryState, receipt \in BOOLEAN :
                TransitionRecovery(c, w, to, receipt)
    BY <1>t, <2>3, BeginKeepsCaptured DEF TransitionRecovery
  <2>4. CASE \E w \in workloads : ResolveRecovery(c, w)
    BY <1>t, <2>4, BeginKeepsCaptured DEF ResolveRecovery
  <2>5. CASE AdoptRecoveryCas(c) \/ HeartbeatRecoveryCas(c)
               \/ TransitionRecoveryCas(c) \/ ResolveRecoveryCas(c)
    BY <1>t, <2>5, ReturnKeepsCaptured
    DEF AdoptRecoveryCas, HeartbeatRecoveryCas, TransitionRecoveryCas,
        ResolveRecoveryCas
  <2> QED
    BY <1>3, <2>1, <2>2, <2>3, <2>4, <2>5 DEF RecoveryStep
<1>4. ASSUME NEW c \in Client, InferenceStep(c)
      PROVE  CapturedTransitions'
  <2>1. CASE \E r \in Request : AcquireInference(c, r)
    BY <1>t, <2>1, BeginKeepsCaptured DEF AcquireInference
  <2>2. CASE \E i \in inferences : HeartbeatInference(c, i)
    BY <1>t, <2>2, BeginKeepsCaptured DEF HeartbeatInference
  <2>3. CASE \E i \in inferences : ReleaseInference(c, i.id)
    BY <1>t, <2>3, BeginKeepsCaptured DEF ReleaseInference
  <2>4. CASE \/ \E h \in Host, k \in ResidencyKey, mode \in Mode,
                   proof \in {NoProof} \cup Id :
                   AcquireInferenceCas(c, h, k, mode, proof)
             \/ HeartbeatInferenceCas(c)
             \/ ReleaseInferenceCas(c)
    BY <1>t, <2>4, ReturnKeepsCaptured
    DEF AcquireInferenceCas, HeartbeatInferenceCas, ReleaseInferenceCas
  <2> QED
    BY <1>4, <2>1, <2>2, <2>3, <2>4 DEF InferenceStep
<1>5. ASSUME NEW c \in Watchdog, ListActive(c) \/ ReapExpiredCas(c)
      PROVE  CapturedTransitions'
  BY <1>t, <1>5, BeginKeepsCaptured, ReturnKeepsCaptured
  DEF ListActive, ReapExpiredCas
<1>6. ASSUME NEW c \in Client \cup Watchdog, Lost(c)
      PROVE  CapturedTransitions'
  BY <1>t, <1>6, ReturnKeepsCaptured DEF Lost
<1>7. ASSUME OperatorStep \/ Deadline \/ UNCHANGED vars
      PROVE  CapturedTransitions'
  BY <1>u, <1>7
  DEF OperatorStep, Deadline, vars, MarkMaintenanceUnknown,
      RecoverMaintenance, MarkInferenceUnknown, RecoverInference,
      RestartRuntime
<1> QED
  BY <1>1, <1>2, <1>3, <1>4, <1>5, <1>6, <1>7 DEF Next

\* Who ends such a call: the update of its own kind, or the loss of the
\* request.
LEMMA CallEnds ==
    ASSUME TypeOK, [Next]_vars, NEW c \in Client \cup Watchdog,
           calls[c].op \in {"transition", "resolve", "reapExpired"},
           calls'[c] = Idle
    PROVE  \/ TransitionRecoveryCas(c)
           \/ ResolveRecoveryCas(c)
           \/ ReapExpiredCas(c)
           \/ Lost(c)
<1>t. /\ calls \in [Client \cup Watchdog -> Call]
      /\ calls[c] # Idle
  BY DEF TypeOK, Idle
<1>b. \A d \in Client \cup Watchdog : \A call : ~Begin(d, call)
  BY <1>t DEF Begin, Idle
<1>r. \A d \in Client \cup Watchdog : Return(d) => c = d
  BY <1>t DEF Return
<1>1. ASSUME NEW d \in Client, MaintenanceStep(d)
      PROVE  FALSE
  BY <1>1, <1>b, <1>r DEF MaintenanceStep, AcquireMaintenance,
     HeartbeatMaintenance, ReleaseMaintenance, AcquireMaintenanceCas,
     HeartbeatMaintenanceCas, ReleaseMaintenanceCas
<1>2. ASSUME NEW d \in Client, WorkloadStep(d)
      PROVE  FALSE
  BY <1>2, <1>b, <1>r DEF WorkloadStep, AcquireWorkload, HeartbeatWorkload,
     ReleaseWorkload, AcquireWorkloadCas, HeartbeatWorkloadCas,
     ReleaseWorkloadCas
<1>3. ASSUME NEW d \in Client, InferenceStep(d)
      PROVE  FALSE
  BY <1>3, <1>b, <1>r DEF InferenceStep, AcquireInference,
     HeartbeatInference, ReleaseInference, AcquireInferenceCas,
     HeartbeatInferenceCas, ReleaseInferenceCas
<1>4. ASSUME NEW d \in Client, RecoveryStep(d)
      PROVE  TransitionRecoveryCas(c) \/ ResolveRecoveryCas(c)
  BY <1>4, <1>b, <1>r DEF RecoveryStep, AdoptRecovery, HeartbeatRecovery,
     TransitionRecovery, ResolveRecovery, AdoptRecoveryCas,
     HeartbeatRecoveryCas, TransitionRecoveryCas, ResolveRecoveryCas
<1>5. ASSUME NEW d \in Watchdog, ListActive(d) \/ ReapExpiredCas(d)
      PROVE  ReapExpiredCas(c)
  BY <1>5, <1>b, <1>r DEF ListActive, ReapExpiredCas
<1>6. ASSUME NEW d \in Client \cup Watchdog, Lost(d)
      PROVE  Lost(c)
  BY <1>6, <1>r DEF Lost
<1>7. ASSUME OperatorStep \/ Deadline \/ UNCHANGED vars
      PROVE  FALSE
  BY <1>t, <1>7
  DEF OperatorStep, Deadline, vars, MarkMaintenanceUnknown,
      RecoverMaintenance, MarkInferenceUnknown, RecoverInference,
      RestartRuntime
<1> QED
  BY <1>1, <1>2, <1>3, <1>4, <1>5, <1>6, <1>7 DEF Next

\* What every step preserves of a workload: its recovery does not go back, and
\* a live recovery owner keeps it.
Forward(w, x) ==
    /\ Rank[w.state] <= Rank[x.state]
    /\ w.version <= x.version
    /\ w.generation <= x.generation
OwnerKept(w, x) ==
    w.ownerLive => x.owner = w.owner /\ x.generation = w.generation
Succeeds(w, x) == x.id = w.id /\ Forward(w, x) /\ OwnerKept(w, x)

\* Every workload after the step has a predecessor, or is the one just minted.
WorkloadsSucceed ==
    \A x \in workloads' :
        x.id = minted + 1 \/ \E w \in workloads : Succeeds(w, x)

LEMMA RankType ==
    /\ \A state \in RecoveryState : Rank[state] \in Nat
    /\ Rank["PREPARED"] <= Rank["UNKNOWN"]
    /\ Rank["MUTATING"] <= Rank["UNKNOWN"]
    /\ \A from \in RecoveryState : \A to \in RecoveryTransitions[from] :
          Rank[from] <= Rank[to]
  BY DEF Rank, RecoveryState, RecoveryTransitions

LEMMA SucceedsItself ==
    ASSUME TypeOK, NEW w \in workloads
    PROVE  Succeeds(w, w)
<1>1. w.state \in RecoveryState /\ w.version \in Nat /\ w.generation \in Nat
  BY DEF TypeOK, Workload
<1>2. Forward(w, w)
  BY <1>1, RankType DEF Forward
<1> QED
  BY <1>2 DEF Succeeds, OwnerKept

\* The fields of the workloads that the steps write.
LEMMA Quarantined ==
    ASSUME TypeOK, NEW w \in workloads, w.state \in {"PREPARED", "MUTATING"}
    PROVE  Succeeds(w, [w EXCEPT !.state = "UNKNOWN", !.receipt = TRUE])
<1> DEFINE x == [w EXCEPT !.state = "UNKNOWN", !.receipt = TRUE]
<1>1. /\ x.id = w.id /\ x.state = "UNKNOWN" /\ x.version = w.version
      /\ x.generation = w.generation /\ x.owner = w.owner
  BY DEF TypeOK, Workload
<1>2. w.version \in Nat /\ w.generation \in Nat
  BY DEF TypeOK, Workload
<1> HIDE DEF x
<1>3. Forward(w, x)
  BY <1>1, <1>2, RankType DEF Forward
<1> QED
  BY <1>1, <1>3 DEF Succeeds, OwnerKept, x

\* A lease is renewed or lapses.
LEMMA Renewed ==
    ASSUME TypeOK, NEW w \in workloads, NEW b
    PROVE  /\ Succeeds(w, [w EXCEPT !.live = b])
           /\ Succeeds(w, [w EXCEPT !.ownerLive = b])
<1>1. w.state \in RecoveryState /\ w.version \in Nat /\ w.generation \in Nat
  BY DEF TypeOK, Workload
<1>2. ASSUME NEW x, x.id = w.id, x.state = w.state, x.version = w.version,
             x.generation = w.generation, x.owner = w.owner
      PROVE  Succeeds(w, x)
  <2>1. Forward(w, x)
    BY <1>1, <1>2, RankType DEF Forward
  <2> QED
    BY <1>2, <2>1 DEF Succeeds, OwnerKept
<1>3. LET x == [w EXCEPT !.live = b]
      IN  /\ x.id = w.id /\ x.state = w.state /\ x.version = w.version
          /\ x.generation = w.generation /\ x.owner = w.owner
  BY DEF TypeOK, Workload
<1>4. LET x == [w EXCEPT !.ownerLive = b]
      IN  /\ x.id = w.id /\ x.state = w.state /\ x.version = w.version
          /\ x.generation = w.generation /\ x.owner = w.owner
  BY DEF TypeOK, Workload
<1> QED
  BY <1>2, <1>3, <1>4

LEMMA Adopted ==
    ASSUME TypeOK, NEW w \in workloads, ~w.ownerLive, NEW o
    PROVE  Succeeds(w, [w EXCEPT !.generation = @ + 1, !.owner = o,
                                 !.ownerLive = TRUE])
<1> DEFINE x == [w EXCEPT !.generation = @ + 1, !.owner = o,
                          !.ownerLive = TRUE]
<1>1. /\ x.id = w.id /\ x.state = w.state /\ x.version = w.version
      /\ x.generation = w.generation + 1
  BY DEF TypeOK, Workload
<1>2. w.state \in RecoveryState /\ w.version \in Nat /\ w.generation \in Nat
  BY DEF TypeOK, Workload
<1> HIDE DEF x
<1>3. Forward(w, x)
  BY <1>1, <1>2, RankType DEF Forward
<1> QED
  BY <1>1, <1>3 DEF Succeeds, OwnerKept, x

LEMMA Transitioned ==
    ASSUME TypeOK, NEW w \in workloads,
           NEW to \in RecoveryTransitions[w.state],
           NEW version, version = w.version + 1, NEW receipt, NEW live
    PROVE  Succeeds(w, [w EXCEPT !.state = to, !.version = version,
                                 !.receipt = receipt, !.live = live])
<1> DEFINE x == [w EXCEPT !.state = to, !.version = version,
                          !.receipt = receipt, !.live = live]
<1>1. /\ x.id = w.id /\ x.state = to /\ x.version = w.version + 1
      /\ x.generation = w.generation /\ x.owner = w.owner
  BY DEF TypeOK, Workload
<1>2. w.state \in RecoveryState /\ w.version \in Nat /\ w.generation \in Nat
  BY DEF TypeOK, Workload
<1> HIDE DEF x
<1>3. Forward(w, x)
  BY <1>1, <1>2, RankType DEF Forward
<1> QED
  BY <1>1, <1>3 DEF Succeeds, OwnerKept, x

LEMMA UnchangedSucceed ==
    ASSUME TypeOK, UNCHANGED workloads
    PROVE  WorkloadsSucceed
  BY SucceedsItself DEF WorkloadsSucceed

LEMMA FewerSucceed ==
    ASSUME TypeOK, workloads' \subseteq workloads
    PROVE  WorkloadsSucceed
  BY SucceedsItself DEF WorkloadsSucceed

LEMMA ReapSucceeds ==
    ASSUME TypeOK, NEW lapsed, Reap(lapsed)
    PROVE  WorkloadsSucceed
<1> DEFINE reaped(w) == [w EXCEPT !.state = "UNKNOWN", !.receipt = TRUE]
<1>1. \A x \in workloads' : \E w \in workloads :
         \/ x = w
         \/ w.state \in {"PREPARED", "MUTATING"} /\ x = reaped(w)
  BY DEF Reap, ReapedWorkloads
<1>2. \A w \in workloads :
         w.state \in {"PREPARED", "MUTATING"} => Succeeds(w, reaped(w))
  BY Quarantined
<1> HIDE DEF reaped
<1> QED
  BY <1>1, <1>2, SucceedsItself DEF WorkloadsSucceed

LEMMA WorkloadStepSucceeds ==
    ASSUME TypeOK, NEW c \in Client, WorkloadStep(c)
    PROVE  WorkloadsSucceed
<1>1. ASSUME NEW r \in Request, AcquireWorkload(c, r)
      PROVE  WorkloadsSucceed
  BY <1>1, ReapSucceeds DEF AcquireWorkload
<1>2. ASSUME NEW w \in workloads, HeartbeatWorkload(c, w)
      PROVE  WorkloadsSucceed
  BY <1>2, UnchangedSucceed DEF HeartbeatWorkload, document
<1>3. ASSUME NEW id, ReleaseWorkload(c, id)
      PROVE  WorkloadsSucceed
  BY <1>3, ReapSucceeds DEF ReleaseWorkload
<1>4. ASSUME NEW hosts \in SUBSET Host, AcquireWorkloadCas(c, hosts)
      PROVE  WorkloadsSucceed
  <2>1. \A x \in workloads' : x.id = minted + 1 \/ x \in workloads
    BY <1>4 DEF AcquireWorkloadCas
  <2> QED
    BY <2>1, SucceedsItself DEF WorkloadsSucceed
<1>5. ASSUME HeartbeatWorkloadCas(c)
      PROVE  WorkloadsSucceed
  <2> DEFINE renewed(w) == [w EXCEPT !.live = TRUE]
  <2>1. \A x \in workloads' : \E w \in workloads :
           x = w \/ x = renewed(w)
    BY <1>5 DEF HeartbeatWorkloadCas
  <2>2. \A w \in workloads : Succeeds(w, renewed(w))
    BY Renewed
  <2> HIDE DEF renewed
  <2> QED
    BY <2>1, <2>2, SucceedsItself DEF WorkloadsSucceed
<1>6. ASSUME ReleaseWorkloadCas(c)
      PROVE  WorkloadsSucceed
  BY <1>6, FewerSucceed DEF ReleaseWorkloadCas
<1> QED
  BY <1>1, <1>2, <1>3, <1>4, <1>5, <1>6 DEF WorkloadStep

LEMMA RecoveryStepSucceeds ==
    ASSUME TypeOK, CapturedTransitions, NEW c \in Client, RecoveryStep(c)
    PROVE  WorkloadsSucceed
<1>1. ASSUME \/ \E w \in workloads, o \in Owner : AdoptRecovery(c, w, o)
             \/ \E w \in workloads : HeartbeatRecovery(c, w)
             \/ \E w \in workloads, to \in RecoveryState,
                   receipt \in BOOLEAN : TransitionRecovery(c, w, to, receipt)
             \/ \E w \in workloads : ResolveRecovery(c, w)
      PROVE  WorkloadsSucceed
  BY <1>1, UnchangedSucceed
  DEF AdoptRecovery, HeartbeatRecovery, TransitionRecovery, ResolveRecovery,
      document
<1>2. ASSUME AdoptRecoveryCas(c)
      PROVE  WorkloadsSucceed
  <2> DEFINE adopted(w) == [w EXCEPT !.generation = @ + 1,
                                     !.owner = calls[c].owner,
                                     !.ownerLive = TRUE]
  <2>1. \A x \in workloads' : \E w \in workloads :
           x = w \/ (~w.ownerLive /\ x = adopted(w))
    BY <1>2 DEF AdoptRecoveryCas, AdoptFilter, Adoptable
  <2>2. \A w \in workloads : ~w.ownerLive => Succeeds(w, adopted(w))
    BY Adopted
  <2> HIDE DEF adopted
  <2> QED
    BY <2>1, <2>2, SucceedsItself DEF WorkloadsSucceed
<1>3. ASSUME HeartbeatRecoveryCas(c)
      PROVE  WorkloadsSucceed
  <2> DEFINE renewed(w) == [w EXCEPT !.ownerLive = TRUE]
  <2>1. \A x \in workloads' : \E w \in workloads :
           x = w \/ x = renewed(w)
    BY <1>3 DEF HeartbeatRecoveryCas
  <2>2. \A w \in workloads : Succeeds(w, renewed(w))
    BY Renewed
  <2> HIDE DEF renewed
  <2> QED
    BY <2>1, <2>2, SucceedsItself DEF WorkloadsSucceed
<1>4. ASSUME TransitionRecoveryCas(c)
      PROVE  WorkloadsSucceed
  <2> DEFINE moved(w) == [w EXCEPT !.state = calls[c].to,
                                   !.version = calls[c].version + 1,
                                   !.receipt = calls[c].receipt,
                                   !.live = @ /\ calls[c].to # "UNKNOWN"]
  <2>1. \A x \in workloads' : \E w \in workloads :
           x = w \/ (TransitionFilter(calls[c], w) /\ x = moved(w))
    BY <1>4 DEF TransitionRecoveryCas
  <2>2. \A w \in workloads :
           TransitionFilter(calls[c], w) => Succeeds(w, moved(w))
    <3>1. \A w \in workloads : TransitionFilter(calls[c], w) =>
             /\ calls[c].to \in RecoveryTransitions[w.state]
             /\ calls[c].version + 1 = w.version + 1
      BY <1>4 DEF TransitionFilter, CapturedTransitions, TransitionRecoveryCas
    <3> QED
      BY <3>1, Transitioned
  <2> HIDE DEF moved
  <2> QED
    BY <2>1, <2>2, SucceedsItself DEF WorkloadsSucceed
<1>5. ASSUME ResolveRecoveryCas(c)
      PROVE  WorkloadsSucceed
  BY <1>5, FewerSucceed DEF ResolveRecoveryCas
<1> QED
  BY <1>1, <1>2, <1>3, <1>4, <1>5 DEF RecoveryStep

LEMMA StepSucceeds ==
    ASSUME TypeOK, CapturedTransitions, [Next]_vars
    PROVE  WorkloadsSucceed
<1>1. ASSUME NEW c \in Client, MaintenanceStep(c) \/ InferenceStep(c)
      PROVE  WorkloadsSucceed
  <2>1. UNCHANGED workloads \/ Reap(Id)
    BY <1>1 DEF MaintenanceStep, AcquireMaintenance,
       HeartbeatMaintenance, ReleaseMaintenance, AcquireMaintenanceCas,
       HeartbeatMaintenanceCas, ReleaseMaintenanceCas, InferenceStep,
       AcquireInference, HeartbeatInference, ReleaseInference,
       AcquireInferenceCas, HeartbeatInferenceCas, ReleaseInferenceCas,
       document
  <2> QED
    BY <2>1, UnchangedSucceed, ReapSucceeds
<1>2. ASSUME NEW c \in Watchdog, ListActive(c) \/ ReapExpiredCas(c)
      PROVE  WorkloadsSucceed
  BY <1>2, UnchangedSucceed, ReapSucceeds
  DEF ListActive, ReapExpiredCas, document
<1>3. ASSUME OperatorStep \/ UNCHANGED vars
               \/ \E c \in Client \cup Watchdog : Lost(c)
      PROVE  WorkloadsSucceed
  BY <1>3, UnchangedSucceed
  DEF OperatorStep, vars, MarkMaintenanceUnknown, RecoverMaintenance,
      MarkInferenceUnknown, RecoverInference, RestartRuntime, Lost, document
<1>4. ASSUME Deadline
      PROVE  WorkloadsSucceed
  <2> DEFINE lapsed(w) == [w EXCEPT !.live = FALSE]
             abandoned(w) == [w EXCEPT !.ownerLive = FALSE]
  <2>1. \A x \in workloads' : \E w \in workloads :
           x = w \/ x = lapsed(w) \/ x = abandoned(w)
    BY <1>4 DEF Deadline
  <2>2. \A w \in workloads :
           Succeeds(w, lapsed(w)) /\ Succeeds(w, abandoned(w))
    BY Renewed
  <2> HIDE DEF lapsed, abandoned
  <2> QED
    BY <2>1, <2>2, SucceedsItself DEF WorkloadsSucceed
<1> QED
  BY <1>1, <1>2, <1>3, <1>4, WorkloadStepSucceeds, RecoveryStepSucceeds
  DEF Next

\* Transitions in flight, distinct ids and the exclusions, together.
RecoveryInv == RefinementInv /\ CapturedTransitions

LEMMA RecoveryInvariant == Spec => []RecoveryInv
<1>1. Init => CapturedTransitions
  BY DEF Init, CapturedTransitions, Idle
<1>2. TypeOK /\ CapturedTransitions /\ [Next]_vars => CapturedTransitions'
  BY CapturedStep
<1>3. Spec => []CapturedTransitions
  BY <1>1, <1>2, TypeCorrect, PTL DEF Spec
<1>4. RefinementInv /\ CapturedTransitions => RecoveryInv
  BY DEF RecoveryInv
<1> QED
  BY <1>3, <1>4, RefinementInvariant, PTL

\* A workload and its successor: the one workload with its id.
LEMMA Successor ==
    ASSUME RecoveryInv, [Next]_vars, NEW w \in workloads, NEW x \in workloads',
           w.id = x.id
    PROVE  Succeeds(w, x)
<1>1. WorkloadsSucceed
  BY StepSucceeds DEF RecoveryInv, RefinementInv, ExclusionInv
<1>2. x.id # minted + 1
  BY DEF RecoveryInv, RefinementInv, ExclusionInv, WorkloadIds, TypeOK,
     Workload, Id
<1>3. PICK v \in workloads : Succeeds(v, x)
  BY <1>1, <1>2 DEF WorkloadsSucceed
<1>4. v = w
  BY <1>3 DEF RecoveryInv, RefinementInv, DistinctEntries, DistinctWorkloads,
     Succeeds
<1> QED
  BY <1>3, <1>4

\* No stale transition and no late reaper takes a recovery back, in every
\* behaviour.
THEOREM RecoveryNeverGoesBack == Spec => RecoveryMovesForward
<1> DEFINE forward ==
       \A w \in workloads, x \in workloads' :
          w.id = x.id => /\ Rank[w.state] <= Rank[x.state]
                         /\ w.version <= x.version
                         /\ w.generation <= x.generation
<1>1. ASSUME RecoveryInv, [Next]_vars
      PROVE  forward
  BY <1>1, Successor DEF Succeeds, Forward
<1>2. RecoveryInv /\ [Next]_vars => [forward]_vars
  BY <1>1
<1> QED
  BY <1>2, RecoveryInvariant, PTL DEF Spec, RecoveryMovesForward

\* A live recovery owner keeps its workload, in every behaviour.
THEOREM LiveOwnersKeepTheirs == Spec => LiveOwnerKept
<1> DEFINE kept ==
       \A w \in workloads, x \in workloads' :
          w.id = x.id /\ w.ownerLive =>
             x.owner = w.owner /\ x.generation = w.generation
<1>1. ASSUME RecoveryInv, [Next]_vars
      PROVE  kept
  BY <1>1, Successor DEF Succeeds, OwnerKept
<1>2. RecoveryInv /\ [Next]_vars => [kept]_vars
  BY <1>1
<1> QED
  BY <1>2, RecoveryInvariant, PTL DEF Spec, LiveOwnerKept

\* Only the current recovery generation writes, in every behaviour.
THEOREM RecoveryHasOneWriter == Spec => RecoveryFenced
<1> DEFINE fenced ==
       \A c \in Client, w \in workloads :
          /\ calls[c].op \in {"transition", "resolve"}
          /\ calls'[c] = Idle
          /\ \A x \in workloads' : x.id = w.id => x.version # w.version
          => calls[c].generation = w.generation
<1>1. ASSUME RecoveryInv, [Next]_vars
      PROVE  fenced
  <2> SUFFICES ASSUME NEW c \in Client, NEW w \in workloads,
                      calls[c].op \in {"transition", "resolve"},
                      calls'[c] = Idle,
                      \A x \in workloads' : x.id = w.id =>
                                              x.version # w.version
               PROVE  calls[c].generation = w.generation
    OBVIOUS
  <2>1. w \notin workloads'
    OBVIOUS
  <2>2. TransitionRecoveryCas(c) \/ ResolveRecoveryCas(c) \/ Lost(c)
    BY <1>1, CallEnds
    DEF RecoveryInv, RefinementInv, ExclusionInv, ReapExpiredCas
  <2>3. CASE TransitionRecoveryCas(c)
    BY <2>1, <2>3 DEF TransitionRecoveryCas, TransitionFilter
  <2>4. CASE ResolveRecoveryCas(c)
    BY <2>1, <2>4 DEF ResolveRecoveryCas, ResolveFilter
  <2>5. CASE Lost(c)
    BY <2>1, <2>5 DEF Lost, document
  <2> QED
    BY <2>2, <2>3, <2>4, <2>5
<1>2. RecoveryInv /\ [Next]_vars => [fenced]_vars
  BY <1>1
<1> QED
  BY <1>2, RecoveryInvariant, PTL DEF Spec, RecoveryFenced

\* A reap quarantines nothing that was renewed meanwhile, in every behaviour.
THEOREM RenewalsSurvive == Spec => RenewalSurvivesReaper
<1> DEFINE survives ==
       \A c \in Watchdog :
          calls[c].op = "reapExpired" /\ calls'[c] = Idle =>
             /\ \A w \in workloads : w.live => w \in workloads'
             /\ \A i \in inferences : i.live => i \in inferences'
             /\ \A m \in maintenance : m.live => m \in maintenance'
<1>1. ASSUME TypeOK, [Next]_vars
      PROVE  survives
  <2> SUFFICES ASSUME NEW c \in Watchdog, calls[c].op = "reapExpired",
                      calls'[c] = Idle
               PROVE  /\ \A w \in workloads : w.live => w \in workloads'
                      /\ \A i \in inferences : i.live => i \in inferences'
                      /\ \A m \in maintenance : m.live => m \in maintenance'
    OBVIOUS
  <2>1. ReapExpiredCas(c) \/ Lost(c)
    BY <1>1, CallEnds DEF TransitionRecoveryCas, ResolveRecoveryCas
  <2>2. CASE ReapExpiredCas(c)
    BY <2>2 DEF ReapExpiredCas, Reap, ReapedWorkloads, ReapedInferences,
       ReapedMaintenance
  <2>3. CASE Lost(c)
    BY <2>3 DEF Lost, document
  <2> QED
    BY <2>1, <2>2, <2>3
<1>2. TypeOK /\ [Next]_vars => [survives]_vars
  BY <1>1
<1> QED
  BY <1>2, TypeCorrect, PTL DEF Spec, RenewalSurvivesReaper

-----------------------------------------------------------------------------
(* Ids.  One id is held once in the whole record, and what the log names is *)
(* held no more.                                                            *)

LeaseIds == {m.id : m \in maintenance}
ReservedIds == {w.id : w \in workloads}
InferenceIds == {i.id : i \in inferences}

\* No id is held by two arrays, and none is ahead of the counter.  (A lease for
\* maintenance excludes the other arrays.)
IdsApart ==
    /\ ReservedIds \cap InferenceIds = {}
    /\ \A id \in Held : id <= minted

\* A step keeps or drops ids, or mints one for one array.
IdsMove ==
    \/ /\ minted' = minted
       /\ LeaseIds' \subseteq LeaseIds
       /\ ReservedIds' \subseteq ReservedIds
       /\ InferenceIds' \subseteq InferenceIds
    \/ /\ minted' = minted + 1
       /\ LeaseIds' \subseteq LeaseIds \cup {minted + 1}
       /\ ReservedIds' \subseteq ReservedIds
       /\ InferenceIds' \subseteq InferenceIds
    \/ /\ minted' = minted + 1
       /\ LeaseIds' \subseteq LeaseIds
       /\ ReservedIds' \subseteq ReservedIds \cup {minted + 1}
       /\ InferenceIds' \subseteq InferenceIds
    \/ /\ minted' = minted + 1
       /\ LeaseIds' \subseteq LeaseIds
       /\ ReservedIds' \subseteq ReservedIds
       /\ InferenceIds' \subseteq InferenceIds \cup {minted + 1}

LEMMA HeldIds ==
    /\ Held = LeaseIds \cup ReservedIds \cup InferenceIds
    /\ Held' = LeaseIds' \cup ReservedIds' \cup InferenceIds'
  BY DEF Held, LeaseIds, ReservedIds, InferenceIds

LEMMA IdsMoveKeepsApart ==
    ASSUME TypeOK, IdsApart, IdsMove
    PROVE  IdsApart'
<1>1. minted \in Nat /\ Held \subseteq Nat
  BY DEF TypeOK, Held, Lease, Workload, Inference, Id
<1>2. \A id \in Held : id <= minted /\ id # minted + 1
  BY <1>1 DEF IdsApart
<1>3. \A id \in Held' : id <= minted'
  BY <1>1, <1>2, HeldIds DEF IdsMove
<1>4. ReservedIds' \cap InferenceIds' = {}
  BY <1>2, HeldIds DEF IdsMove, IdsApart
<1> QED
  BY <1>3, <1>4 DEF IdsApart

LEMMA ReapMovesIds ==
    ASSUME TypeOK, NEW lapsed, Reap(lapsed), UNCHANGED minted
    PROVE  IdsMove
<1>1. \A w \in workloads :
         [w EXCEPT !.state = "UNKNOWN", !.receipt = TRUE].id = w.id
  BY DEF TypeOK, Workload
<1>2. \A i \in inferences : [i EXCEPT !.state = "UNKNOWN"].id = i.id
  BY DEF TypeOK, Inference
<1>3. \A m \in maintenance : [m EXCEPT !.state = "UNKNOWN"].id = m.id
  BY DEF TypeOK, Lease
<1>4. \A x \in workloads' : \E w \in workloads : x.id = w.id
  BY <1>1 DEF Reap, ReapedWorkloads
<1>5. \A x \in inferences' : \E i \in inferences : x.id = i.id
  BY <1>2 DEF Reap, ReapedInferences
<1>6. \A x \in maintenance' : \E m \in maintenance : x.id = m.id
  BY <1>3 DEF Reap, ReapedMaintenance
<1> QED
  BY <1>4, <1>5, <1>6 DEF IdsMove, LeaseIds, ReservedIds, InferenceIds

\* Each array alone.
LEMMA ArrayMoves ==
    ASSUME UNCHANGED minted,
           \A x \in maintenance' : \E m \in maintenance : x.id = m.id,
           \A x \in workloads' : \E w \in workloads : x.id = w.id,
           \A x \in inferences' : \E i \in inferences : x.id = i.id
    PROVE  IdsMove
  BY DEF IdsMove, LeaseIds, ReservedIds, InferenceIds

LEMMA MaintenanceStepMovesIds ==
    ASSUME TypeOK, NEW c \in Client, MaintenanceStep(c)
    PROVE  IdsMove
<1>1. ASSUME \/ \E r \in Request : AcquireMaintenance(c, r)
             \/ \E m \in maintenance : ReleaseMaintenance(c, m.id)
      PROVE  IdsMove
  BY <1>1, ReapMovesIds DEF AcquireMaintenance, ReleaseMaintenance
<1>2. ASSUME \E m \in maintenance : HeartbeatMaintenance(c, m)
      PROVE  IdsMove
  BY <1>2, ArrayMoves DEF HeartbeatMaintenance, document
<1>3. ASSUME AcquireMaintenanceCas(c)
      PROVE  IdsMove
  <2>1. CASE UNCHANGED <<maintenance, minted>>
    BY <1>3, <2>1, ArrayMoves DEF AcquireMaintenanceCas
  <2>2. CASE ~UNCHANGED <<maintenance, minted>>
    <3>1. /\ \A x \in maintenance' : x.id = minted + 1
          /\ minted' = minted + 1
          /\ UNCHANGED <<workloads, inferences>>
      BY <1>3, <2>2 DEF AcquireMaintenanceCas
    <3> QED
      BY <3>1 DEF IdsMove, LeaseIds, ReservedIds, InferenceIds
  <2> QED
    BY <2>1, <2>2
<1>4. ASSUME HeartbeatMaintenanceCas(c)
      PROVE  IdsMove
  <2>1. \A m \in maintenance : [m EXCEPT !.live = TRUE].id = m.id
    BY DEF TypeOK, Lease
  <2>2. \A x \in maintenance' : \E m \in maintenance : x.id = m.id
    BY <1>4, <2>1 DEF HeartbeatMaintenanceCas
  <2> QED
    BY <1>4, <2>2, ArrayMoves DEF HeartbeatMaintenanceCas
<1>5. ASSUME ReleaseMaintenanceCas(c)
      PROVE  IdsMove
  BY <1>5, ArrayMoves DEF ReleaseMaintenanceCas
<1> QED
  BY <1>1, <1>2, <1>3, <1>4, <1>5 DEF MaintenanceStep

LEMMA WorkloadStepMovesIds ==
    ASSUME TypeOK, NEW c \in Client, WorkloadStep(c)
    PROVE  IdsMove
<1>1. ASSUME \/ \E r \in Request : AcquireWorkload(c, r)
             \/ \E w \in workloads : ReleaseWorkload(c, w.id)
      PROVE  IdsMove
  BY <1>1, ReapMovesIds DEF AcquireWorkload, ReleaseWorkload
<1>2. ASSUME \E w \in workloads : HeartbeatWorkload(c, w)
      PROVE  IdsMove
  BY <1>2, ArrayMoves DEF HeartbeatWorkload, document
<1>3. ASSUME NEW hosts \in SUBSET Host, AcquireWorkloadCas(c, hosts)
      PROVE  IdsMove
  <2>1. CASE UNCHANGED <<workloads, minted>>
    BY <1>3, <2>1, ArrayMoves DEF AcquireWorkloadCas
  <2>2. CASE ~UNCHANGED <<workloads, minted>>
    <3>1. /\ \A x \in workloads' : x.id = minted + 1 \/ x \in workloads
          /\ minted' = minted + 1
          /\ UNCHANGED <<maintenance, inferences>>
      BY <1>3, <2>2 DEF AcquireWorkloadCas
    <3> QED
      BY <3>1 DEF IdsMove, LeaseIds, ReservedIds, InferenceIds
  <2> QED
    BY <2>1, <2>2
<1>4. ASSUME HeartbeatWorkloadCas(c)
      PROVE  IdsMove
  <2>1. \A w \in workloads : [w EXCEPT !.live = TRUE].id = w.id
    BY DEF TypeOK, Workload
  <2>2. \A x \in workloads' : \E w \in workloads : x.id = w.id
    BY <1>4, <2>1 DEF HeartbeatWorkloadCas
  <2> QED
    BY <1>4, <2>2, ArrayMoves DEF HeartbeatWorkloadCas
<1>5. ASSUME ReleaseWorkloadCas(c)
      PROVE  IdsMove
  BY <1>5, ArrayMoves DEF ReleaseWorkloadCas
<1> QED
  BY <1>1, <1>2, <1>3, <1>4, <1>5 DEF WorkloadStep

LEMMA RecoveryStepMovesIds ==
    ASSUME TypeOK, NEW c \in Client, RecoveryStep(c)
    PROVE  IdsMove
<1>1. ASSUME \/ \E w \in workloads, o \in Owner : AdoptRecovery(c, w, o)
             \/ \E w \in workloads : HeartbeatRecovery(c, w)
             \/ \E w \in workloads, to \in RecoveryState,
                   receipt \in BOOLEAN : TransitionRecovery(c, w, to, receipt)
             \/ \E w \in workloads : ResolveRecovery(c, w)
      PROVE  IdsMove
  BY <1>1, ArrayMoves
  DEF AdoptRecovery, HeartbeatRecovery, TransitionRecovery, ResolveRecovery,
      document
<1>2. ASSUME AdoptRecoveryCas(c)
      PROVE  IdsMove
  <2>1. \A w \in workloads :
           [w EXCEPT !.generation = @ + 1, !.owner = calls[c].owner,
                     !.ownerLive = TRUE].id = w.id
    BY DEF TypeOK, Workload
  <2>2. \A x \in workloads' : \E w \in workloads : x.id = w.id
    BY <1>2, <2>1 DEF AdoptRecoveryCas
  <2> QED
    BY <1>2, <2>2, ArrayMoves DEF AdoptRecoveryCas
<1>3. ASSUME HeartbeatRecoveryCas(c)
      PROVE  IdsMove
  <2>1. \A w \in workloads : [w EXCEPT !.ownerLive = TRUE].id = w.id
    BY DEF TypeOK, Workload
  <2>2. \A x \in workloads' : \E w \in workloads : x.id = w.id
    BY <1>3, <2>1 DEF HeartbeatRecoveryCas
  <2> QED
    BY <1>3, <2>2, ArrayMoves DEF HeartbeatRecoveryCas
<1>4. ASSUME TransitionRecoveryCas(c)
      PROVE  IdsMove
  <2>1. \A w \in workloads :
           [w EXCEPT !.state = calls[c].to, !.version = calls[c].version + 1,
                     !.receipt = calls[c].receipt,
                     !.live = @ /\ calls[c].to # "UNKNOWN"].id = w.id
    BY DEF TypeOK, Workload
  <2>2. \A x \in workloads' : \E w \in workloads : x.id = w.id
    BY <1>4, <2>1 DEF TransitionRecoveryCas
  <2> QED
    BY <1>4, <2>2, ArrayMoves DEF TransitionRecoveryCas
<1>5. ASSUME ResolveRecoveryCas(c)
      PROVE  IdsMove
  BY <1>5, ArrayMoves DEF ResolveRecoveryCas
<1> QED
  BY <1>1, <1>2, <1>3, <1>4, <1>5 DEF RecoveryStep

LEMMA InferenceStepMovesIds ==
    ASSUME TypeOK, NEW c \in Client, InferenceStep(c)
    PROVE  IdsMove
<1>1. ASSUME \/ \E r \in Request : AcquireInference(c, r)
             \/ \E i \in inferences : ReleaseInference(c, i.id)
      PROVE  IdsMove
  BY <1>1, ReapMovesIds DEF AcquireInference, ReleaseInference
<1>2. ASSUME \E i \in inferences : HeartbeatInference(c, i)
      PROVE  IdsMove
  BY <1>2, ArrayMoves DEF HeartbeatInference, document
<1>3. ASSUME NEW h \in Host, NEW k \in ResidencyKey, NEW mode \in Mode,
             NEW proof \in {NoProof} \cup Id,
             AcquireInferenceCas(c, h, k, mode, proof)
      PROVE  IdsMove
  <2>1. CASE UNCHANGED <<inferences, minted>>
    BY <1>3, <2>1, ArrayMoves DEF AcquireInferenceCas
  <2>2. CASE ~UNCHANGED <<inferences, minted>>
    <3>1. /\ \A x \in inferences' : x.id = minted + 1 \/ x \in inferences
          /\ minted' = minted + 1
          /\ UNCHANGED <<maintenance, workloads>>
      BY <1>3, <2>2 DEF AcquireInferenceCas
    <3> QED
      BY <3>1 DEF IdsMove, LeaseIds, ReservedIds, InferenceIds
  <2> QED
    BY <2>1, <2>2
<1>4. ASSUME HeartbeatInferenceCas(c)
      PROVE  IdsMove
  <2>1. \A i \in inferences : [i EXCEPT !.live = TRUE].id = i.id
    BY DEF TypeOK, Inference
  <2>2. \A x \in inferences' : \E i \in inferences : x.id = i.id
    BY <1>4, <2>1 DEF HeartbeatInferenceCas
  <2> QED
    BY <1>4, <2>2, ArrayMoves DEF HeartbeatInferenceCas
<1>5. ASSUME ReleaseInferenceCas(c)
      PROVE  IdsMove
  BY <1>5, ArrayMoves DEF ReleaseInferenceCas
<1> QED
  BY <1>1, <1>2, <1>3, <1>4, <1>5 DEF InferenceStep

LEMMA StepMovesIds ==
    ASSUME TypeOK, [Next]_vars
    PROVE  IdsMove
<1>1. ASSUME NEW c \in Watchdog, ListActive(c) \/ ReapExpiredCas(c)
      PROVE  IdsMove
  BY <1>1, ReapMovesIds, ArrayMoves DEF ListActive, ReapExpiredCas, document
<1>i. /\ \A w \in workloads : /\ [w EXCEPT !.live = FALSE].id = w.id
                              /\ [w EXCEPT !.ownerLive = FALSE].id = w.id
      /\ \A i \in inferences : /\ [i EXCEPT !.live = FALSE].id = i.id
                               /\ [i EXCEPT !.state = "UNKNOWN"].id = i.id
      /\ \A m \in maintenance : /\ [m EXCEPT !.live = FALSE].id = m.id
                                /\ [m EXCEPT !.state = "UNKNOWN"].id = m.id
  BY DEF TypeOK, Workload, Inference, Lease
<1>2. ASSUME OperatorStep
      PROVE  IdsMove
  <2>1. \A x \in maintenance' : \E m \in maintenance : x.id = m.id
    BY <1>i, <1>2
    DEF OperatorStep, MarkMaintenanceUnknown, RecoverMaintenance,
        MarkInferenceUnknown, RecoverInference, RestartRuntime, document
  <2>2. \A x \in workloads' : \E w \in workloads : x.id = w.id
    BY <1>i, <1>2
    DEF OperatorStep, MarkMaintenanceUnknown, RecoverMaintenance,
        MarkInferenceUnknown, RecoverInference, RestartRuntime, document
  <2>3. \A x \in inferences' : \E i \in inferences : x.id = i.id
    <3>1. ASSUME NEW i \in inferences, MarkInferenceUnknown(i)
          PROVE  \A x \in inferences' : \E j \in inferences : x.id = j.id
      BY <1>i, <3>1 DEF MarkInferenceUnknown
    <3>2. CASE inferences' \subseteq inferences
      BY <3>2
    <3>3. \/ \E i \in inferences : MarkInferenceUnknown(i)
          \/ inferences' \subseteq inferences
      BY <1>2
      DEF OperatorStep, MarkMaintenanceUnknown, RecoverMaintenance,
          RecoverInference, RestartRuntime, document
    <3> QED
      BY <3>1, <3>2, <3>3
  <2>4. UNCHANGED minted
    BY <1>2
    DEF OperatorStep, MarkMaintenanceUnknown, RecoverMaintenance,
        MarkInferenceUnknown, RecoverInference, RestartRuntime, document
  <2> QED
    BY <2>1, <2>2, <2>3, <2>4, ArrayMoves
<1>4. ASSUME Deadline
      PROVE  IdsMove
  <2>1. \A x \in maintenance' : \E m \in maintenance : x.id = m.id
    BY <1>i, <1>4
    DEF Deadline
  <2>2. \A x \in workloads' : \E w \in workloads : x.id = w.id
    BY <1>i, <1>4
    DEF Deadline
  <2>3. \A x \in inferences' : \E i \in inferences : x.id = i.id
    BY <1>i, <1>4
    DEF Deadline
  <2>4. UNCHANGED minted
    BY <1>4
    DEF Deadline
  <2> QED
    BY <2>1, <2>2, <2>3, <2>4, ArrayMoves
<1>3. ASSUME UNCHANGED vars \/ \E c \in Client \cup Watchdog : Lost(c)
      PROVE  IdsMove
  BY <1>3, ArrayMoves DEF vars, Lost, document
<1> QED
  BY <1>1, <1>2, <1>3, <1>4, MaintenanceStepMovesIds, WorkloadStepMovesIds,
     RecoveryStepMovesIds, InferenceStepMovesIds
  DEF Next

-----------------------------------------------------------------------------
(* The log of receipts and the quarantine.                                  *)

\* What a push leaves in the log: the new receipt, behind the old ones or all
\* of them but the first.
LEMMA LogContent ==
    ASSUME releaseReceipts \in Seq(Receipt), NEW kind, NEW id,
           [kind |-> kind, id |-> id] \in Receipt, Log(kind, id)
    PROVE  \E dropped \in {0, 1} :
              /\ Len(releaseReceipts') = Len(releaseReceipts) + 1 - dropped
              /\ Len(releaseReceipts') >= 1
              /\ releaseReceipts'[Len(releaseReceipts')] =
                    [kind |-> kind, id |-> id]
              /\ \A n \in 1..(Len(releaseReceipts') - 1) :
                    /\ n + dropped \in 1..Len(releaseReceipts)
                    /\ releaseReceipts'[n] = releaseReceipts[n + dropped]
<1> DEFINE r == [kind |-> kind, id |-> id]
           log == Append(releaseReceipts, r)
<1>1. /\ log \in Seq(Receipt)
      /\ Len(log) = Len(releaseReceipts) + 1
      /\ log[Len(log)] = r
      /\ \A n \in 1..Len(releaseReceipts) : log[n] = releaseReceipts[n]
      /\ Len(releaseReceipts) \in Nat
      /\ log # <<>>
  OBVIOUS
<1>2. ReceiptLimit \in Nat /\ ReceiptLimit >= 1
  BY ConstantsAssumption
<1>3. releaseReceipts' = IF Len(log) > ReceiptLimit THEN Tail(log) ELSE log
  BY DEF Log, LastReceipts
<1>4. /\ Len(Tail(log)) = Len(log) - 1
      /\ \A n \in 1..(Len(log) - 1) : Tail(log)[n] = log[n + 1]
  BY <1>1
<1> HIDE DEF log, r
<1>5. CASE Len(log) > ReceiptLimit
  <2>1. Len(releaseReceipts) >= 1
    BY <1>1, <1>2, <1>5
  <2>2. Tail(log)[Len(log) - 1] = r
    BY <1>1, <1>4, <2>1
  <2>3. \A n \in 1..(Len(releaseReceipts) - 1) :
           n + 1 \in 1..Len(releaseReceipts)
             /\ Tail(log)[n] = releaseReceipts[n + 1]
    BY <1>1, <1>4
  <2> QED
    BY <1>1, <1>3, <1>4, <1>5, <2>1, <2>2, <2>3 DEF r
<1>6. CASE ~(Len(log) > ReceiptLimit)
  BY <1>1, <1>3, <1>6 DEF r
<1> QED
  BY <1>5, <1>6

\* Every receipt of the log is about an id that is held no more, each about
\* another one, and none about an id that is still to be minted.
ReceiptsGone ==
    /\ ReceiptMeansGone
    /\ \A n \in 1..Len(releaseReceipts) : releaseReceipts[n].id <= minted

RecordInv == RefinementInv /\ IdsApart /\ ReceiptsGone

\* The step logs nothing, or the end of the one holder of an id.
LogsAnEnd ==
    \/ UNCHANGED releaseReceipts
    \/ \E kind, id : /\ [kind |-> kind, id |-> id] \in Receipt
                     /\ Log(kind, id)
                     /\ id \in Held
                     /\ id \notin Held'
                     /\ UNCHANGED minted

LEMMA LogsAnEndKeepsReceipts ==
    ASSUME RecordInv, IdsMove, LogsAnEnd
    PROVE  ReceiptsGone'
<1>1. /\ releaseReceipts \in Seq(Receipt)
      /\ minted \in Nat
      /\ \A id \in Held : id <= minted
      /\ \A n \in 1..Len(releaseReceipts) : releaseReceipts[n].id \in Nat
  <2>1. releaseReceipts \in Seq(Receipt) /\ minted \in Nat
    BY DEF RecordInv, RefinementInv, ExclusionInv, TypeOK
  <2>2. \A id \in Held : id <= minted
    BY DEF RecordInv, IdsApart
  <2>3. \A n \in 1..Len(releaseReceipts) : releaseReceipts[n].id \in Nat
    <3>1. \A n \in 1..Len(releaseReceipts) : releaseReceipts[n] \in Receipt
      BY <2>1
    <3>2. \A x \in Receipt : x.id \in Nat
      BY DEF Receipt, Id
    <3> QED
      BY <3>1, <3>2
  <2> QED
    BY <2>1, <2>2, <2>3
<1>2. /\ minted' = minted \/ minted' = minted + 1
      /\ Held' \subseteq Held \cup {minted + 1}
  BY HeldIds DEF IdsMove
<1>3. \A n \in 1..Len(releaseReceipts) :
         /\ releaseReceipts[n].id \notin Held'
         /\ releaseReceipts[n].id <= minted'
         /\ releaseReceipts[n].id \notin Held
         /\ \A m \in 1..Len(releaseReceipts) :
               m # n => releaseReceipts[m].id # releaseReceipts[n].id
  BY <1>1, <1>2 DEF RecordInv, ReceiptsGone, ReceiptMeansGone
<1>4. CASE UNCHANGED releaseReceipts
  BY <1>3, <1>4 DEF ReceiptsGone, ReceiptMeansGone
<1>5. ASSUME NEW kind, NEW id, [kind |-> kind, id |-> id] \in Receipt,
             Log(kind, id), id \in Held, id \notin Held', UNCHANGED minted
      PROVE  ReceiptsGone'
  <2>1. PICK dropped \in {0, 1} :
              /\ Len(releaseReceipts') = Len(releaseReceipts) + 1 - dropped
              /\ Len(releaseReceipts') >= 1
              /\ releaseReceipts'[Len(releaseReceipts')] =
                    [kind |-> kind, id |-> id]
              /\ \A n \in 1..(Len(releaseReceipts') - 1) :
                    /\ n + dropped \in 1..Len(releaseReceipts)
                    /\ releaseReceipts'[n] = releaseReceipts[n + dropped]
    BY <1>1, <1>5, LogContent
  <2>2. Len(releaseReceipts) \in Nat
    BY <1>1
  <2>3. \A n \in 1..Len(releaseReceipts') :
           \/ n = Len(releaseReceipts') /\ releaseReceipts'[n].id = id
           \/ /\ n \in 1..(Len(releaseReceipts') - 1)
              /\ n + dropped \in 1..Len(releaseReceipts)
              /\ releaseReceipts'[n].id = releaseReceipts[n + dropped].id
    BY <2>1, <2>2
  <2>4. \A n \in 1..Len(releaseReceipts') :
           /\ releaseReceipts'[n].id \notin Held'
           /\ releaseReceipts'[n].id <= minted'
    BY <1>1, <1>3, <1>5, <2>3
  <2>5. \A m, n \in 1..Len(releaseReceipts') :
           m # n => releaseReceipts'[m].id # releaseReceipts'[n].id
    <3> SUFFICES ASSUME NEW m \in 1..Len(releaseReceipts'),
                        NEW n \in 1..Len(releaseReceipts'), m # n
                 PROVE  releaseReceipts'[m].id # releaseReceipts'[n].id
      OBVIOUS
    <3>1. CASE m = Len(releaseReceipts')
      BY <1>3, <1>5, <2>3, <3>1
    <3>2. CASE n = Len(releaseReceipts')
      BY <1>3, <1>5, <2>3, <3>2
    <3>3. CASE m # Len(releaseReceipts') /\ n # Len(releaseReceipts')
      <4>1. m + dropped # n + dropped
        BY <2>1
      <4> QED
        BY <1>3, <2>3, <3>3, <4>1
    <3> QED
      BY <3>1, <3>2, <3>3
  <2> QED
    BY <2>4, <2>5 DEF ReceiptsGone, ReceiptMeansGone
<1> QED
  BY <1>4, <1>5 DEF LogsAnEnd

LEMMA RecordFacts ==
    ASSUME RecordInv
    PROVE  /\ TypeOK
           /\ OneLease /\ DistinctWorkloads /\ DistinctInferences
           /\ WorkloadIds
           /\ Held \subseteq Id
           /\ maintenance # {} => workloads = {} /\ inferences = {}
           /\ \A w \in workloads, i \in inferences : w.id # i.id
<1>1. RefinementInv /\ IdsApart
  BY DEF RecordInv
<1>2. ExclusionInv /\ DistinctEntries
  BY <1>1 DEF RefinementInv
<1>3. TypeOK /\ WorkloadIds /\ MaintenanceExclusion
  BY <1>2 DEF ExclusionInv
<1>4. Held \subseteq Id
  BY <1>3 DEF TypeOK, Held, Lease, Workload, Inference
<1>5. \A w \in workloads, i \in inferences : w.id # i.id
  BY <1>1 DEF IdsApart, ReservedIds, InferenceIds
<1> QED
  BY <1>2, <1>3, <1>4, <1>5 DEF DistinctEntries, MaintenanceExclusion

LEMMA AnyReceipt ==
    ASSUME NEW kind \in {"maintenance", "workload", "inference",
                         "maintenance-recovery"}, NEW id \in Id
    PROVE  [kind |-> kind, id |-> id] \in Receipt
  BY DEF Receipt

\* The lease ends, and nothing else is held beside it.
LEMMA MaintenanceEndIsLogged ==
    ASSUME RecordInv, NEW m \in maintenance, maintenance' = {},
           NEW kind \in {"maintenance", "maintenance-recovery"},
           Log(kind, m.id), UNCHANGED <<workloads, inferences, minted>>
    PROVE  LogsAnEnd
<1>1. Held' = {}
  BY RecordFacts, HeldIds DEF LeaseIds, ReservedIds, InferenceIds
<1>2. m.id \in Held /\ m.id \in Id
  BY RecordFacts DEF Held
<1>3. [kind |-> kind, id |-> m.id] \in Receipt
  BY <1>2, AnyReceipt
<1> QED
  BY <1>1, <1>2, <1>3 DEF LogsAnEnd

LEMMA WorkloadEndIsLogged ==
    ASSUME RecordInv, NEW w \in workloads,
           workloads' \subseteq workloads, w \notin workloads',
           Log("workload", w.id), UNCHANGED <<maintenance, inferences, minted>>
    PROVE  LogsAnEnd
<1>1. w.id \in Held /\ w.id \in Id
  BY RecordFacts DEF Held
<1>2. w.id \notin LeaseIds' /\ w.id \notin InferenceIds'
  BY RecordFacts DEF LeaseIds, InferenceIds
<1>3. w.id \notin ReservedIds'
  BY RecordFacts DEF ReservedIds, DistinctWorkloads
<1>4. [kind |-> "workload", id |-> w.id] \in Receipt
  BY <1>1, AnyReceipt
<1> QED
  BY <1>1, <1>2, <1>3, <1>4, HeldIds DEF LogsAnEnd

LEMMA InferenceEndIsLogged ==
    ASSUME RecordInv, NEW i \in inferences,
           inferences' \subseteq inferences, i \notin inferences',
           Log("inference", i.id), UNCHANGED <<maintenance, workloads, minted>>
    PROVE  LogsAnEnd
<1>1. i.id \in Held /\ i.id \in Id
  BY RecordFacts DEF Held
<1>2. i.id \notin LeaseIds' /\ i.id \notin ReservedIds'
  BY RecordFacts DEF LeaseIds, ReservedIds
<1>3. i.id \notin InferenceIds'
  BY RecordFacts DEF InferenceIds, DistinctInferences
<1>4. [kind |-> "inference", id |-> i.id] \in Receipt
  BY <1>1, AnyReceipt
<1> QED
  BY <1>1, <1>2, <1>3, <1>4, HeldIds DEF LogsAnEnd

LEMMA StepLogsAnEnd ==
    ASSUME RecordInv, [Next]_vars
    PROVE  LogsAnEnd
<1>q. ASSUME UNCHANGED releaseReceipts PROVE LogsAnEnd
  BY <1>q DEF LogsAnEnd
<1>1. ASSUME NEW c \in Client, MaintenanceStep(c)
      PROVE  LogsAnEnd
  <2>1. ASSUME ReleaseMaintenanceCas(c), releaseReceipts' # releaseReceipts
        PROVE  LogsAnEnd
    <3>1. PICK m \in maintenance : ReleasableMaintenance(calls[c], m)
      BY <2>1 DEF ReleaseMaintenanceCas
    <3>2. calls[c].id = m.id
      BY <3>1 DEF ReleasableMaintenance
    <3>3. /\ maintenance' = {}
          /\ Log("maintenance", m.id)
          /\ UNCHANGED <<workloads, inferences, minted>>
      BY <2>1, <3>1, <3>2 DEF ReleaseMaintenanceCas
    <3> QED
      BY <3>3, MaintenanceEndIsLogged
  <2>2. ReleaseMaintenanceCas(c) \/ UNCHANGED releaseReceipts
    BY <1>1
    DEF MaintenanceStep, AcquireMaintenance, AcquireMaintenanceCas,
        HeartbeatMaintenance, HeartbeatMaintenanceCas, ReleaseMaintenance,
        document
  <2> QED
    BY <1>q, <2>1, <2>2
<1>2. ASSUME NEW c \in Client, WorkloadStep(c)
      PROVE  LogsAnEnd
  <2>1. ASSUME ReleaseWorkloadCas(c), releaseReceipts' # releaseReceipts
        PROVE  LogsAnEnd
    <3>1. PICK w \in workloads : ReleasableWorkload(calls[c], w)
      BY <2>1 DEF ReleaseWorkloadCas
    <3>2. calls[c].id = w.id
      BY <3>1 DEF ReleasableWorkload
    <3>3. /\ workloads' = {x \in workloads : x.id # w.id}
          /\ Log("workload", w.id)
          /\ UNCHANGED <<maintenance, inferences, minted>>
      BY <2>1, <3>1, <3>2 DEF ReleaseWorkloadCas
    <3> QED
      BY <3>3, WorkloadEndIsLogged
  <2>2. ReleaseWorkloadCas(c) \/ UNCHANGED releaseReceipts
    BY <1>2
    DEF WorkloadStep, AcquireWorkload, AcquireWorkloadCas, HeartbeatWorkload,
        HeartbeatWorkloadCas, ReleaseWorkload, document
  <2> QED
    BY <1>q, <2>1, <2>2
<1>3. ASSUME NEW c \in Client, RecoveryStep(c)
      PROVE  LogsAnEnd
  <2>1. ASSUME ResolveRecoveryCas(c), releaseReceipts' # releaseReceipts
        PROVE  LogsAnEnd
    <3>1. PICK w \in workloads : ResolveFilter(calls[c], w)
      BY <2>1 DEF ResolveRecoveryCas
    <3>2. calls[c].id = w.id
      BY <3>1 DEF ResolveFilter
    <3>3. /\ workloads' = {x \in workloads : ~ResolveFilter(calls[c], x)}
          /\ Log("workload", w.id)
          /\ UNCHANGED <<maintenance, inferences, minted>>
      BY <2>1, <3>1, <3>2 DEF ResolveRecoveryCas
    <3> QED
      BY <3>1, <3>3, WorkloadEndIsLogged
  <2>2. ResolveRecoveryCas(c) \/ UNCHANGED releaseReceipts
    BY <1>3
    DEF RecoveryStep, AdoptRecovery, AdoptRecoveryCas, HeartbeatRecovery,
        HeartbeatRecoveryCas, TransitionRecovery, TransitionRecoveryCas,
        ResolveRecovery, document
  <2> QED
    BY <1>q, <2>1, <2>2
<1>4. ASSUME NEW c \in Client, InferenceStep(c)
      PROVE  LogsAnEnd
  <2>1. ASSUME ReleaseInferenceCas(c), releaseReceipts' # releaseReceipts
        PROVE  LogsAnEnd
    <3>1. PICK i \in inferences : ReleasableInference(calls[c], i)
      BY <2>1 DEF ReleaseInferenceCas
    <3>2. calls[c].id = i.id /\ i.state = "ACTIVE"
      BY <3>1 DEF ReleasableInference
    <3>3. /\ inferences' = {x \in inferences :
                              ~(x.id = i.id /\ x.state = "ACTIVE")}
          /\ Log("inference", i.id)
          /\ UNCHANGED <<maintenance, workloads, minted>>
      BY <2>1, <3>1, <3>2 DEF ReleaseInferenceCas
    <3> QED
      BY <3>2, <3>3, InferenceEndIsLogged
  <2>2. ReleaseInferenceCas(c) \/ UNCHANGED releaseReceipts
    BY <1>4
    DEF InferenceStep, AcquireInference, AcquireInferenceCas,
        HeartbeatInference, HeartbeatInferenceCas, ReleaseInference, document
  <2> QED
    BY <1>q, <2>1, <2>2
<1>5. ASSUME OperatorStep
      PROVE  LogsAnEnd
  <2>1. ASSUME NEW m \in maintenance, RecoverMaintenance(m)
        PROVE  LogsAnEnd
    BY <2>1, MaintenanceEndIsLogged DEF RecoverMaintenance
  <2>2. (\E m \in maintenance : RecoverMaintenance(m))
          \/ UNCHANGED releaseReceipts
    BY <1>5
    DEF OperatorStep, MarkMaintenanceUnknown, MarkInferenceUnknown,
        RecoverInference, RestartRuntime, document
  <2> QED
    BY <1>q, <2>1, <2>2
<1>6. ASSUME NEW c \in Watchdog, ListActive(c) \/ ReapExpiredCas(c)
      PROVE  LogsAnEnd
  BY <1>6, <1>q DEF ListActive, ReapExpiredCas, document
<1>7. ASSUME NEW c \in Client \cup Watchdog, Lost(c)
      PROVE  LogsAnEnd
  BY <1>7, <1>q DEF Lost, document
<1>8. ASSUME Deadline
      PROVE  LogsAnEnd
  BY <1>8, <1>q DEF Deadline
<1>9. ASSUME UNCHANGED vars
      PROVE  LogsAnEnd
  BY <1>9, <1>q DEF vars
<1> QED
  BY <1>1, <1>2, <1>3, <1>4, <1>5, <1>6, <1>7, <1>8, <1>9 DEF Next

LEMMA RecordInvariant == Spec => []RecordInv
<1>1. ASSUME Init
      PROVE  IdsApart /\ ReceiptsGone
  BY <1>1 DEF Init, IdsApart, ReceiptsGone, ReceiptMeansGone, ReservedIds,
     InferenceIds, Held
<1>2. ASSUME RefinementInv, IdsApart, ReceiptsGone, [Next]_vars
      PROVE  IdsApart' /\ ReceiptsGone'
  <2>1. RecordInv /\ TypeOK
    BY <1>2 DEF RecordInv, RefinementInv, ExclusionInv
  <2>2. IdsMove
    BY <1>2, <2>1, StepMovesIds
  <2> QED
    BY <1>2, <2>1, <2>2, IdsMoveKeepsApart, StepLogsAnEnd,
       LogsAnEndKeepsReceipts
<1> QED
  BY <1>1, <1>2, RefinementInvariant, PTL DEF Spec, RecordInv

\* A receipt of the log is about an admission that is gone, and no admission
\* has two.
THEOREM ReceiptsTellTheTruth == Spec => []ReceiptMeansGone
<1>1. RecordInv => ReceiptMeansGone
  BY DEF RecordInv, ReceiptsGone
<1> QED
  BY <1>1, RecordInvariant, PTL

-----------------------------------------------------------------------------
(* The quarantine.                                                          *)

InferencesStay ==
    \A i \in inferences :
       i.state = "UNKNOWN" =>
          \/ StillQuarantined(i, inferences')
          \/ i.id \in restarted /\ i.id \notin Held'

LeasesStay ==
    \A m \in maintenance :
       m.state = "UNKNOWN" =>
          \/ StillQuarantined(m, maintenance')
          \/ /\ maintenance' = {}
             /\ releaseReceipts' # <<>>
             /\ releaseReceipts'[Len(releaseReceipts')] =
                   [kind |-> "maintenance-recovery", id |-> m.id]

\* The quarantined entries themselves are all there.
LEMMA InferencesThere ==
    ASSUME \A i \in inferences : i.state = "UNKNOWN" => i \in inferences'
    PROVE  InferencesStay
  BY DEF InferencesStay, StillQuarantined

LEMMA LeasesThere ==
    ASSUME \A m \in maintenance : m.state = "UNKNOWN" => m \in maintenance'
    PROVE  LeasesStay
  BY DEF LeasesStay, StillQuarantined

LEMMA ReapKeepsQuarantine ==
    ASSUME NEW lapsed, Reap(lapsed)
    PROVE  InferencesStay /\ LeasesStay
  BY InferencesThere, LeasesThere DEF Reap, ReapedInferences, ReapedMaintenance

LEMMA UnchangedKeepsQuarantine ==
    /\ UNCHANGED inferences => InferencesStay
    /\ UNCHANGED maintenance => LeasesStay
  BY InferencesThere, LeasesThere

LEMMA MaintenanceStepKeepsQuarantine ==
    ASSUME RecordInv, NEW c \in Client, MaintenanceStep(c)
    PROVE  InferencesStay /\ LeasesStay
<1>1. CASE \/ \E r \in Request : AcquireMaintenance(c, r)
           \/ \E m \in maintenance : ReleaseMaintenance(c, m.id)
  BY <1>1, ReapKeepsQuarantine DEF AcquireMaintenance, ReleaseMaintenance
<1>2. CASE \E m \in maintenance : HeartbeatMaintenance(c, m)
  BY <1>2, UnchangedKeepsQuarantine DEF HeartbeatMaintenance, document
<1>3. CASE AcquireMaintenanceCas(c)
  BY <1>3, UnchangedKeepsQuarantine, LeasesThere
  DEF AcquireMaintenanceCas, MaintenanceFilter
<1>4. CASE HeartbeatMaintenanceCas(c)
  BY <1>4, UnchangedKeepsQuarantine, LeasesThere
  DEF HeartbeatMaintenanceCas, RenewableMaintenance
<1>5. CASE ReleaseMaintenanceCas(c)
  BY <1>5, UnchangedKeepsQuarantine, LeasesThere, RecordFacts
  DEF ReleaseMaintenanceCas, ReleasableMaintenance, OneLease
<1> QED
  BY <1>1, <1>2, <1>3, <1>4, <1>5 DEF MaintenanceStep

LEMMA WorkloadStepKeepsQuarantine ==
    ASSUME NEW c \in Client, WorkloadStep(c) \/ RecoveryStep(c)
    PROVE  InferencesStay /\ LeasesStay
<1>1. ASSUME \/ \E r \in Request : AcquireWorkload(c, r)
             \/ \E w \in workloads : ReleaseWorkload(c, w.id)
      PROVE  InferencesStay /\ LeasesStay
  BY <1>1, ReapKeepsQuarantine DEF AcquireWorkload, ReleaseWorkload
<1>2. ASSUME \/ \E hosts \in SUBSET Host : AcquireWorkloadCas(c, hosts)
             \/ \E w \in workloads : HeartbeatWorkload(c, w)
             \/ HeartbeatWorkloadCas(c)
             \/ ReleaseWorkloadCas(c)
      PROVE  UNCHANGED <<maintenance, inferences>>
  BY <1>2 DEF AcquireWorkloadCas, HeartbeatWorkload, HeartbeatWorkloadCas,
     ReleaseWorkloadCas, document
<1>3. ASSUME RecoveryStep(c)
      PROVE  UNCHANGED <<maintenance, inferences>>
  BY <1>3
  DEF RecoveryStep, AdoptRecovery, AdoptRecoveryCas, HeartbeatRecovery,
      HeartbeatRecoveryCas, TransitionRecovery, TransitionRecoveryCas,
      ResolveRecovery, ResolveRecoveryCas, document
<1> QED
  BY <1>1, <1>2, <1>3, UnchangedKeepsQuarantine DEF WorkloadStep

LEMMA InferenceStepKeepsQuarantine ==
    ASSUME NEW c \in Client, InferenceStep(c)
    PROVE  InferencesStay /\ LeasesStay
<1>1. CASE \/ \E r \in Request : AcquireInference(c, r)
           \/ \E i \in inferences : ReleaseInference(c, i.id)
  BY <1>1, ReapKeepsQuarantine DEF AcquireInference, ReleaseInference
<1>2. CASE \E i \in inferences : HeartbeatInference(c, i)
  BY <1>2, UnchangedKeepsQuarantine DEF HeartbeatInference, document
<1>3. ASSUME NEW h \in Host, NEW k \in ResidencyKey, NEW mode \in Mode,
             NEW proof \in {NoProof} \cup Id,
             AcquireInferenceCas(c, h, k, mode, proof)
      PROVE  InferencesStay /\ LeasesStay
  BY <1>3, UnchangedKeepsQuarantine, InferencesThere DEF AcquireInferenceCas
<1>4. CASE HeartbeatInferenceCas(c)
  BY <1>4, UnchangedKeepsQuarantine, InferencesThere
  DEF HeartbeatInferenceCas, RenewableInference
<1>5. CASE ReleaseInferenceCas(c)
  BY <1>5, UnchangedKeepsQuarantine, InferencesThere DEF ReleaseInferenceCas
<1> QED
  BY <1>1, <1>2, <1>3, <1>4, <1>5 DEF InferenceStep

LEMMA OperatorStepKeepsQuarantine ==
    ASSUME RecordInv, OperatorStep
    PROVE  InferencesStay /\ LeasesStay
<1>1. ASSUME NEW m \in maintenance, MarkMaintenanceUnknown(m)
      PROVE  InferencesStay /\ LeasesStay
  BY <1>1, UnchangedKeepsQuarantine, LeasesThere, RecordFacts
  DEF MarkMaintenanceUnknown, OneLease
<1>2. ASSUME NEW m \in maintenance, RecoverMaintenance(m)
      PROVE  InferencesStay /\ LeasesStay
  <2>1. releaseReceipts \in Seq(Receipt) /\ m.id \in Id
    BY RecordFacts DEF TypeOK, Held
  <2>2. [kind |-> "maintenance-recovery", id |-> m.id] \in Receipt
    BY <2>1, AnyReceipt
  <2>3. Log("maintenance-recovery", m.id)
    BY <1>2 DEF RecoverMaintenance
  <2>4. /\ Len(releaseReceipts') >= 1
        /\ releaseReceipts'[Len(releaseReceipts')] =
              [kind |-> "maintenance-recovery", id |-> m.id]
    BY <2>1, <2>2, <2>3, LogContent
  <2>5. releaseReceipts' # <<>>
    BY <2>4
  <2>6. \A n \in maintenance : n = m
    BY RecordFacts DEF OneLease
  <2> QED
    BY <1>2, <2>4, <2>5, <2>6, UnchangedKeepsQuarantine
    DEF RecoverMaintenance, LeasesStay
<1>3. ASSUME NEW i \in inferences, MarkInferenceUnknown(i)
      PROVE  InferencesStay /\ LeasesStay
  BY <1>3, UnchangedKeepsQuarantine, InferencesThere DEF MarkInferenceUnknown
<1>4. ASSUME NEW i \in inferences, RecoverInference(i)
      PROVE  InferencesStay /\ LeasesStay
  <2>1. i.id \in restarted
    BY <1>4 DEF RecoverInference, RecoverableInference
  <2>2. /\ inferences' = inferences \ {i}
        /\ UNCHANGED <<maintenance, workloads>>
    BY <1>4 DEF RecoverInference
  <2>3. i.id \notin LeaseIds' /\ i.id \notin ReservedIds'
    BY <2>2, RecordFacts DEF LeaseIds, ReservedIds
  <2>4. i.id \notin InferenceIds'
    BY <2>2, RecordFacts DEF InferenceIds, DistinctInferences
  <2>5. \A j \in inferences : j = i \/ j \in inferences'
    BY <2>2
  <2> QED
    BY <2>1, <2>2, <2>3, <2>4, <2>5, HeldIds, UnchangedKeepsQuarantine
    DEF InferencesStay, StillQuarantined
<1>5. CASE RestartRuntime
  BY <1>5, UnchangedKeepsQuarantine DEF RestartRuntime, document
<1> QED
  BY <1>1, <1>2, <1>3, <1>4, <1>5 DEF OperatorStep

LEMMA DeadlineKeepsQuarantine ==
    ASSUME RecordInv, Deadline
    PROVE  InferencesStay /\ LeasesStay
<1>1. ASSUME NEW i \in inferences, i.live,
             inferences' = (inferences \ {i}) \cup {[i EXCEPT !.live = FALSE]}
      PROVE  InferencesStay
  <2>1. /\ [i EXCEPT !.live = FALSE].id = i.id
        /\ [i EXCEPT !.live = FALSE].state = i.state
        /\ [i EXCEPT !.live = FALSE].live = FALSE
    BY RecordFacts DEF TypeOK, Inference
  <2> QED
    BY <1>1, <2>1 DEF InferencesStay, StillQuarantined
<1>2. ASSUME NEW m \in maintenance, m.live,
             maintenance' = {[m EXCEPT !.live = FALSE]}
      PROVE  LeasesStay
  <2>1. /\ [m EXCEPT !.live = FALSE].id = m.id
        /\ [m EXCEPT !.live = FALSE].state = m.state
        /\ [m EXCEPT !.live = FALSE].live = FALSE
    BY RecordFacts DEF TypeOK, Lease
  <2>2. \A n \in maintenance : n = m
    BY RecordFacts DEF OneLease
  <2> QED
    BY <1>2, <2>1, <2>2 DEF LeasesStay, StillQuarantined
<1> QED
  BY <1>1, <1>2, UnchangedKeepsQuarantine DEF Deadline

\* A quarantined inference or lease stays until a restart or an operator's
\* reconciliation, whatever the callers do.
THEOREM QuarantineLasts == Spec => QuarantineIsDurable
<1> DEFINE stays == InferencesStay /\ LeasesStay
<1>1. ASSUME RecordInv, [Next]_vars
      PROVE  stays
  <2>1. ASSUME NEW c \in Watchdog, ListActive(c) \/ ReapExpiredCas(c)
        PROVE  stays
    BY <2>1, ReapKeepsQuarantine, UnchangedKeepsQuarantine
    DEF ListActive, ReapExpiredCas, document
  <2>2. ASSUME NEW c \in Client \cup Watchdog, Lost(c)
        PROVE  stays
    BY <2>2, UnchangedKeepsQuarantine DEF Lost, document
  <2>3. CASE UNCHANGED vars
    BY <2>3, UnchangedKeepsQuarantine DEF vars
  <2> QED
    BY <1>1, <2>1, <2>2, <2>3, MaintenanceStepKeepsQuarantine,
       WorkloadStepKeepsQuarantine, InferenceStepKeepsQuarantine,
       OperatorStepKeepsQuarantine, DeadlineKeepsQuarantine
    DEF Next
<1>2. RecordInv /\ [Next]_vars => [stays]_vars
  BY <1>1
<1> QED
  BY <1>2, RecordInvariant, PTL
  DEF Spec, QuarantineIsDurable, InferencesStay, LeasesStay
=============================================================================
