-------------------------- MODULE RuntimeExclusion --------------------------
(***************************************************************************)
(* What the runtime coordination record promises its callers: a lock with  *)
(* three kinds of holders, granted and given up in single steps.           *)
(*                                                                         *)
(*   - maintenance excludes everything;                                    *)
(*   - a workload owns its hosts: on them only the inferences it vouches   *)
(*     for are granted;                                                    *)
(*   - inferences share a host when they agree on what is loaded there.    *)
(*                                                                         *)
(* The outcome of a holder may become unknown.  It then keeps blocking     *)
(* until it ends, and never becomes known again.  RuntimeCoordination      *)
(* implements this module (docs/RUNTIME_COORDINATION_CONTRACT.md:6-8 and   *)
(* the comments at the updates of runtimeCoordinationService.js).          *)
(***************************************************************************)
CONSTANTS Id, NoProof, Host, ResidencyKey, Mode, Principal

VARIABLES
    maintenance, \* {} or the one holder for maintenance
    workloads,   \* holders of whole hosts
    inferences,  \* holders of a share of a host
    granted      \* ids granted so far, never granted again

lockVars == <<maintenance, workloads, inferences, granted>>

Free(id) == id \in Id \ granted

Init ==
    /\ maintenance = {}
    /\ workloads = {}
    /\ inferences = {}
    /\ granted = {}

GrantMaintenance(id) ==
    /\ maintenance = {} /\ workloads = {} /\ inferences = {}
    /\ maintenance' = {[id |-> id, unknown |-> FALSE]}
    /\ UNCHANGED <<workloads, inferences>>

\* A workload that names no host still waits until no inference runs.
GrantWorkload(id, hosts, p) ==
    /\ maintenance = {}
    /\ \A w \in workloads : w.hosts \cap hosts = {}
    /\ \A i \in inferences : hosts # {} /\ i.host \notin hosts
    /\ workloads' = workloads \cup {[id |-> id, hosts |-> hosts,
                                     principal |-> p]}
    /\ UNCHANGED <<maintenance, inferences>>

\* On a reserved host the inference shows the proof of the reservation.
Vouched(h, proof, p) ==
    IF proof = NoProof
    THEN \A w \in workloads : h \notin w.hosts
    ELSE \E w \in workloads :
            w.id = proof /\ w.principal = p /\ h \in w.hosts

Compatible(i, k, mode) ==
    /\ ~i.unknown
    /\ i.mode = "shared" /\ mode = "shared"
    /\ i.key = k

GrantInference(id, h, k, mode, proof, p) ==
    /\ maintenance = {}
    /\ Vouched(h, proof, p)
    /\ \A i \in inferences : i.host = h => Compatible(i, k, mode)
    /\ inferences' = inferences \cup
         {[id |-> id, host |-> h, key |-> k, mode |-> mode, proof |-> proof,
           principal |-> p, unknown |-> FALSE]}
    /\ UNCHANGED <<maintenance, workloads>>

Grant(id) ==
    /\ Free(id)
    /\ granted' = granted \cup {id}
    /\ \/ GrantMaintenance(id)
       \/ \E hosts \in SUBSET Host, p \in Principal :
             GrantWorkload(id, hosts, p)
       \/ \E h \in Host, k \in ResidencyKey, mode \in Mode,
             proof \in Id \cup {NoProof}, p \in Principal :
             GrantInference(id, h, k, mode, proof, p)

\* One holder ends.
End(id) ==
    /\ \/ /\ maintenance' = {m \in maintenance : m.id # id}
          /\ UNCHANGED <<workloads, inferences>>
       \/ /\ workloads' = {w \in workloads : w.id # id}
          /\ UNCHANGED <<maintenance, inferences>>
       \/ /\ inferences' = {i \in inferences : i.id # id}
          /\ UNCHANGED <<maintenance, workloads>>
    /\ UNCHANGED granted

\* The outcomes of the holders in `lost` become unknown.
LoseTrack(lost) ==
    /\ maintenance' = {[m EXCEPT !.unknown = @ \/ m.id \in lost] :
                         m \in maintenance}
    /\ inferences' = {[i EXCEPT !.unknown = @ \/ i.id \in lost] :
                         i \in inferences}
    /\ UNCHANGED <<workloads, granted>>

Next == \/ \E id \in Id : Grant(id) \/ End(id)
        \/ \E lost \in SUBSET Id : LoseTrack(lost)

Spec == Init /\ [][Next]_lockVars

-----------------------------------------------------------------------------
\* What a holder may rely on: maintenance is alone, a host has one workload,
\* every inference on it is one the workload vouches for, and inferences that
\* share a host agree on what is loaded there.  A lost outcome frees nothing.
Excludes ==
    /\ maintenance # {} => workloads = {} /\ inferences = {}
    /\ \A v, w \in workloads : v # w => v.hosts \cap w.hosts = {}
    /\ \A w \in workloads, i \in inferences :
          i.host \in w.hosts => i.proof = w.id /\ i.principal = w.principal
    /\ \A i, j \in inferences :
          i # j /\ i.host = j.host
             => i.mode = "shared" /\ j.mode = "shared" /\ i.key = j.key
=============================================================================
