----------------------------- MODULE HostClaims -----------------------------
(* The document HostPreference of one model host, and everybody who writes   *)
(* it: benchmark batches that claim the host and give it back, the reaper    *)
(* and the workload recovery that give it back for them, interactive         *)
(* sessions that hold it, and the pin reconciler of the health daemon.       *)
(* Sources: core/src/services/benchmarkClaimService.js,                      *)
(* hostSessionHoldService.js, pinReconciler.js, hostPreferenceService.js and *)
(* the claim calls of benchmark/src/clients/coreApiClient.js.                *)
(*                                                                           *)
(* A call reads the document and later changes it with a conditional update; *)
(* each half is a step of its own wherever the filter of the update does not *)
(* repeat what was read. Time is the lapse of a heartbeat or of a hold. A    *)
(* batch stands for one claim generation. The host has one pinned model.     *)
EXTENDS Naturals, FiniteSets

CONSTANTS Batches,     \* claim generations
          Releasers,   \* release calls of Core; also their finalize tokens
          Sessions,    \* owners of session holds
          None

VARIABLES status,      \* HostPreference.status
          claim,       \* HostPreference.benchmarkClaim
          sessionHold, \* HostPreference.sessionHold
          receipt,     \* the claim lastBenchmarkReleaseReceipt names
          admission,   \* the workload admission of each batch
          client,      \* the Benchmark side of each batch
          call,        \* claimBenchmark calls in Core
          rel,         \* releaseBenchmarkClaim calls in Core
          tick,        \* the reconciler's pass over this host
          overwritten  \* history: a pass has changed the status of the claimed host

vars == <<status, claim, sessionHold, receipt, admission, client, call, rel, tick, overwritten>>

Statuses == {"idle", "ready", "offline", "restoring", "benchmarking"}
Neutral == {"idle", "ready", "offline"}
Claims == [batch : Batches, prevStatus : Statuses, exact : BOOLEAN,
           token : Releasers \cup {None}, stale : BOOLEAN]

ASSUME HostClaimsAssumption == None \notin Batches \cup Releasers \cup Claims

ClientStates == {"idle", "claiming", "holding", "cleaning", "releasing", "asking",
                 "done", "gone"}
Holds == [owner : Sessions, live : BOOLEAN]
Calls == [phase : {"none", "asserted", "read", "capture"},
          status : Statuses, batch : Batches \cup {None}]
Releases == [phase : {"idle", "read", "fenced", "mutating"},
             mode : {"owner", "unheard", "reaper", "recovery"},
             batch : Batches \cup {None}, seen : Releasers \cup {None}]
Ticks == [phase : {"idle", "boot", "snap", "pins", "op", "write", "warm"},
          owned : BOOLEAN, ready : BOOLEAN,
          hold : {"none", "live", "other", "touched", "lapsed"}]

NoCall == [phase |-> "none", status |-> "idle", batch |-> None]
NoRelease == [phase |-> "idle", mode |-> "owner", batch |-> None, seen |-> None]
NoTick == [phase |-> "idle", owned |-> FALSE, ready |-> FALSE,
           hold |-> "none"]

TypeOK ==
    /\ status \in Statuses
    /\ claim \in Claims \cup {None}
    /\ sessionHold \in Holds \cup {None}
    /\ receipt \in Batches \cup {None}
    /\ admission \in [Batches -> {"none", "active", "quarantined", "ended"}]
    /\ client \in [Batches -> ClientStates]
    /\ call \in [Batches -> Calls]
    /\ rel \in [Releasers -> Releases]
    /\ tick \in Ticks
    /\ overwritten \in BOOLEAN

Init ==
    /\ status = "idle" /\ claim = None /\ sessionHold = None /\ receipt = None
    /\ admission = [b \in Batches |-> "none"]
    /\ client = [b \in Batches |-> "idle"]
    /\ call = [b \in Batches |-> NoCall]
    /\ rel = [r \in Releasers |-> NoRelease]
    /\ tick = NoTick
    /\ overwritten = FALSE

-----------------------------------------------------------------------------
(* What the filters and checks of the code ask of the document.              *)

\* activeSessionHold
HoldLive == sessionHold # None /\ sessionHold.live

ClaimBatch == IF claim = None THEN None ELSE claim.batch
ClaimToken == IF claim = None THEN None ELSE claim.token

\* hasActiveBenchmarkClaim
HasActiveClaim == status = "benchmarking" \/ claim # None

\* The filter of every fenced update: the claim of this batch, on a host that
\* is still marked as benchmarking.
ClaimOf(b) == status = "benchmarking" /\ ClaimBatch = b

Outstanding == \E b \in Batches : admission[b] \in {"active", "quarantined"}
Restoring == tick.phase \in {"op", "write", "warm"}

\* The batch hears an answer only while it waits for that call.
Hears(b, waiting, answer) == client' = [client EXCEPT ![b] = IF @ \in waiting THEN answer ELSE @]

-----------------------------------------------------------------------------
(* The workload admission, as RuntimeCoordination grants it: one workload on *)
(* a host at a time, and none beside the reconciler's exclusive inference.   *)

Admit(b) ==
    /\ admission[b] = "none" /\ client[b] = "idle"
    /\ ~Outstanding /\ ~Restoring
    /\ admission' = [admission EXCEPT ![b] = "active"]
    /\ UNCHANGED <<status, claim, sessionHold, receipt, client, call, rel, tick, overwritten>>

\* reapExpired finds the heartbeat of the workload expired.
AdmissionLapses(b) ==
    /\ admission[b] = "active"
    /\ admission' = [admission EXCEPT ![b] = "quarantined"]
    /\ UNCHANGED <<status, claim, sessionHold, receipt, client, call, rel, tick, overwritten>>

\* A batch releases its admission once its claim was refused or released.
EndAdmission(b) ==
    /\ admission[b] = "active" /\ client[b] = "done"
    /\ admission' = [admission EXCEPT ![b] = "ended"]
    /\ UNCHANGED <<status, claim, sessionHold, receipt, client, call, rel, tick, overwritten>>

\* restoreClaimsForWorkloadRecovery finds no claim of the workload (any more);
\* the recovery owner goes on to RESTORED and releases the quarantine.
RecoveryEnds(b) ==
    /\ admission[b] = "quarantined" /\ ClaimBatch # b
    /\ admission' = [admission EXCEPT ![b] = "ended"]
    /\ UNCHANGED <<status, claim, sessionHold, receipt, client, call, rel, tick, overwritten>>

-----------------------------------------------------------------------------
(* claimBenchmark: the route asserts the admission, the service reads,       *)
(* claims with a compare-and-set, captures the runtime and attaches it.      *)

ClaimAssert(b) ==
    /\ client[b] = "idle" /\ admission[b] = "active"
    /\ client' = [client EXCEPT ![b] = "claiming"]
    /\ call' = [call EXCEPT ![b] = [NoCall EXCEPT !.phase = "asserted"]]
    /\ UNCHANGED <<status, claim, sessionHold, receipt, admission, rel, tick, overwritten>>

EndCall(b, answer) ==
    /\ call' = [call EXCEPT ![b] = NoCall]
    /\ Hears(b, {"claiming"}, answer)

ClaimRead(b) ==
    /\ call[b].phase = "asserted"
    /\ \/ /\ HoldLive \/ status \in {"restoring", "benchmarking"}
          /\ EndCall(b, "done")
       \/ /\ ~HoldLive /\ status \in Neutral
          /\ call' = [call EXCEPT ![b] = [phase |-> "read", status |-> status, batch |-> ClaimBatch]]
          /\ UNCHANGED client
    /\ UNCHANGED <<status, claim, sessionHold, receipt, admission, rel, tick, overwritten>>

\* As if the claim were written on the strength of the read alone.
ClaimUnchecked(b) ==
    /\ call[b].phase = "read"
    /\ status' = "benchmarking"
    /\ claim' = [batch |-> b, prevStatus |-> status, exact |-> FALSE,
                 token |-> None, stale |-> FALSE]
    /\ call' = [call EXCEPT ![b] = [NoCall EXCEPT !.phase = "capture"]]
    /\ UNCHANGED <<sessionHold, receipt, admission, client, rel, tick, overwritten>>

ClaimCas(b) ==
    /\ call[b].phase = "read"
    /\ \/ /\ status = call[b].status /\ ClaimBatch = call[b].batch
          /\ status' = "benchmarking"
          /\ claim' = [batch |-> b, prevStatus |-> status, exact |-> FALSE,
                       token |-> None, stale |-> FALSE]
          /\ call' = [call EXCEPT ![b] = [NoCall EXCEPT !.phase = "capture"]]
          /\ UNCHANGED client
       \/ /\ status # call[b].status \/ ClaimBatch # call[b].batch
          /\ EndCall(b, "done")
          /\ UNCHANGED <<status, claim>>
    /\ UNCHANGED <<sessionHold, receipt, admission, rel, tick, overwritten>>

\* captureBenchmarkRuntime answers and the snapshot is bound to the claim, if
\* the claim still stands.
AttachSnapshot(b) ==
    /\ call[b].phase = "capture"
    /\ \/ /\ ClaimOf(b)
          /\ claim' = [claim EXCEPT !.exact = TRUE]
          /\ EndCall(b, "holding")
       \/ /\ ~ClaimOf(b)
          /\ EndCall(b, "done")
          /\ UNCHANGED claim
    /\ UNCHANGED <<status, sessionHold, receipt, admission, rel, tick, overwritten>>

Clears == status' = claim.prevStatus /\ claim' = None

CaptureFails(b) ==
    /\ call[b].phase = "capture"
    /\ IF ClaimOf(b) THEN Clears ELSE UNCHANGED <<status, claim>>
    /\ EndCall(b, "done")
    /\ UNCHANGED <<sessionHold, receipt, admission, rel, tick, overwritten>>

\* heartbeatBenchmarkClaim, and claimBenchmark called again by the owner: both
\* refresh the heartbeat of a claim that nobody is finalizing.
Heartbeat(b) ==
    /\ client[b] \in {"holding", "cleaning", "releasing"} /\ admission[b] = "active"
    /\ ClaimOf(b) /\ claim.token = None
    /\ claim' = [claim EXCEPT !.stale = FALSE]
    /\ UNCHANGED <<status, sessionHold, receipt, admission, client, call, rel, tick, overwritten>>

HeartbeatLapses ==
    /\ claim # None /\ ~claim.stale
    /\ claim' = [claim EXCEPT !.stale = TRUE]
    /\ UNCHANGED <<status, sessionHold, receipt, admission, client, call, rel, tick, overwritten>>

-----------------------------------------------------------------------------
(* The Benchmark side: claimHostForBenchmark and releaseBenchmarkClaim of    *)
(* coreApiClient.js.                                                         *)

Becomes(b, from, to) ==
    /\ client[b] \in from
    /\ client' = [client EXCEPT ![b] = to]
    /\ UNCHANGED <<status, claim, sessionHold, receipt, admission, call, tick, overwritten>>

BatchEnds(b) == Becomes(b, {"holding"}, "cleaning") /\ UNCHANGED rel

\* An answer that never arrives may stand for a claim that was made: it is
\* cleaned up. A batch that dies, or keeps its admission because the cleanup
\* was not verified, only stops.
LosesClaimAnswer(b) == Becomes(b, {"claiming"}, "cleaning") /\ UNCHANGED rel
Dies(b) == Becomes(b, ClientStates \ {"idle", "done", "gone"}, "gone") /\ UNCHANGED rel

LosesReleaseAnswer(b) ==
    /\ Becomes(b, {"releasing"}, "asking")
    /\ rel' = [r \in Releasers |-> IF rel[r].mode = "owner" /\ rel[r].batch = b
                                   THEN [rel[r] EXCEPT !.mode = "unheard"] ELSE rel[r]]

\* As if a claim that is being finalized counted as released.
AsksForReceiptOptimist(b) ==
    /\ \/ /\ admission[b] = "active" /\ (receipt = b \/ ClaimToken # None)
          /\ Becomes(b, {"asking"}, "done")
       \/ /\ admission[b] = "active" /\ receipt # b /\ ClaimBatch = b /\ ClaimToken = None
          /\ Becomes(b, {"asking"}, "cleaning")
       \/ /\ admission[b] # "active" \/ (receipt # b /\ ClaimBatch # b)
          /\ Becomes(b, {"asking"}, "gone")
    /\ UNCHANGED rel

\* recoverBenchmarkClaimRelease: the receipt, a claim to release again, or
\* neither.
AsksForReceipt(b) ==
    /\ \/ /\ admission[b] = "active" /\ receipt = b
          /\ Becomes(b, {"asking"}, "done")
       \/ /\ admission[b] = "active" /\ receipt # b /\ ClaimBatch = b /\ ClaimToken = None
          /\ Becomes(b, {"asking"}, "cleaning")
       \/ /\ admission[b] # "active" \/ (receipt # b /\ (ClaimBatch # b \/ ClaimToken # None))
          /\ Becomes(b, {"asking"}, "gone")
    /\ UNCHANGED rel

-----------------------------------------------------------------------------
(* releaseBenchmarkClaim, for the owner, the reaper or the recovery: read,   *)
(* take the finalize token, restore the runtime under it, clear the claim.   *)

\* A token is a fresh UUID: no document and no other call knows it.
Fresh(r) ==
    /\ rel[r].phase = "idle" /\ ClaimToken # r
    /\ \A q \in Releasers : rel[q].seen # r

Start(r, mode, b, seen) ==
    rel' = [rel EXCEPT ![r] = [phase |-> "read", mode |-> mode, batch |-> b,
                               seen |-> seen]]

\* As if a retry of the owner could take over the token it read.
OwnerReleaseTakingOver(r, b) ==
    /\ Fresh(r) /\ client[b] = "cleaning"
    /\ admission[b] = "active" /\ ClaimBatch = b
    /\ Start(r, "owner", b, claim.token)
    /\ client' = [client EXCEPT ![b] = "releasing"]
    /\ UNCHANGED <<status, claim, sessionHold, receipt, admission, call, tick, overwritten>>

\* The owner's call is refused at once unless its claim is in the document.
OwnerRelease(r, b) ==
    /\ Fresh(r) /\ client[b] = "cleaning"
    /\ \/ /\ admission[b] = "active" /\ ClaimBatch = b
          /\ Start(r, "owner", b, None)
          /\ client' = [client EXCEPT ![b] = "releasing"]
       \/ /\ admission[b] # "active" \/ ClaimBatch # b
          /\ client' = [client EXCEPT ![b] = "gone"]
          /\ UNCHANGED rel
    /\ UNCHANGED <<status, claim, sessionHold, receipt, admission, call, tick, overwritten>>

\* As if the reaper did not ask whether the workload is still recorded.
ReapRecorded(r) ==
    /\ Fresh(r)
    /\ status = "benchmarking" /\ claim # None /\ claim.stale
    /\ Start(r, "reaper", claim.batch, None)
    /\ UNCHANGED <<status, claim, sessionHold, receipt, admission, client, call, tick, overwritten>>

\* As if a claim could go stale only without a snapshot.
ReapUnsnapshotted(r) ==
    /\ Fresh(r)
    /\ status = "benchmarking" /\ claim # None
    /\ claim.stale /\ ~claim.exact /\ admission[claim.batch] = "ended"
    /\ Start(r, "reaper", claim.batch, None)
    /\ UNCHANGED <<status, claim, sessionHold, receipt, admission, client, call, tick, overwritten>>

\* reapStaleBenchmarkClaims: scans hosts marked benchmarking, leaves every
\* claim whose workload is still recorded, and takes the stale ones.
Reap(r) ==
    /\ Fresh(r)
    /\ status = "benchmarking" /\ claim # None
    /\ claim.stale /\ admission[claim.batch] = "ended"
    /\ Start(r, "reaper", claim.batch, None)
    /\ UNCHANGED <<status, claim, sessionHold, receipt, admission, client, call, tick, overwritten>>

\* restoreClaimsForWorkloadRecovery: the adopted owner of the quarantine may
\* replace the token of a finalizer that never finished.
RecoveryRelease(r, b) ==
    /\ Fresh(r) /\ admission[b] = "quarantined" /\ ClaimBatch = b
    /\ Start(r, "recovery", b, claim.token)
    /\ UNCHANGED <<status, claim, sessionHold, receipt, admission, client, call, tick, overwritten>>

EndRelease(r, answer) ==
    /\ rel' = [rel EXCEPT ![r] = NoRelease]
    /\ IF rel[r].mode = "owner" THEN Hears(rel[r].batch, {"releasing"}, answer)
                                ELSE UNCHANGED client

\* As if the update did not compare the token.
TakesAnyToken(r) == ClaimOf(rel[r].batch) /\ claim.exact

\* The wait for an exact snapshot and the update that takes the token.
Takes(r) ==
    /\ ClaimOf(rel[r].batch) /\ claim.exact
    /\ claim.token = rel[r].seen

TakeToken(r) ==
    /\ rel[r].phase = "read" /\ Takes(r)
    /\ claim' = [claim EXCEPT !.token = r, !.stale = FALSE]
    /\ rel' = [rel EXCEPT ![r].phase = "fenced", ![r].seen = None]
    /\ UNCHANGED <<status, sessionHold, receipt, admission, client, call, tick, overwritten>>

TokenRefused(r) ==
    /\ rel[r].phase = "read" /\ ~Takes(r)
    /\ EndRelease(r, "gone")
    /\ UNCHANGED <<status, claim, sessionHold, receipt, admission, call, tick, overwritten>>

Fenced(r) == ClaimOf(rel[r].batch) /\ claim.token = r

\* startFinalizeFenceHeartbeat keeps the claim of a running finalizer fresh.
RenewToken(r) ==
    /\ rel[r].phase \in {"fenced", "mutating"} /\ Fenced(r) /\ claim.stale
    /\ claim' = [claim EXCEPT !.stale = FALSE]
    /\ UNCHANGED <<status, sessionHold, receipt, admission, client, call, rel, tick, overwritten>>

\* restoreBenchmarkRuntime: assertFence before each unload or load, and before
\* the update that records the result.
AssertFence(r) ==
    /\ rel[r].phase = "fenced"
    /\ \/ Fenced(r) /\ rel' = [rel EXCEPT ![r].phase = "mutating"] /\ UNCHANGED client
       \/ ~Fenced(r) /\ EndRelease(r, "gone")
    /\ UNCHANGED <<status, claim, sessionHold, receipt, admission, call, tick, overwritten>>

\* The unload or load ends and there is more to do, or the restore failed and
\* the token stays behind.
Mutated(r) ==
    /\ rel[r].phase = "mutating"
    /\ \/ rel' = [rel EXCEPT ![r].phase = "fenced"] /\ UNCHANGED client
       \/ EndRelease(r, "gone")
    /\ UNCHANGED <<status, claim, sessionHold, receipt, admission, call, tick, overwritten>>

\* The runtime is verified, recorded under the token, and the claim cleared
\* under it: losing the token before either update ends the release.
ClearClaim(r) ==
    /\ rel[r].phase = "mutating"
    /\ \/ /\ Fenced(r)
          /\ Clears
          /\ receipt' = rel[r].batch
          /\ EndRelease(r, "done")
       \/ /\ ~Fenced(r)
          /\ EndRelease(r, "gone")
          /\ UNCHANGED <<status, claim, receipt>>
    /\ UNCHANGED <<sessionHold, admission, call, tick, overwritten>>

-----------------------------------------------------------------------------
(* hostSessionHoldService: an interactive session holds the host. Each       *)
(* operation is one conditional update whose filter repeats its checks.      *)

\* The pass over the host keeps a copy of the hold it read, which then differs
\* from the document: "touched" is a copy of a hold that was extended since,
\* "other" a copy of a live hold that is gone or has been replaced.
CopyHold(to) == tick' = [tick EXCEPT !.hold = to[@]]
CopyLosesHold == CopyHold([none |-> "none", live |-> "other", touched |-> "other",
                           other |-> "other", lapsed |-> "none"])
CopyFallsBehind == tick' = IF tick.hold = "live" THEN [tick EXCEPT !.hold = "touched"] ELSE tick

HoldUnchanged == UNCHANGED <<status, claim, receipt, admission, client, call, rel, overwritten>>

AcquireSessionHold(s) ==
    /\ HoldLive => sessionHold.owner = s
    /\ ~HasActiveClaim
    /\ sessionHold' = [owner |-> s, live |-> TRUE]
    /\ \/ CopyLosesHold                  \* a new hold
       \/ HoldLive /\ CopyFallsBehind    \* the same model again
    /\ HoldUnchanged

TouchSessionHold(s) ==
    /\ HoldLive /\ sessionHold.owner = s
    /\ CopyFallsBehind
    /\ HoldUnchanged /\ UNCHANGED sessionHold

ReleaseSessionHold(s) ==
    /\ sessionHold # None /\ sessionHold.owner = s
    /\ sessionHold' = None
    /\ CopyLosesHold
    /\ HoldUnchanged

\* expiresAt passes; a copy of this hold expires no later.
SessionHoldLapses ==
    /\ HoldLive
    /\ sessionHold' = [sessionHold EXCEPT !.live = FALSE]
    /\ tick' = IF tick.hold \in {"live", "touched"} THEN [tick EXCEPT !.hold = "lapsed"] ELSE tick
    /\ HoldUnchanged

\* The expiresAt of a copy passes while the hold itself was extended or has
\* been replaced.
CopyLapses ==
    /\ tick.hold \in {"touched", "other"}
    /\ tick' = [tick EXCEPT !.hold = IF @ = "touched" THEN "lapsed" ELSE "none"]
    /\ HoldUnchanged /\ UNCHANGED sessionHold

-----------------------------------------------------------------------------
(* checkAndReloadDefaults for this host: a snapshot of the preferences, the  *)
(* models the host runs, then the decisions on the snapshot.                 *)

\* A pass writes the status without a filter, whoever has claimed the host
\* since its snapshot.
TickUnchanged ==
    /\ UNCHANGED <<claim, receipt, admission, client, call, rel>>
    /\ overwritten' = (overwritten \/ (claim # None /\ status' # status))

\* What remains of a copy once the pass has no more use for it.
GoesTo(phase) == [NoTick EXCEPT !.phase = phase]

TickSnapshot ==
    /\ tick.phase = "idle"
    /\ tick' = IF HasActiveClaim \/ status = "restoring"
               THEN [NoTick EXCEPT !.phase = "snap", !.owned = TRUE]
               ELSE [NoTick EXCEPT !.phase = "snap", !.ready = (status = "ready"),
                                   !.hold = IF sessionHold = None THEN "none"
                                            ELSE IF sessionHold.live THEN "live" ELSE "lapsed"]
    /\ UNCHANGED <<status, sessionHold>> /\ TickUnchanged

\* /api/ps answers with an error.
TickHostDown ==
    /\ tick.phase = "snap"
    /\ status' = "offline"
    /\ tick' = NoTick
    /\ UNCHANGED sessionHold /\ TickUnchanged

Unowned == ~tick.owned /\ tick.hold \in {"none", "lapsed"}

\* A failed pass undoes only the mark of a restore.
RestoreEnds == status' = IF status = "restoring" THEN "idle" ELSE status

\* /api/ps does not answer, or somebody owns the host.
TickSkips ==
    /\ tick.phase = "snap"
    /\ \/ ~Unowned /\ UNCHANGED status
       \/ RestoreEnds
    /\ tick' = NoTick
    /\ UNCHANGED sessionHold /\ TickUnchanged

\* expireStaleSessionHold clears the hold by its id and rereads the document.
TickExpiresHold ==
    /\ tick.phase = "snap" /\ Unowned
    /\ IF tick.hold = "lapsed"
       THEN /\ sessionHold' = None
            /\ tick' = [GoesTo("pins") EXCEPT !.ready = (status = "ready")]
       ELSE /\ tick' = [GoesTo("pins") EXCEPT !.ready = tick.ready]
            /\ UNCHANGED sessionHold
    /\ UNCHANGED status /\ TickUnchanged

TickMarksReady ==
    /\ tick.phase = "pins"
    /\ status' = IF tick.ready THEN status ELSE "ready"
    /\ tick' = NoTick
    /\ UNCHANGED sessionHold /\ TickUnchanged

\* The pin is displaced: its grace lasts, a local inference runs, or it is
\* over. runHostModelOperation then needs an exclusive inference admission,
\* which a recorded workload vetoes.
TickDefers ==
    /\ tick.phase = "pins"
    /\ tick' = NoTick
    /\ UNCHANGED <<status, sessionHold>> /\ TickUnchanged

TickBeginsRestore ==
    /\ tick.phase \in {"pins", "boot"} /\ ~Outstanding
    /\ tick' = GoesTo("op")
    /\ UNCHANGED <<status, sessionHold>> /\ TickUnchanged

TickVetoed ==
    /\ tick.phase \in {"pins", "boot"} /\ Outstanding
    /\ RestoreEnds /\ tick' = NoTick
    /\ UNCHANGED sessionHold /\ TickUnchanged

\* The reread inside the operation.
TickRechecks ==
    /\ tick.phase = "op"
    /\ tick' = IF HoldLive \/ HasActiveClaim THEN NoTick ELSE GoesTo("write")
    /\ UNCHANGED <<status, sessionHold>> /\ TickUnchanged

TickMarksRestoring ==
    /\ tick.phase = "write"
    /\ status' = "restoring" /\ tick' = GoesTo("warm")
    /\ UNCHANGED sessionHold /\ TickUnchanged

\* warmDefaultModel, then updateLoadedModel; a failure only undoes the mark.
TickWarms ==
    /\ tick.phase = "warm"
    /\ status' = "ready" \/ RestoreEnds
    /\ tick' = NoTick
    /\ UNCHANGED sessionHold /\ TickUnchanged

\* Core stops: its calls end where they are. When it starts it warms the pins
\* before the first pass.
CoreRestarts ==
    /\ call' = [b \in Batches |-> NoCall]
    /\ rel' = [r \in Releasers |-> NoRelease]
    /\ tick' = GoesTo("boot")
    /\ UNCHANGED <<status, claim, sessionHold, receipt, admission, client, overwritten>>

-----------------------------------------------------------------------------
Batch(b) ==
    \/ Admit(b) \/ AdmissionLapses(b) \/ EndAdmission(b) \/ RecoveryEnds(b)
    \/ ClaimAssert(b) \/ ClaimRead(b) \/ ClaimCas(b) \/ AttachSnapshot(b) \/ CaptureFails(b)
    \/ Heartbeat(b) \/ BatchEnds(b) \/ LosesClaimAnswer(b) \/ Dies(b)
    \/ LosesReleaseAnswer(b) \/ AsksForReceipt(b)

Release(r) ==
    \/ \E b \in Batches : OwnerRelease(r, b) \/ RecoveryRelease(r, b)
    \/ Reap(r) \/ TakeToken(r) \/ TokenRefused(r) \/ RenewToken(r)
    \/ AssertFence(r) \/ Mutated(r) \/ ClearClaim(r)

Session(s) == AcquireSessionHold(s) \/ TouchSessionHold(s) \/ ReleaseSessionHold(s)

Reconciler ==
    \/ CopyLapses \/ TickSnapshot \/ TickHostDown \/ TickSkips \/ TickExpiresHold
    \/ TickMarksReady \/ TickDefers \/ TickBeginsRestore \/ TickVetoed
    \/ TickRechecks \/ TickMarksRestoring \/ TickWarms

Next ==
    \/ \E b \in Batches : Batch(b)
    \/ \E r \in Releasers : Release(r)
    \/ \E s \in Sessions : Session(s)
    \/ Reconciler
    \/ SessionHoldLapses \/ HeartbeatLapses \/ CoreRestarts

Spec == Init /\ [][Next]_vars

\* The reaper runs every few minutes and its release call takes its steps;
\* a heartbeat nobody renews grows old.
Fairness ==
    /\ WF_vars(HeartbeatLapses)
    /\ WF_vars(\E r \in Releasers : Reap(r))
    /\ \A r \in Releasers : WF_vars(TakeToken(r) \/ TokenRefused(r) \/ AssertFence(r)
                                    \/ Mutated(r) \/ ClearClaim(r))

FairSpec == Spec /\ Fairness

-----------------------------------------------------------------------------
(* Properties.                                                               *)

\* A batch that was told it holds the host, and whose admission is alive, has
\* the claim, with the exact snapshot it will be given back from: no release,
\* reaping or recovery meant for another claim and no late claim of another
\* batch takes it away, as long as no pass of the reconciler has overwritten
\* the status of the claimed host.
HolderHasClaim ==
    \A b \in Batches :
        client[b] = "holding" /\ admission[b] = "active" /\ ~overwritten
        => ClaimBatch = b /\ claim.exact

\* The claim of a batch whose admission is alive ends only by the batch's own
\* release, or because its own call could not capture the runtime.
LiveClaimKept ==
    [][ \A b \in Batches :
          /\ ClaimBatch = b /\ admission[b] = "active" /\ ~overwritten
          /\ claim' = None \/ claim'.batch # b
          => \/ call[b].phase = "capture"
             \/ \E r \in Releasers : /\ claim.token = r /\ rel[r].batch = b
                                     /\ rel[r].mode \in {"owner", "unheard"} ]_vars

\* Two releases of one claim change the models of its host at the same time
\* only when one of them is the recovery that took the token over.
FinalizersTakeTurns ==
    \A r, q \in Releasers :
        /\ r # q /\ rel[r].batch = rel[q].batch /\ ~overwritten
        /\ rel[r].phase = "mutating" /\ rel[q].phase = "mutating"
        => "recovery" \in {rel[r].mode, rel[q].mode}

\* The token a finalizer left behind is replaced by nobody but the recovery of
\* that workload: neither the reaper nor a retry of the owner races an
\* ambiguous restore.
TokenKeptForRecovery ==
    [][ /\ claim # None /\ claim.token # None /\ rel[claim.token].phase = "idle"
        /\ ~overwritten
        => /\ ClaimBatch' = ClaimBatch
           /\ \/ claim'.token = claim.token
              \/ rel[claim'.token].mode = "recovery" ]_vars

\* A batch that was told its claim is refused or released, and so lets its
\* admission go, has no claim in the document: neither a lost answer nor a
\* receipt leaves a host claimed for a workload that is over.
AdmissionOutlivesClaim ==
    \A b \in Batches : client[b] = "done" /\ ~overwritten => ClaimBatch # b

\* The exact claim of a workload that is over, which nobody finalizes yet.
Abandoned(b) ==
    ClaimBatch = b /\ claim.exact /\ claim.token = None /\ admission[b] = "ended"

\* Such a claim, on a host marked as benchmarking, only grows older: no late
\* heartbeat of its batch makes it young again, no failed capture clears it
\* without a restore and no other batch replaces it, until a finalizer puts
\* its token on it. So the reaper finds it, however late it looks.
AbandonedOnlyAges ==
    [][ \A b \in Batches :
          Abandoned(b) /\ status = "benchmarking"
          => /\ ClaimBatch' = b /\ claim'.exact /\ admission'[b] = "ended"
             /\ claim.stale => claim'.stale \/ claim'.token # None ]_vars

\* An exact claim whose workload is over, on a host still marked as
\* benchmarking, is eventually taken by a finalizer, unless Core keeps
\* restarting.
AbandonedIsReaped ==
    \/ []<><<CoreRestarts>>_vars
    \/ (/\ claim # None /\ status = "benchmarking"
        /\ claim.exact /\ claim.token = None /\ admission[claim.batch] = "ended")
       ~> (claim = None \/ status # "benchmarking" \/ ClaimToken # None)

-----------------------------------------------------------------------------
(* What the repository says and TLC refutes.                                 *)

\* benchmarkClaimGuard.js:62 says a session hold cannot coexist with a claim,
\* each acquisition refusing the other.
HoldsAndClaimsExclude == ~(HoldLive /\ claim # None)

\* pinReconciler.js:14 says a pass respects active benchmark claims.
ReconcilerRespectsClaims ==
    [][ status = "benchmarking" /\ claim # None /\ claim' = claim => status' = "benchmarking" ]_vars

\* hostSessionHoldService.js:486 says the reconciler clears a hold that is no
\* longer active.
LiveHoldKept == [][ HoldLive /\ Reconciler => sessionHold' = sessionHold ]_vars

\* HostPreference.js:126 says two release paths cannot mutate a host at once.
SingleFinalizer ==
    \A r, q \in Releasers : rel[r].phase = "mutating" /\ rel[q].phase = "mutating" => r = q
=============================================================================
