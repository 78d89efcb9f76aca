-------------------------- MODULE HostClaimsProofs --------------------------
(* Theorems of HostClaims: types, the properties of claims that the runs     *)
(* check, and what becomes of a claim nobody renews, for any numbers of      *)
(* batches, releases and session holds.                                      *)
EXTENDS HostClaims, TLAPS

\* The claim has the exact snapshot of the runtime.
ClaimExact == claim # None /\ claim.exact

-----------------------------------------------------------------------------
(* Types.                                                                    *)

LEMMA RecordsTyped ==
    /\ NoCall \in Calls /\ NoRelease \in Releases /\ NoTick \in Ticks
    /\ \A ph \in {"idle", "boot", "snap", "pins", "op", "write", "warm"} : GoesTo(ph) \in Ticks
BY DEF NoCall, Calls, NoRelease, Releases, NoTick, Ticks, Statuses, GoesTo

\* What a heartbeat, a snapshot, a token, a release and a claim do to the
\* claim, seen through its batch, token and snapshot.
LEMMA ClaimKept ==
    ASSUME claim' = claim
    PROVE  UNCHANGED <<ClaimBatch, ClaimToken, ClaimExact>>
BY DEF ClaimBatch, ClaimToken, ClaimExact

LEMMA ClaimAges ==
    ASSUME TypeOK, claim # None, NEW s \in BOOLEAN, claim' = [claim EXCEPT !.stale = s]
    PROVE  claim' \in Claims /\ UNCHANGED <<ClaimBatch, ClaimToken, ClaimExact>>
<1>1. claim \in Claims /\ claim' \in Claims
    BY DEF TypeOK, Claims
<1>2. claim'.batch = claim.batch /\ claim'.token = claim.token /\ claim'.exact = claim.exact
    BY <1>1 DEF Claims
<1> QED
    BY <1>1, <1>2, HostClaimsAssumption DEF ClaimBatch, ClaimToken, ClaimExact

LEMMA ClaimGetsSnapshot ==
    ASSUME TypeOK, claim # None, claim' = [claim EXCEPT !.exact = TRUE]
    PROVE  claim' \in Claims /\ UNCHANGED <<ClaimBatch, ClaimToken>> /\ ClaimExact'
<1>1. claim \in Claims /\ claim' \in Claims
    BY DEF TypeOK, Claims
<1>2. claim'.batch = claim.batch /\ claim'.token = claim.token /\ claim'.exact = TRUE
    BY <1>1 DEF Claims
<1> QED
    BY <1>1, <1>2, HostClaimsAssumption DEF ClaimBatch, ClaimToken, ClaimExact

LEMMA ClaimGetsToken ==
    ASSUME TypeOK, claim # None, NEW r \in Releasers,
           claim' = [claim EXCEPT !.token = r, !.stale = FALSE]
    PROVE  claim' \in Claims /\ UNCHANGED <<ClaimBatch, ClaimExact>> /\ ClaimToken' = r
<1>1. claim \in Claims /\ claim' \in Claims
    BY DEF TypeOK, Claims
<1>2. claim'.batch = claim.batch /\ claim'.token = r /\ claim'.exact = claim.exact
    BY <1>1 DEF Claims
<1> QED
    BY <1>1, <1>2, HostClaimsAssumption DEF ClaimBatch, ClaimToken, ClaimExact

LEMMA ClaimEnds ==
    ASSUME claim' = None
    PROVE  ClaimBatch' = None /\ ClaimToken' = None /\ ~ClaimExact'
BY DEF ClaimBatch, ClaimToken, ClaimExact

LEMMA ClaimBegins ==
    ASSUME NEW b \in Batches, NEW s \in Statuses,
           claim' = [batch |-> b, prevStatus |-> s, exact |-> FALSE,
                     token |-> None, stale |-> FALSE]
    PROVE  claim' \in Claims /\ ClaimBatch' = b /\ ClaimToken' = None /\ ~ClaimExact'
<1>1. claim' \in Claims
    BY DEF Claims
<1>2. claim'.batch = b /\ claim'.token = None /\ claim'.exact = FALSE
    OBVIOUS
<1> QED
    BY <1>1, <1>2, HostClaimsAssumption DEF ClaimBatch, ClaimToken, ClaimExact

\* A claim is a record of its type, and its batch is not None.
LEMMA ClaimIs ==
    ASSUME TypeOK
    PROVE  /\ claim = None <=> ClaimBatch = None
           /\ claim # None => /\ claim \in Claims /\ claim.batch = ClaimBatch
                              /\ ClaimBatch \in Batches /\ claim.token = ClaimToken
                              /\ claim.exact = ClaimExact
BY HostClaimsAssumption DEF TypeOK, Claims, ClaimBatch, ClaimToken, ClaimExact

LEMMA InitTyped == Init => TypeOK
BY RecordsTyped DEF Init, TypeOK, Statuses, ClientStates

\* The answer a batch hears is a state of the client.
LEMMA HearsTyped ==
    ASSUME TypeOK, NEW b \in Batches, NEW waiting, NEW answer \in ClientStates,
           Hears(b, waiting, answer)
    PROVE  client' \in [Batches -> ClientStates]
BY DEF TypeOK, Hears

LEMMA EndCallTyped ==
    ASSUME TypeOK, NEW b \in Batches, NEW answer \in ClientStates, EndCall(b, answer)
    PROVE  call' \in [Batches -> Calls] /\ client' \in [Batches -> ClientStates]
BY HearsTyped, RecordsTyped DEF TypeOK, EndCall

LEMMA EndReleaseTyped ==
    ASSUME TypeOK, NEW r \in Releasers, rel[r].batch \in Batches,
           NEW answer \in ClientStates, EndRelease(r, answer)
    PROVE  rel' \in [Releasers -> Releases] /\ client' \in [Batches -> ClientStates]
<1>1. rel' \in [Releasers -> Releases]
    BY RecordsTyped DEF TypeOK, EndRelease
<1>2. client' \in [Batches -> ClientStates]
    BY HearsTyped DEF TypeOK, EndRelease
<1> QED
    BY <1>1, <1>2

LEMMA StartTyped ==
    ASSUME TypeOK, NEW r \in Releasers, NEW mode \in {"owner", "reaper", "recovery"},
           NEW b \in Batches, NEW seen \in Releasers \cup {None}, Start(r, mode, b, seen)
    PROVE  rel' \in [Releasers -> Releases]
BY DEF TypeOK, Start, Releases

\* A release under way has a batch.
Typed ==
    /\ TypeOK
    /\ \A r \in Releasers : rel[r].phase # "idle" => rel[r].batch \in Batches

LEMMA BatchTyped ==
    ASSUME Typed, NEW b \in Batches, Batch(b)
    PROVE  Typed'
<1>1. CASE Admit(b) \/ AdmissionLapses(b) \/ EndAdmission(b) \/ RecoveryEnds(b)
    BY <1>1 DEF Typed, TypeOK, Admit, AdmissionLapses, EndAdmission, RecoveryEnds
<1>2. CASE ClaimAssert(b)
    <2>1. [NoCall EXCEPT !.phase = "asserted"] \in Calls
        BY DEF NoCall, Calls, Statuses
    <2> QED
        BY <1>2, <2>1 DEF Typed, TypeOK, ClaimAssert, ClientStates
<1>3. CASE ClaimRead(b)
    <2>1. [phase |-> "read", status |-> status, batch |-> ClaimBatch] \in Calls
        BY ClaimIs DEF Typed, TypeOK, Calls
    <2>2. call' \in [Batches -> Calls] /\ client' \in [Batches -> ClientStates]
        BY <1>3, <2>1, EndCallTyped DEF ClaimRead, Typed, TypeOK, ClientStates
    <2> QED
        BY <1>3, <2>2 DEF ClaimRead, Typed, TypeOK
<1>4. CASE ClaimCas(b)
    <2>1. [NoCall EXCEPT !.phase = "capture"] \in Calls
        BY DEF NoCall, Calls, Statuses
    <2>2. call' \in [Batches -> Calls] /\ client' \in [Batches -> ClientStates]
        BY <1>4, <2>1, EndCallTyped DEF ClaimCas, Typed, TypeOK, ClientStates
    <2>3. status' \in Statuses /\ claim' \in Claims \cup {None}
        BY <1>4, ClaimBegins DEF ClaimCas, Typed, TypeOK, Statuses
    <2> QED
        BY <1>4, <2>2, <2>3 DEF ClaimCas, Typed, TypeOK
<1>5. CASE AttachSnapshot(b)
    <2>1. call' \in [Batches -> Calls] /\ client' \in [Batches -> ClientStates]
        BY <1>5, EndCallTyped DEF AttachSnapshot, Typed, ClientStates
    <2>2. ClaimOf(b) => claim # None
        BY ClaimIs, HostClaimsAssumption DEF ClaimOf, Typed
    <2>3. claim' \in Claims \cup {None}
        BY <1>5, <2>2, ClaimGetsSnapshot DEF AttachSnapshot, Typed, TypeOK
    <2> QED
        BY <1>5, <2>1, <2>3 DEF AttachSnapshot, Typed, TypeOK
<1>6. CASE CaptureFails(b)
    <2>1. call' \in [Batches -> Calls] /\ client' \in [Batches -> ClientStates]
        BY <1>6, EndCallTyped DEF CaptureFails, Typed, ClientStates
    <2>2. ClaimOf(b) => claim \in Claims
        BY ClaimIs, HostClaimsAssumption DEF ClaimOf, Typed
    <2>3. status' \in Statuses /\ claim' \in Claims \cup {None}
        BY <1>6, <2>2 DEF CaptureFails, Clears, Typed, TypeOK, Claims
    <2> QED
        BY <1>6, <2>1, <2>3 DEF CaptureFails, Typed, TypeOK
<1>7. CASE Heartbeat(b)
    <2>1. claim # None
        BY <1>7, ClaimIs, HostClaimsAssumption DEF Heartbeat, ClaimOf, Typed
    <2> QED
        BY <1>7, <2>1, ClaimAges DEF Heartbeat, Typed, TypeOK
<1>8. CASE BatchEnds(b) \/ LosesClaimAnswer(b) \/ Dies(b) \/ AsksForReceipt(b)
    <2>1. \E to \in {"cleaning", "gone", "done"} :
              client' = [client EXCEPT ![b] = to]
        BY <1>8 DEF BatchEnds, LosesClaimAnswer, Dies, AsksForReceipt, Becomes
    <2>2. UNCHANGED <<status, claim, sessionHold, receipt, admission, call, rel, tick, overwritten>>
        BY <1>8 DEF BatchEnds, LosesClaimAnswer, Dies, AsksForReceipt, Becomes
    <2>3. client' \in [Batches -> ClientStates]
        BY <2>1 DEF Typed, TypeOK, ClientStates
    <2> QED
        BY <2>2, <2>3 DEF Typed, TypeOK
<1>9. CASE LosesReleaseAnswer(b)
    <2>1. /\ rel' \in [Releasers -> Releases]
          /\ \A r \in Releasers : rel'[r].phase = rel[r].phase /\ rel'[r].batch = rel[r].batch
        BY <1>9 DEF LosesReleaseAnswer, Typed, TypeOK, Releases
    <2> QED
        BY <1>9, <2>1 DEF LosesReleaseAnswer, Becomes, Typed, TypeOK, ClientStates
<1> QED
    BY <1>1, <1>2, <1>3, <1>4, <1>5, <1>6, <1>7, <1>8, <1>9 DEF Batch

\* A release that starts, goes on or ends.
LEMMA StartsTyped ==
    ASSUME Typed, NEW r \in Releasers, NEW mode \in {"owner", "reaper", "recovery"},
           NEW b \in Batches, NEW seen \in Releasers \cup {None}, Start(r, mode, b, seen)
    PROVE  /\ rel' \in [Releasers -> Releases]
           /\ \A q \in Releasers : rel'[q].phase # "idle" => rel'[q].batch \in Batches
BY StartTyped DEF Typed, TypeOK, Start

LEMMA GoesOnTyped ==
    ASSUME Typed, NEW r \in Releasers, rel[r].phase # "idle",
           NEW ph \in {"fenced", "mutating"}, NEW seen \in Releasers \cup {None},
           rel' = [rel EXCEPT ![r].phase = ph, ![r].seen = seen]
    PROVE  /\ rel' \in [Releasers -> Releases]
           /\ \A q \in Releasers : rel'[q].phase # "idle" => rel'[q].batch \in Batches
<1>1. rel' \in [Releasers -> Releases]
    <2>1. [[rel[r] EXCEPT !.phase = ph] EXCEPT !.seen = seen] \in Releases
        BY DEF Typed, TypeOK, Releases
    <2>2. rel' = [rel EXCEPT ![r] = [[rel[r] EXCEPT !.phase = ph] EXCEPT !.seen = seen]]
        BY DEF Typed, TypeOK, Releases
    <2> QED
        BY <2>1, <2>2 DEF Typed, TypeOK
<1>2. \A q \in Releasers : rel'[q].batch = rel[q].batch /\ (q # r => rel'[q] = rel[q])
    BY DEF Typed, TypeOK, Releases
<1> QED
    BY <1>1, <1>2 DEF Typed

LEMMA EndsTyped ==
    ASSUME Typed, NEW r \in Releasers, rel[r].phase # "idle",
           NEW answer \in ClientStates, EndRelease(r, answer)
    PROVE  /\ rel' \in [Releasers -> Releases] /\ client' \in [Batches -> ClientStates]
           /\ \A q \in Releasers : rel'[q].phase # "idle" => rel'[q].batch \in Batches
<1>1. rel' \in [Releasers -> Releases] /\ client' \in [Batches -> ClientStates]
    BY EndReleaseTyped DEF Typed
<1>2. rel' = [rel EXCEPT ![r] = NoRelease] /\ NoRelease.phase = "idle"
    BY DEF EndRelease, NoRelease
<1> QED
    BY <1>1, <1>2 DEF Typed, TypeOK

LEMMA ReleaseTyped ==
    ASSUME Typed, NEW r \in Releasers, Release(r)
    PROVE  Typed'
<1>1. CASE \E b \in Batches : OwnerRelease(r, b)
    <2>1. PICK b \in Batches : OwnerRelease(r, b)
        BY <1>1
    <2>2. CASE rel' = rel
        BY <2>1, <2>2 DEF OwnerRelease, Typed, TypeOK, ClientStates
    <2>3. CASE Start(r, "owner", b, None)
        <3>1. /\ rel' \in [Releasers -> Releases]
              /\ \A q \in Releasers : rel'[q].phase # "idle" => rel'[q].batch \in Batches
            BY <2>3, StartsTyped
        <3> QED
            BY <2>1, <3>1 DEF OwnerRelease, Typed, TypeOK, ClientStates
    <2> QED
        BY <2>1, <2>2, <2>3 DEF OwnerRelease
<1>2. CASE \E b \in Batches : RecoveryRelease(r, b)
    <2>1. PICK b \in Batches : RecoveryRelease(r, b)
        BY <1>2
    <2>2. claim.token \in Releasers \cup {None}
        BY <2>1, ClaimIs, HostClaimsAssumption DEF RecoveryRelease, Typed, Claims
    <2>3. /\ rel' \in [Releasers -> Releases]
          /\ \A q \in Releasers : rel'[q].phase # "idle" => rel'[q].batch \in Batches
        BY <2>1, <2>2, StartsTyped DEF RecoveryRelease
    <2> QED
        BY <2>1, <2>3 DEF RecoveryRelease, Typed, TypeOK
<1>3. CASE Reap(r)
    <2>1. claim.batch \in Batches
        BY <1>3, ClaimIs DEF Reap, Typed
    <2>2. /\ rel' \in [Releasers -> Releases]
          /\ \A q \in Releasers : rel'[q].phase # "idle" => rel'[q].batch \in Batches
        BY <1>3, <2>1, StartsTyped DEF Reap
    <2> QED
        BY <1>3, <2>2 DEF Reap, Typed, TypeOK
<1>4. CASE TakeToken(r)
    <2>1. rel' = [rel EXCEPT ![r].phase = "fenced", ![r].seen = None] /\ rel[r].phase # "idle"
        BY <1>4 DEF TakeToken
    <2>2. claim # None
        BY <1>4, ClaimIs, HostClaimsAssumption DEF TakeToken, Takes, ClaimOf, Typed
    <2>3. claim' \in Claims
        BY <1>4, <2>2, ClaimGetsToken DEF TakeToken, Typed
    <2>4. /\ rel' \in [Releasers -> Releases]
          /\ \A q \in Releasers : rel'[q].phase # "idle" => rel'[q].batch \in Batches
        BY <2>1, GoesOnTyped
    <2> QED
        BY <1>4, <2>3, <2>4 DEF TakeToken, Typed, TypeOK
<1>5. CASE TokenRefused(r)
    BY <1>5, EndsTyped DEF TokenRefused, Typed, TypeOK, ClientStates
<1>6. CASE RenewToken(r)
    <2>1. claim # None
        BY <1>6, ClaimIs, HostClaimsAssumption DEF RenewToken, Fenced, ClaimOf, Typed
    <2> QED
        BY <1>6, <2>1, ClaimAges DEF RenewToken, Typed, TypeOK
<1>7. ASSUME rel[r].phase # "idle", NEW ph \in {"fenced", "mutating"},
             rel' = [rel EXCEPT ![r].phase = ph]
      PROVE  /\ rel' \in [Releasers -> Releases]
             /\ \A q \in Releasers : rel'[q].phase # "idle" => rel'[q].batch \in Batches
    <2>1. rel' \in [Releasers -> Releases]
        BY <1>7 DEF Typed, TypeOK, Releases
    <2>2. \A q \in Releasers : rel'[q].batch = rel[q].batch /\ (q # r => rel'[q] = rel[q])
        BY <1>7 DEF Typed, TypeOK, Releases
    <2> QED
        BY <1>7, <2>1, <2>2 DEF Typed
<1>8. CASE AssertFence(r)
    BY <1>7, <1>8, EndsTyped DEF AssertFence, Typed, TypeOK, ClientStates
<1>9. CASE Mutated(r)
    BY <1>7, <1>9, EndsTyped DEF Mutated, Typed, TypeOK, ClientStates
<1>10. CASE ClearClaim(r)
    <2>1. rel[r].phase # "idle" /\ (EndRelease(r, "done") \/ EndRelease(r, "gone"))
        BY <1>10 DEF ClearClaim
    <2>2. /\ rel' \in [Releasers -> Releases] /\ client' \in [Batches -> ClientStates]
          /\ \A q \in Releasers : rel'[q].phase # "idle" => rel'[q].batch \in Batches
        BY <2>1, EndsTyped DEF ClientStates
    <2>3. Fenced(r) => claim \in Claims
        BY <2>1, ClaimIs, HostClaimsAssumption DEF Fenced, ClaimOf, Typed
    <2>4. /\ status' \in Statuses /\ claim' \in Claims \cup {None}
          /\ receipt' \in Batches \cup {None}
        BY <1>10, <2>1, <2>3 DEF ClearClaim, Clears, Typed, TypeOK, Claims
    <2> QED
        BY <1>10, <2>2, <2>4 DEF ClearClaim, Typed, TypeOK
<1> QED
    BY <1>1, <1>2, <1>3, <1>4, <1>5, <1>6, <1>8, <1>9, <1>10 DEF Release

\* What the sessions and the reconciler leave alone.
LEMMA SessionTyped ==
    ASSUME Typed, NEW s \in Sessions, Session(s)
    PROVE  Typed'
<1>1. HoldUnchanged /\ UNCHANGED overwritten
    BY DEF Session, AcquireSessionHold, TouchSessionHold, ReleaseSessionHold, HoldUnchanged
<1>2. sessionHold' \in Holds \cup {None}
    <2>1. [owner |-> s, live |-> TRUE] \in Holds
        BY DEF Holds
    <2>2. sessionHold' \in {[owner |-> s, live |-> TRUE], sessionHold, None}
        BY DEF Session, AcquireSessionHold, TouchSessionHold, ReleaseSessionHold
    <2> QED
        BY <2>1, <2>2 DEF Typed, TypeOK
<1>3. CopyLosesHold \/ CopyFallsBehind
    BY DEF Session, AcquireSessionHold, TouchSessionHold, ReleaseSessionHold
<1>4. tick' \in Ticks
    BY <1>3 DEF CopyLosesHold, CopyFallsBehind, CopyHold, Typed, TypeOK, Ticks
<1> QED
    BY <1>1, <1>2, <1>4 DEF HoldUnchanged, Typed, TypeOK

LEMMA ReconcilerTyped ==
    ASSUME Typed, Reconciler \/ SessionHoldLapses
    PROVE  Typed' /\ UNCHANGED <<claim, receipt, admission, client, call, rel>>
<1>1. UNCHANGED <<claim, receipt, admission, client, call, rel>>
    BY DEF Reconciler, SessionHoldLapses, CopyLapses, HoldUnchanged, TickUnchanged, TickSnapshot,
           TickHostDown, TickSkips, TickExpiresHold, TickMarksReady, TickDefers,
           TickBeginsRestore, TickVetoed, TickRechecks, TickMarksRestoring, TickWarms
<1>2. status' \in {status, "offline", "idle", "ready", "restoring"}
    BY DEF Reconciler, SessionHoldLapses, CopyLapses, HoldUnchanged, TickSnapshot, RestoreEnds,
           TickHostDown, TickSkips, TickExpiresHold, TickMarksReady, TickDefers,
           TickBeginsRestore, TickVetoed, TickRechecks, TickMarksRestoring, TickWarms
<1>3. overwritten' \in BOOLEAN
    BY DEF Reconciler, SessionHoldLapses, CopyLapses, HoldUnchanged, TickUnchanged, TickSnapshot,
           TickHostDown, TickSkips, TickExpiresHold, TickMarksReady, TickDefers,
           TickBeginsRestore, TickVetoed, TickRechecks, TickMarksRestoring, TickWarms,
           Typed, TypeOK
<1>4. sessionHold' \in Holds \cup {None}
    <2>1. SessionHoldLapses => sessionHold' \in Holds
        BY DEF SessionHoldLapses, HoldLive, Holds, Typed, TypeOK
    <2>2. Reconciler => sessionHold' \in {sessionHold, None}
        BY DEF Reconciler, CopyLapses, TickSnapshot,
               TickHostDown, TickSkips, TickExpiresHold, TickMarksReady, TickDefers,
               TickBeginsRestore, TickVetoed, TickRechecks, TickMarksRestoring, TickWarms
    <2> QED
        BY <2>1, <2>2 DEF Typed, TypeOK
<1>5. tick' \in Ticks
    <2>1. CASE SessionHoldLapses \/ CopyLapses
        BY <2>1 DEF SessionHoldLapses, CopyLapses, Typed, TypeOK, Ticks
    <2>2. CASE TickSnapshot
        BY <2>2 DEF TickSnapshot, NoTick, Ticks
    <2>3. CASE TickExpiresHold
        <3>1. tick.ready \in BOOLEAN
            BY DEF Typed, TypeOK, Ticks
        <3> QED
            BY <2>3, <3>1 DEF TickExpiresHold, GoesTo, NoTick, Ticks
    <2>4. CASE TickHostDown \/ TickSkips \/ TickMarksReady \/ TickDefers \/ TickBeginsRestore
               \/ TickVetoed \/ TickRechecks \/ TickMarksRestoring \/ TickWarms
        <3>1. tick' \in {NoTick, GoesTo("op"), GoesTo("write"), GoesTo("warm")}
            BY <2>4 DEF TickHostDown, TickSkips, TickMarksReady, TickDefers, TickBeginsRestore,
                        TickVetoed, TickRechecks, TickMarksRestoring, TickWarms
        <3> QED
            BY <3>1, RecordsTyped
    <2> QED
        BY <2>1, <2>2, <2>3, <2>4 DEF Reconciler
<1>6. status' \in Statuses
    BY <1>2 DEF Typed, TypeOK, Statuses
<1> QED
    BY <1>1, <1>3, <1>4, <1>5, <1>6 DEF Typed, TypeOK

LEMMA NextTyped ==
    ASSUME Typed, [Next]_vars
    PROVE  Typed'
<1>1. CASE HeartbeatLapses
    BY <1>1, ClaimAges DEF HeartbeatLapses, Typed, TypeOK
<1>2. CASE CoreRestarts
    BY <1>2, RecordsTyped DEF CoreRestarts, Typed, TypeOK, NoRelease
<1>3. CASE UNCHANGED vars
    BY <1>3 DEF vars, Typed, TypeOK
<1> QED
    BY <1>1, <1>2, <1>3, BatchTyped, ReleaseTyped, SessionTyped, ReconcilerTyped DEF Next

-----------------------------------------------------------------------------
(* The inductive invariant.                                                  *)

\* Neither the document nor a release call knows the batch yet.
Unknown(b) ==
    /\ ClaimBatch # b /\ receipt # b
    /\ \A r \in Releasers : rel[r].phase # "idle" => rel[r].batch # b

DocumentOk ==
    /\ ~overwritten /\ ClaimBatch # None => status = "benchmarking"
    /\ ClaimToken # None => ClaimExact

BatchOk(b) ==
    /\ client[b] = "idle" => call[b].phase = "none" /\ Unknown(b)
    /\ call[b].phase \in {"asserted", "read"} => Unknown(b)
    /\ call[b].phase = "read" => call[b].status \in Neutral
    /\ receipt = b => call[b].phase = "none" /\ ClaimBatch # b
    /\ ClaimBatch = b /\ ClaimExact => call[b].phase = "none"
    /\ client[b] = "done" => /\ call[b].phase = "none"
                             /\ ~overwritten => ClaimBatch # b
    /\ client[b] = "holding" =>
          /\ call[b].phase = "none"
          /\ admission[b] = "active" /\ ~overwritten => ClaimBatch = b /\ ClaimExact

OfBatch(r) ==
    /\ rel[r].mode \in {"owner", "unheard"} => client[rel[r].batch] \notin {"idle", "claiming", "holding"}
    /\ rel[r].mode = "reaper" => admission[rel[r].batch] = "ended"
    /\ rel[r].mode = "recovery" => admission[rel[r].batch] \in {"quarantined", "ended"}
    /\ rel[r].mode # "recovery" => rel[r].seen = None
    /\ rel[r].phase \in {"fenced", "mutating"} /\ ClaimBatch = rel[r].batch => ClaimToken # None

ReleaseOk(r) == rel[r].phase # "idle" => OfBatch(r)

Apart(r, q) ==
    /\ rel[r].phase \in {"fenced", "mutating"} /\ rel[q].phase \in {"fenced", "mutating"}
    /\ r # q /\ rel[r].batch = rel[q].batch
    => "recovery" \in {rel[r].mode, rel[q].mode}

Inv ==
    /\ DocumentOk
    /\ \A b \in Batches : BatchOk(b)
    /\ \A r \in Releasers : ReleaseOk(r)
    /\ \A r, q \in Releasers : Apart(r, q)

LEMMA InitInv == Init => Inv
<1> SUFFICES ASSUME Init PROVE Inv
    OBVIOUS
<1>1. ClaimBatch = None /\ ClaimToken = None
    BY DEF Init, ClaimBatch, ClaimToken
<1>2. /\ \A b \in Batches : client[b] = "idle" /\ call[b].phase = "none" /\ receipt # b /\ ClaimBatch # b
      /\ \A r \in Releasers : rel[r].phase = "idle"
    BY <1>1, HostClaimsAssumption DEF Init, NoCall, NoRelease
<1> QED
    BY <1>1, <1>2 DEF Inv, DocumentOk, BatchOk, Unknown, ReleaseOk, Apart

\* A step that leaves the batches, the calls and what a claim says alone, and
\* is known when it changes the status under a claim.
LEMMA Frame ==
    ASSUME Inv, UNCHANGED <<ClaimBatch, ClaimToken, ClaimExact, receipt, admission, client, call, rel>>,
           overwritten => overwritten', status' = status \/ ClaimBatch = None \/ overwritten'
    PROVE  Inv'
BY DEF Inv, DocumentOk, BatchOk, Unknown, ReleaseOk, OfBatch, Apart

LEMMA AdmissionInv ==
    ASSUME Typed, Inv, NEW b \in Batches,
           Admit(b) \/ AdmissionLapses(b) \/ EndAdmission(b) \/ RecoveryEnds(b)
    PROVE  Inv'
<1>1. /\ UNCHANGED <<status, claim, receipt, client, call, rel, overwritten>>
      /\ UNCHANGED <<ClaimBatch, ClaimToken, ClaimExact>>
    BY ClaimKept DEF Admit, AdmissionLapses, EndAdmission, RecoveryEnds
<1>2. \E to \in {"active", "quarantined", "ended"} :
          /\ admission' = [admission EXCEPT ![b] = to]
          /\ to = "active" => admission[b] = "none" /\ client[b] = "idle"
          /\ to = "quarantined" => admission[b] = "active"
    BY DEF Admit, AdmissionLapses, EndAdmission, RecoveryEnds
<1>3. \A c \in Batches :
          /\ admission'[c] = "active" => admission[c] = "active" \/ client[c] = "idle"
          /\ admission[c] = "ended" => admission'[c] = "ended"
          /\ admission[c] = "quarantined" => admission'[c] \in {"quarantined", "ended"}
    BY <1>2 DEF Typed, TypeOK, Admit, AdmissionLapses, EndAdmission, RecoveryEnds
<1>4. \A c \in Batches : BatchOk(c)'
    BY <1>1, <1>3 DEF Inv, BatchOk, Unknown
<1>5. \A r \in Releasers : ReleaseOk(r)'
    BY <1>1, <1>3 DEF Typed, Inv, ReleaseOk, OfBatch
<1> QED
    BY <1>1, <1>4, <1>5 DEF Inv, DocumentOk, Apart

\* What a batch hears, one batch and the others.
LEMMA HearsWhat ==
    ASSUME Typed, NEW b \in Batches, NEW waiting, NEW answer, Hears(b, waiting, answer)
    PROVE  /\ \A c \in Batches : c # b => client'[c] = client[c]
           /\ client'[b] = IF client[b] \in waiting THEN answer ELSE client[b]
BY DEF Typed, TypeOK, Hears

LEMMA ClaimAssertInv ==
    ASSUME Typed, Inv, NEW b \in Batches, ClaimAssert(b)
    PROVE  Inv'
<1>1. /\ UNCHANGED <<status, admission, receipt, rel, overwritten>>
      /\ UNCHANGED <<ClaimBatch, ClaimToken, ClaimExact>>
    BY ClaimKept DEF ClaimAssert
<1>2. /\ client'[b] = "claiming" /\ call'[b].phase = "asserted" /\ client[b] = "idle"
      /\ \A c \in Batches : c # b => client'[c] = client[c] /\ call'[c] = call[c]
    BY DEF ClaimAssert, NoCall, Typed, TypeOK
<1>3. \A c \in Batches : BatchOk(c)'
    BY <1>1, <1>2 DEF Inv, BatchOk, Unknown
<1>4. \A r \in Releasers : ReleaseOk(r)'
    BY <1>1, <1>2 DEF Typed, Inv, BatchOk, Unknown, ReleaseOk, OfBatch
<1> QED
    BY <1>1, <1>3, <1>4 DEF Inv, DocumentOk, Apart

\* A call of claimBenchmark ends; the batch hears of it if it still waits.
LEMMA CallEnds ==
    ASSUME Typed, NEW b \in Batches, NEW answer, EndCall(b, answer)
    PROVE  /\ call'[b].phase = "none"
           /\ \A c \in Batches : c # b => client'[c] = client[c] /\ call'[c] = call[c]
           /\ client'[b] = IF client[b] = "claiming" THEN answer ELSE client[b]
<1>1. call' = [call EXCEPT ![b] = NoCall] /\ NoCall.phase = "none"
    BY DEF EndCall, NoCall
<1>2. client' = [client EXCEPT ![b] = IF client[b] \in {"claiming"} THEN answer ELSE client[b]]
    BY DEF EndCall, Hears
<1> QED
    BY <1>1, <1>2 DEF Typed, TypeOK

\* A refusal: the call ends, the document is as it was and holds no claim of
\* this batch.
LEMMA RefusalInv ==
    ASSUME Typed, Inv, NEW b \in Batches, EndCall(b, "done"), ClaimBatch # b \/ overwritten,
           UNCHANGED <<status, admission, receipt, rel, overwritten>>,
           UNCHANGED <<ClaimBatch, ClaimToken, ClaimExact>>
    PROVE  Inv'
<1>1. /\ call'[b].phase = "none"
      /\ \A c \in Batches : c # b => client'[c] = client[c] /\ call'[c] = call[c]
      /\ client'[b] = IF client[b] = "claiming" THEN "done" ELSE client[b]
    BY CallEnds
<1>2. \A c \in Batches : BatchOk(c)'
    BY <1>1 DEF Inv, BatchOk, Unknown
<1>3. \A r \in Releasers : ReleaseOk(r)'
    BY <1>1 DEF Typed, Inv, ReleaseOk, OfBatch
<1> QED
    BY <1>2, <1>3 DEF Inv, DocumentOk, Apart

LEMMA ClaimReadInv ==
    ASSUME Typed, Inv, NEW b \in Batches, ClaimRead(b)
    PROVE  Inv'
<1>1. /\ UNCHANGED <<status, admission, receipt, rel, overwritten>>
      /\ UNCHANGED <<ClaimBatch, ClaimToken, ClaimExact>>
      /\ call[b].phase = "asserted" /\ Unknown(b)
    BY ClaimKept DEF ClaimRead, Inv, BatchOk
<1>2. CASE EndCall(b, "done")
    BY <1>1, <1>2, RefusalInv DEF Unknown
<1>3. CASE ~EndCall(b, "done")
    <2>1. UNCHANGED client /\ status \in Neutral
          /\ call' = [call EXCEPT ![b] = [phase |-> "read", status |-> status, batch |-> ClaimBatch]]
        BY <1>3 DEF ClaimRead
    <2>2. /\ call'[b].phase = "read" /\ call'[b].status = status
          /\ \A c \in Batches : c # b => call'[c] = call[c]
        BY <2>1 DEF Typed, TypeOK
    <2>3. \A c \in Batches : BatchOk(c)'
        BY <1>1, <2>1, <2>2 DEF Inv, BatchOk, Unknown
    <2>4. \A r \in Releasers : ReleaseOk(r)'
        BY <1>1, <2>1 DEF Inv, ReleaseOk, OfBatch
    <2> QED
        BY <1>1, <2>3, <2>4 DEF Inv, DocumentOk, Apart
<1> QED
    BY <1>2, <1>3

LEMMA ClaimCasInv ==
    ASSUME Typed, Inv, NEW b \in Batches, ClaimCas(b)
    PROVE  Inv'
<1>1. /\ UNCHANGED <<admission, receipt, rel, overwritten>>
      /\ call[b].phase = "read" /\ Unknown(b) /\ call[b].status \in Neutral
    BY DEF ClaimCas, Inv, BatchOk
<1>2. CASE EndCall(b, "done") /\ UNCHANGED <<status, claim>>
    BY <1>1, <1>2, RefusalInv, ClaimKept DEF Unknown
<1>3. CASE ~(EndCall(b, "done") /\ UNCHANGED <<status, claim>>)
    <2>1. /\ status = call[b].status
          /\ status' = "benchmarking" /\ UNCHANGED client
          /\ claim' = [batch |-> b, prevStatus |-> status, exact |-> FALSE,
                       token |-> None, stale |-> FALSE]
          /\ call' = [call EXCEPT ![b] = [NoCall EXCEPT !.phase = "capture"]]
        BY <1>3 DEF ClaimCas
    <2>2. ClaimBatch' = b /\ ClaimToken' = None /\ ~ClaimExact'
        BY <2>1, ClaimBegins DEF Typed, TypeOK
    <2>3. /\ call'[b].phase = "capture"
          /\ \A c \in Batches : c # b => call'[c] = call[c]
        BY <2>1 DEF Typed, TypeOK, NoCall
    <2>4. overwritten \/ ClaimBatch = None
        BY <1>1, <2>1 DEF Inv, DocumentOk, Neutral
    <2>5. client[b] # "idle" /\ client[b] # "done" /\ client[b] # "holding" /\ receipt # b
        BY <1>1 DEF Inv, BatchOk, Unknown
    <2>6. \A c \in Batches : BatchOk(c)'
        <3>1. BatchOk(b)'
            BY <1>1, <2>1, <2>2, <2>3, <2>5 DEF BatchOk
        <3>2. ASSUME NEW c \in Batches, c # b PROVE BatchOk(c)'
            BY <1>1, <2>1, <2>2, <2>3, <2>4, <3>2, HostClaimsAssumption DEF Inv, BatchOk, Unknown
        <3> QED
            BY <3>1, <3>2
    <2>7. \A r \in Releasers : ReleaseOk(r)'
        BY <1>1, <2>1, <2>2 DEF Inv, ReleaseOk, OfBatch, Unknown
    <2>8. DocumentOk'
        BY <1>1, <2>1, <2>2 DEF DocumentOk
    <2> QED
        BY <1>1, <2>6, <2>7, <2>8 DEF Inv, Apart
<1> QED
    BY <1>2, <1>3

LEMMA AttachSnapshotInv ==
    ASSUME Typed, Inv, NEW b \in Batches, AttachSnapshot(b)
    PROVE  Inv'
<1>1. /\ UNCHANGED <<status, admission, receipt, rel, overwritten>>
      /\ call[b].phase = "capture"
    BY DEF AttachSnapshot
<1>2. CASE EndCall(b, "done") /\ UNCHANGED claim /\ ~ClaimOf(b)
    <2>1. ClaimBatch # b \/ overwritten
        BY <1>2, HostClaimsAssumption DEF ClaimOf, Inv, DocumentOk
    <2> QED
        BY <1>1, <1>2, <2>1, RefusalInv, ClaimKept
<1>3. CASE EndCall(b, "holding") /\ ClaimOf(b) /\ claim' = [claim EXCEPT !.exact = TRUE]
    <2>1. claim # None /\ ClaimBatch = b
        BY <1>3, ClaimIs, HostClaimsAssumption DEF ClaimOf, Typed
    <2>2. UNCHANGED <<ClaimBatch, ClaimToken>> /\ ClaimExact'
        BY <1>3, <2>1, ClaimGetsSnapshot DEF Typed
    <2>3. /\ call'[b].phase = "none"
          /\ \A c \in Batches : c # b => client'[c] = client[c] /\ call'[c] = call[c]
          /\ client'[b] = IF client[b] = "claiming" THEN "holding" ELSE client[b]
        BY <1>3, CallEnds
    <2>4. receipt # b /\ client[b] # "done" /\ client[b] # "holding" /\ client[b] # "idle"
        BY <1>1 DEF Inv, BatchOk
    <2>5. \A c \in Batches : BatchOk(c)'
        <3>1. BatchOk(b)'
            BY <1>1, <2>1, <2>2, <2>3, <2>4 DEF BatchOk
        <3>2. ASSUME NEW c \in Batches, c # b PROVE BatchOk(c)'
            BY <1>1, <2>1, <2>2, <2>3, <3>2 DEF Inv, BatchOk, Unknown
        <3> QED
            BY <3>1, <3>2
    <2>6. \A r \in Releasers : rel[r].phase # "idle" /\ rel[r].mode \in {"owner", "unheard"} /\ rel[r].batch = b
                               => client[b] # "claiming"
        BY DEF Inv, ReleaseOk, OfBatch
    <2>7. \A r \in Releasers : ReleaseOk(r)'
        BY <1>1, <2>2, <2>3, <2>6 DEF Typed, Inv, ReleaseOk, OfBatch
    <2>8. DocumentOk'
        BY <1>1, <2>2 DEF Inv, DocumentOk
    <2> QED
        BY <1>1, <2>5, <2>7, <2>8 DEF Inv, Apart
<1> QED
    BY <1>2, <1>3 DEF AttachSnapshot

LEMMA CaptureFailsInv ==
    ASSUME Typed, Inv, NEW b \in Batches, CaptureFails(b)
    PROVE  Inv'
<1>1. /\ UNCHANGED <<admission, receipt, rel, overwritten>>
      /\ call[b].phase = "capture" /\ EndCall(b, "done")
    BY DEF CaptureFails
<1>2. CASE ~ClaimOf(b)
    <2>1. UNCHANGED <<status, claim>> /\ (ClaimBatch # b \/ overwritten)
        BY <1>2, HostClaimsAssumption DEF CaptureFails, ClaimOf, Inv, DocumentOk
    <2> QED
        BY <1>1, <2>1, RefusalInv, ClaimKept
<1>3. CASE ClaimOf(b)
    <2>1. claim' = None /\ ClaimBatch = b
        BY <1>3 DEF CaptureFails, Clears, ClaimOf
    <2>2. ClaimBatch' = None /\ ClaimToken' = None /\ ~ClaimExact'
        BY <2>1, ClaimEnds
    <2>3. /\ call'[b].phase = "none"
          /\ \A c \in Batches : c # b => client'[c] = client[c] /\ call'[c] = call[c]
          /\ client'[b] = IF client[b] = "claiming" THEN "done" ELSE client[b]
        BY <1>1, CallEnds
    <2>4. client[b] # "holding" /\ client[b] # "idle"
        BY <1>1 DEF Inv, BatchOk
    <2>5. \A c \in Batches : BatchOk(c)'
        <3>1. BatchOk(b)'
            BY <1>1, <2>2, <2>3, <2>4, HostClaimsAssumption DEF BatchOk
        <3>2. ASSUME NEW c \in Batches, c # b PROVE BatchOk(c)'
            BY <1>1, <2>1, <2>2, <2>3, <3>2, HostClaimsAssumption DEF Inv, BatchOk, Unknown
        <3> QED
            BY <3>1, <3>2
    <2>6. \A r \in Releasers : ReleaseOk(r)'
        BY <1>1, <2>2, <2>3, HostClaimsAssumption DEF Typed, Inv, ReleaseOk, OfBatch
    <2>7. DocumentOk'
        BY <1>1, <2>2 DEF DocumentOk
    <2> QED
        BY <1>1, <2>5, <2>6, <2>7 DEF Inv, Apart
<1> QED
    BY <1>2, <1>3

\* The batch goes on without having heard, or stops.
LEMMA BatchGoesOn ==
    ASSUME Typed, Inv, NEW b \in Batches, NEW to \in {"cleaning", "gone", "asking"},
           client[b] \notin {"idle", "done"}, client' = [client EXCEPT ![b] = to],
           UNCHANGED <<status, claim, receipt, admission, call, overwritten>>,
           \A r \in Releasers :
               /\ rel'[r].phase = rel[r].phase /\ rel'[r].batch = rel[r].batch
               /\ rel'[r].seen = rel[r].seen
               /\ rel'[r].mode = rel[r].mode \/ (rel[r].mode = "owner" /\ rel'[r].mode = "unheard")
    PROVE  Inv'
<1>1. UNCHANGED <<ClaimBatch, ClaimToken, ClaimExact>>
    BY ClaimKept
<1>2. client'[b] = to /\ \A c \in Batches : c # b => client'[c] = client[c]
    BY DEF Typed, TypeOK
<1>3. \A c \in Batches : BatchOk(c)'
    BY <1>1, <1>2 DEF Inv, BatchOk, Unknown
<1>4. \A r \in Releasers : ReleaseOk(r)'
    <2> SUFFICES ASSUME NEW r \in Releasers, rel[r].phase # "idle" PROVE OfBatch(r)'
        BY DEF ReleaseOk
    <2>1. OfBatch(r) /\ rel[r].batch \in Batches
        BY DEF Inv, ReleaseOk, Typed
    <2>2. client[rel[r].batch] \notin {"idle", "claiming", "holding"}
          => client'[rel[r].batch] \notin {"idle", "claiming", "holding"}
        BY <1>2, <2>1
    <2> QED
        BY <1>1, <2>1, <2>2 DEF OfBatch
<1>5. \A r, q \in Releasers : Apart(r, q)'
    BY DEF Inv, Apart
<1> QED
    BY <1>1, <1>3, <1>4, <1>5 DEF Inv, DocumentOk

LEMMA AsksInv ==
    ASSUME Typed, Inv, NEW b \in Batches, AsksForReceipt(b)
    PROVE  Inv'
<1>1. /\ UNCHANGED <<status, claim, receipt, admission, call, overwritten, rel>>
      /\ client[b] = "asking"
    BY DEF AsksForReceipt, Becomes
<1>2. CASE client' = [client EXCEPT ![b] = "cleaning"] \/ client' = [client EXCEPT ![b] = "gone"]
    BY <1>1, <1>2, BatchGoesOn
<1>3. CASE receipt = b /\ client' = [client EXCEPT ![b] = "done"]
    <2>1. UNCHANGED <<ClaimBatch, ClaimToken, ClaimExact>>
        BY <1>1, ClaimKept
    <2>2. client'[b] = "done" /\ \A c \in Batches : c # b => client'[c] = client[c]
        BY <1>3 DEF Typed, TypeOK
    <2>3. \A c \in Batches : BatchOk(c)'
        BY <1>1, <1>3, <2>1, <2>2 DEF Inv, BatchOk, Unknown
    <2>4. \A r \in Releasers : ReleaseOk(r)'
        BY <1>1, <2>1, <2>2 DEF Typed, Inv, ReleaseOk, OfBatch
    <2> QED
        BY <1>1, <2>1, <2>3, <2>4 DEF Inv, DocumentOk, Apart
<1> QED
    BY <1>2, <1>3 DEF AsksForReceipt, Becomes

LEMMA BatchInv ==
    ASSUME Typed, Inv, NEW b \in Batches, Batch(b)
    PROVE  Inv'
<1>1. CASE Heartbeat(b)
    <2>1. claim # None
        BY <1>1, ClaimIs, HostClaimsAssumption DEF Heartbeat, ClaimOf, Typed
    <2>2. UNCHANGED <<ClaimBatch, ClaimToken, ClaimExact>>
        BY <1>1, <2>1, ClaimAges DEF Heartbeat, Typed
    <2> QED
        BY <1>1, <2>2, Frame DEF Heartbeat
<1>2. CASE BatchEnds(b) \/ LosesClaimAnswer(b) \/ Dies(b)
    <2>1. client' = [client EXCEPT ![b] = "cleaning"] \/ client' = [client EXCEPT ![b] = "gone"]
        BY <1>2 DEF BatchEnds, LosesClaimAnswer, Dies, Becomes
    <2>2. /\ UNCHANGED <<status, claim, receipt, admission, call, overwritten, rel>>
          /\ client[b] \notin {"idle", "done"}
        BY <1>2 DEF BatchEnds, LosesClaimAnswer, Dies, Becomes
    <2> QED
        BY <2>1, <2>2, BatchGoesOn
<1>3. CASE LosesReleaseAnswer(b)
    <2>1. /\ client' = [client EXCEPT ![b] = "asking"] /\ client[b] \notin {"idle", "done"}
          /\ UNCHANGED <<status, claim, receipt, admission, call, overwritten>>
        BY <1>3 DEF LosesReleaseAnswer, Becomes
    <2>2. \A r \in Releasers :
              /\ rel'[r].phase = rel[r].phase /\ rel'[r].batch = rel[r].batch
              /\ rel'[r].seen = rel[r].seen
              /\ rel'[r].mode = rel[r].mode \/ (rel[r].mode = "owner" /\ rel'[r].mode = "unheard")
        BY <1>3 DEF LosesReleaseAnswer, Typed, TypeOK, Releases
    <2> QED
        BY <2>1, <2>2, BatchGoesOn
<1> QED
    BY <1>1, <1>2, <1>3, AdmissionInv, ClaimAssertInv, ClaimReadInv, ClaimCasInv,
       AttachSnapshotInv, CaptureFailsInv, AsksInv DEF Batch

\* A release that finds a claim starts with it.
LEMMA StartInv ==
    ASSUME Typed, Inv, NEW r \in Releasers, NEW b \in Batches,
           NEW mode \in {"owner", "reaper", "recovery"}, NEW seen,
           Start(r, mode, b, seen), ClaimBatch = b,
           UNCHANGED <<status, claim, receipt, admission, call, overwritten>>,
           client' = client \/ client' = [client EXCEPT ![b] = "releasing"],
           mode = "owner" => client' = [client EXCEPT ![b] = "releasing"],
           mode = "reaper" => admission[b] = "ended",
           mode = "recovery" => admission[b] = "quarantined",
           mode # "recovery" => seen = None,
           client' # client => client[b] = "cleaning"
    PROVE  Inv'
<1>1. UNCHANGED <<ClaimBatch, ClaimToken, ClaimExact>>
    BY ClaimKept
<1>2. /\ rel'[r].phase = "read" /\ rel'[r].mode = mode /\ rel'[r].batch = b /\ rel'[r].seen = seen
      /\ \A q \in Releasers : q # r => rel'[q] = rel[q]
    BY DEF Start, Typed, TypeOK
<1>3. /\ \A c \in Batches : c # b => client'[c] = client[c]
      /\ client'[b] = client[b] \/ (client[b] = "cleaning" /\ client'[b] = "releasing")
      /\ mode = "owner" => client'[b] = "releasing"
    BY DEF Typed, TypeOK
<1>4. \A c \in Batches : BatchOk(c)'
    <2>1. BatchOk(b)'
        BY <1>1, <1>2, <1>3 DEF Inv, BatchOk, Unknown
    <2>2. ASSUME NEW c \in Batches, c # b PROVE BatchOk(c)'
        BY <1>1, <1>2, <1>3, <2>2 DEF Inv, BatchOk, Unknown
    <2> QED
        BY <2>1, <2>2
<1>5. \A q \in Releasers : ReleaseOk(q)'
    <2>1. ReleaseOk(r)'
        BY <1>1, <1>2, <1>3 DEF ReleaseOk, OfBatch
    <2>2. ASSUME NEW q \in Releasers, q # r PROVE ReleaseOk(q)'
        BY <1>1, <1>2, <1>3, <2>2 DEF Typed, Inv, ReleaseOk, OfBatch
    <2> QED
        BY <2>1, <2>2
<1>6. \A q, p \in Releasers : Apart(q, p)'
    BY <1>2 DEF Inv, Apart
<1> QED
    BY <1>1, <1>4, <1>5, <1>6 DEF Inv, DocumentOk

\* A release call ends; the owner hears of it if it still waits.
LEMMA ReleaseEnds ==
    ASSUME Typed, NEW r \in Releasers, rel[r].phase # "idle", NEW answer, EndRelease(r, answer)
    PROVE  /\ rel'[r].phase = "idle" /\ \A q \in Releasers : q # r => rel'[q] = rel[q]
           /\ \A c \in Batches : \/ client'[c] = client[c]
                                 \/ /\ c = rel[r].batch /\ rel[r].mode = "owner"
                                    /\ client[c] = "releasing" /\ client'[c] = answer
<1>1. rel' = [rel EXCEPT ![r] = NoRelease] /\ NoRelease.phase = "idle"
    BY DEF EndRelease, NoRelease
<1>2. rel[r].batch \in Batches
    BY DEF Typed
<1>3. CASE rel[r].mode = "owner"
    <2>1. client' = [client EXCEPT ![rel[r].batch] =
                        IF client[rel[r].batch] \in {"releasing"} THEN answer ELSE client[rel[r].batch]]
        BY <1>3 DEF EndRelease, Hears
    <2> QED
        BY <1>1, <1>2, <1>3, <2>1 DEF Typed, TypeOK
<1>4. CASE rel[r].mode # "owner"
    BY <1>1, <1>4 DEF EndRelease, Typed, TypeOK
<1> QED
    BY <1>3, <1>4

LEMMA ReleaseGone ==
    ASSUME Typed, Inv, NEW r \in Releasers, rel[r].phase # "idle", EndRelease(r, "gone"),
           UNCHANGED <<status, claim, receipt, admission, call, overwritten>>
    PROVE  Inv'
<1>1. UNCHANGED <<ClaimBatch, ClaimToken, ClaimExact>>
    BY ClaimKept
<1>2. /\ rel'[r].phase = "idle" /\ \A q \in Releasers : q # r => rel'[q] = rel[q]
      /\ \A c \in Batches : client'[c] = client[c] \/ (client[c] = "releasing" /\ client'[c] = "gone")
    BY ReleaseEnds
<1>3. \A c \in Batches : BatchOk(c)'
    BY <1>1, <1>2 DEF Inv, BatchOk, Unknown
<1>4. \A q \in Releasers : ReleaseOk(q)'
    BY <1>1, <1>2 DEF Typed, Inv, ReleaseOk, OfBatch
<1>5. \A q, p \in Releasers : Apart(q, p)'
    BY <1>2 DEF Inv, Apart
<1> QED
    BY <1>1, <1>3, <1>4, <1>5 DEF Inv, DocumentOk

\* A finalizer goes on under its token.
LEMMA ReleaseGoesOn ==
    ASSUME Typed, Inv, NEW r \in Releasers, NEW ph \in {"fenced", "mutating"},
           rel[r].phase \in {"fenced", "mutating"}, rel' = [rel EXCEPT ![r].phase = ph],
           UNCHANGED <<status, claim, receipt, admission, client, call, overwritten>>
    PROVE  Inv'
<1>1. UNCHANGED <<ClaimBatch, ClaimToken, ClaimExact>>
    BY ClaimKept
<1>2. /\ rel'[r].phase = ph
      /\ \A q \in Releasers : /\ q # r => rel'[q] = rel[q]
                              /\ rel'[q].mode = rel[q].mode /\ rel'[q].batch = rel[q].batch
                              /\ rel'[q].seen = rel[q].seen
    BY DEF Typed, TypeOK, Releases
<1>3. \A c \in Batches : BatchOk(c)'
    BY <1>1, <1>2 DEF Inv, BatchOk, Unknown
<1>4. \A q \in Releasers : ReleaseOk(q)'
    BY <1>1, <1>2 DEF Inv, ReleaseOk, OfBatch
<1>5. \A q, p \in Releasers : Apart(q, p)'
    BY <1>2 DEF Inv, Apart
<1> QED
    BY <1>1, <1>3, <1>4, <1>5 DEF Inv, DocumentOk

LEMMA TakeTokenInv ==
    ASSUME Typed, Inv, NEW r \in Releasers, TakeToken(r)
    PROVE  Inv'
<1>1. /\ UNCHANGED <<status, receipt, admission, client, call, overwritten>>
      /\ rel[r].phase = "read" /\ ClaimBatch = rel[r].batch /\ claim.exact /\ claim.token = rel[r].seen
      /\ rel[r].batch \in Batches
      /\ claim' = [claim EXCEPT !.token = r, !.stale = FALSE]
      /\ rel' = [rel EXCEPT ![r].phase = "fenced", ![r].seen = None]
    BY DEF TakeToken, Takes, ClaimOf, Typed
<1>2. claim # None
    BY <1>1, ClaimIs, HostClaimsAssumption DEF Typed
<1>3. ClaimExact /\ ClaimToken = rel[r].seen
    BY <1>1, <1>2 DEF ClaimExact, ClaimToken
<1>4. UNCHANGED <<ClaimBatch, ClaimExact>> /\ ClaimToken' = r /\ r # None
    BY <1>1, <1>2, ClaimGetsToken, HostClaimsAssumption DEF Typed
<1>5. /\ rel'[r].phase = "fenced" /\ rel'[r].seen = None
      /\ rel'[r].mode = rel[r].mode /\ rel'[r].batch = rel[r].batch
      /\ \A q \in Releasers : q # r => rel'[q] = rel[q]
    BY <1>1 DEF Typed, TypeOK, Releases
<1>6. \A c \in Batches : BatchOk(c)'
    <2>1. \A q \in Releasers : /\ rel'[q].phase # "idle" <=> rel[q].phase # "idle"
                               /\ rel'[q].batch = rel[q].batch
        BY <1>1, <1>5
    <2>2. \A c \in Batches : Unknown(c) <=> Unknown(c)'
        BY <1>1, <1>4, <2>1 DEF Unknown
    <2>3. UNCHANGED <<receipt, admission, client, call, overwritten>>
        BY <1>1
    <2> QED
        BY <1>4, <2>2, <2>3 DEF Inv, BatchOk
<1>7. \A q \in Releasers : ReleaseOk(q)'
    <2>1. ReleaseOk(r)'
        BY <1>1, <1>4, <1>5 DEF Inv, ReleaseOk, OfBatch
    <2>2. ASSUME NEW q \in Releasers, q # r PROVE ReleaseOk(q)'
        BY <1>1, <1>4, <1>5, <2>2 DEF Inv, ReleaseOk, OfBatch
    <2> QED
        BY <2>1, <2>2
<1>8. ASSUME NEW q \in Releasers, q # r, rel[q].phase \in {"fenced", "mutating"},
             rel[q].batch = rel[r].batch
      PROVE  rel[r].mode = "recovery"
    BY <1>1, <1>3, <1>8 DEF Inv, ReleaseOk, OfBatch
<1>9. ASSUME NEW q \in Releasers, NEW p \in Releasers PROVE Apart(q, p)'
    <2>1. CASE q = r \/ p = r
        BY <1>5, <1>8, <2>1 DEF Apart
    <2>2. CASE q # r /\ p # r
        BY <1>5, <2>2 DEF Inv, Apart
    <2> QED
        BY <2>1, <2>2
<1> QED
    BY <1>1, <1>3, <1>4, <1>6, <1>7, <1>9 DEF Inv, DocumentOk

LEMMA ClearClaimInv ==
    ASSUME Typed, Inv, NEW r \in Releasers, ClearClaim(r)
    PROVE  Inv'
<1>1. /\ UNCHANGED <<admission, call, overwritten>>
      /\ rel[r].phase = "mutating" /\ rel[r].batch \in Batches
    BY DEF ClearClaim, Typed
<1>2. CASE ~Fenced(r)
    BY <1>1, <1>2, ReleaseGone DEF ClearClaim
<1>3. CASE Fenced(r)
    <2> PICK b \in Batches : b = rel[r].batch
        BY <1>1
    <2>1. claim' = None /\ receipt' = b /\ EndRelease(r, "done") /\ ClaimBatch = b
        BY <1>3 DEF ClearClaim, Clears, Fenced, ClaimOf
    <2>2. ClaimBatch' = None /\ ClaimToken' = None /\ ~ClaimExact'
        BY <2>1, ClaimEnds
    <2>3. ClaimExact
        <3>1. claim # None
            BY <1>1, <2>1, ClaimIs, HostClaimsAssumption DEF Typed
        <3>2. ClaimToken = r
            BY <1>3, <3>1 DEF Fenced, ClaimToken
        <3> QED
            BY <3>2, HostClaimsAssumption DEF Inv, DocumentOk
    <2>4. /\ rel'[r].phase = "idle" /\ \A q \in Releasers : q # r => rel'[q] = rel[q]
          /\ \A c \in Batches : \/ client'[c] = client[c]
                                \/ c = b /\ client[c] = "releasing" /\ client'[c] = "done"
        BY <1>1, <2>1, ReleaseEnds
    <2>5. client[b] # "holding" \/ admission[b] # "active"
        BY <1>1 DEF Inv, ReleaseOk, OfBatch, Typed, TypeOK, Releases
    <2>6. call[b].phase = "none" /\ client[b] # "idle"
        BY <1>1, <2>1, <2>3 DEF Inv, BatchOk, Unknown
    <2>7. \A c \in Batches : BatchOk(c)'
        <3>1. BatchOk(b)'
            BY <1>1, <2>2, <2>4, <2>5, <2>6, HostClaimsAssumption DEF BatchOk
        <3>2. ASSUME NEW c \in Batches, c # b PROVE BatchOk(c)'
            BY <1>1, <2>1, <2>2, <2>4, <3>2, HostClaimsAssumption DEF Inv, BatchOk, Unknown
        <3> QED
            BY <3>1, <3>2
    <2>8. \A q \in Releasers : ReleaseOk(q)'
        BY <1>1, <2>2, <2>4, HostClaimsAssumption DEF Typed, Inv, ReleaseOk, OfBatch
    <2>9. \A q, p \in Releasers : Apart(q, p)'
        BY <2>4 DEF Inv, Apart
    <2> QED
        BY <2>2, <2>7, <2>8, <2>9 DEF Inv, DocumentOk
<1> QED
    BY <1>2, <1>3

LEMMA ReleaseInv ==
    ASSUME Typed, Inv, NEW r \in Releasers, Release(r)
    PROVE  Inv'
<1>1. CASE \E b \in Batches : OwnerRelease(r, b)
    <2>1. PICK b \in Batches : OwnerRelease(r, b)
        BY <1>1
    <2>2. UNCHANGED <<status, claim, receipt, admission, call, overwritten>> /\ client[b] = "cleaning"
        BY <2>1 DEF OwnerRelease
    <2>3. CASE client' = [client EXCEPT ![b] = "gone"] /\ UNCHANGED rel
        BY <2>2, <2>3, BatchGoesOn
    <2>4. CASE ClaimBatch = b /\ Start(r, "owner", b, None) /\ client' = [client EXCEPT ![b] = "releasing"]
        BY <2>2, <2>4, StartInv
    <2> QED
        BY <2>1, <2>3, <2>4 DEF OwnerRelease
<1>2. CASE \E b \in Batches : RecoveryRelease(r, b)
    BY <1>2, StartInv DEF RecoveryRelease
<1>3. CASE Reap(r)
    <2>1. claim.batch \in Batches /\ ClaimBatch = claim.batch
        BY <1>3, ClaimIs DEF Reap, Typed
    <2> QED
        BY <1>3, <2>1, StartInv DEF Reap
<1>4. CASE TokenRefused(r)
    BY <1>4, ReleaseGone DEF TokenRefused
<1>5. CASE RenewToken(r)
    <2>1. claim # None
        BY <1>5, ClaimIs, HostClaimsAssumption DEF RenewToken, Fenced, ClaimOf, Typed
    <2>2. UNCHANGED <<ClaimBatch, ClaimToken, ClaimExact>>
        BY <1>5, <2>1, ClaimAges DEF RenewToken, Typed
    <2> QED
        BY <1>5, <2>2, Frame DEF RenewToken
<1>6. CASE AssertFence(r)
    BY <1>6, ReleaseGone, ReleaseGoesOn DEF AssertFence
<1>7. CASE Mutated(r)
    BY <1>7, ReleaseGone, ReleaseGoesOn DEF Mutated
<1> QED
    BY <1>1, <1>2, <1>3, <1>4, <1>5, <1>6, <1>7, TakeTokenInv, ClearClaimInv DEF Release

\* A pass that changes the status under a claim is on record.
LEMMA ReconcilerInv ==
    ASSUME Typed, Inv, Reconciler \/ SessionHoldLapses
    PROVE  Inv'
<1>1. UNCHANGED <<claim, receipt, admission, client, call, rel>>
    BY ReconcilerTyped
<1>2. HoldUnchanged \/ TickUnchanged
    BY DEF Reconciler, SessionHoldLapses, CopyLapses, TickSnapshot,
           TickHostDown, TickSkips, TickExpiresHold, TickMarksReady, TickDefers,
           TickBeginsRestore, TickVetoed, TickRechecks, TickMarksRestoring, TickWarms
<1>3. overwritten => overwritten'
    BY <1>2 DEF HoldUnchanged, TickUnchanged
<1>4. status' = status \/ ClaimBatch = None \/ overwritten'
    BY <1>2, ClaimIs DEF HoldUnchanged, TickUnchanged, Typed
<1> QED
    BY <1>1, <1>3, <1>4, ClaimKept, Frame

LEMMA CoreRestartsInv ==
    ASSUME Typed, Inv, CoreRestarts
    PROVE  Inv'
<1>1. /\ \A b \in Batches : call'[b].phase = "none"
      /\ \A r \in Releasers : rel'[r].phase = "idle"
    BY DEF CoreRestarts, NoCall, NoRelease
<1>2. UNCHANGED <<status, receipt, admission, client, overwritten, ClaimBatch, ClaimToken, ClaimExact>>
    BY ClaimKept DEF CoreRestarts
<1>3. \A b \in Batches : BatchOk(b)'
    BY <1>1, <1>2 DEF Inv, BatchOk, Unknown
<1> QED
    BY <1>1, <1>2, <1>3 DEF Inv, DocumentOk, ReleaseOk, Apart

LEMMA NextInv ==
    ASSUME Typed, Inv, [Next]_vars
    PROVE  Inv'
<1>1. CASE HeartbeatLapses
    <2>1. UNCHANGED <<ClaimBatch, ClaimToken, ClaimExact>>
        BY <1>1, ClaimAges DEF HeartbeatLapses, Typed
    <2> QED
        BY <1>1, <2>1, Frame DEF HeartbeatLapses
<1>2. CASE \E s \in Sessions : Session(s)
    <2>1. HoldUnchanged
        BY <1>2 DEF Session, AcquireSessionHold, TouchSessionHold, ReleaseSessionHold
    <2> QED
        BY <2>1, ClaimKept, Frame DEF HoldUnchanged
<1>3. CASE UNCHANGED vars
    BY <1>3, ClaimKept, Frame DEF vars
<1> QED
    BY <1>1, <1>2, <1>3, BatchInv, ReleaseInv, ReconcilerInv, CoreRestartsInv DEF Next

-----------------------------------------------------------------------------
(* Theorems.                                                                 *)

\* The invariant of the claims holds in every reachable state.
THEOREM ClaimInvariant == Spec => [](Typed /\ Inv)
<1>1. Init => Typed /\ Inv
    BY InitTyped, InitInv DEF Typed, Init, NoRelease
<1>2. Typed /\ Inv /\ [Next]_vars => (Typed /\ Inv)'
    BY NextTyped, NextInv
<1> QED
    BY <1>1, <1>2, PTL DEF Spec

\* Every variable has its type, whatever the order of claims, releases, holds
\* and passes.
THEOREM ClaimsTyped == Spec => []TypeOK
<1>1. Typed => TypeOK
    BY DEF Typed
<1> QED
    BY <1>1, ClaimInvariant, PTL

\* A batch that was told it holds the host, and whose admission is alive, has
\* the claim and its exact snapshot, while no pass has overwritten the status.
THEOREM HoldersHaveClaims == Spec => []HolderHasClaim
<1>1. Typed /\ Inv => HolderHasClaim
    <2> SUFFICES ASSUME Typed, Inv, NEW b \in Batches, client[b] = "holding",
                        admission[b] = "active", ~overwritten
                 PROVE  ClaimBatch = b /\ claim.exact
        BY DEF HolderHasClaim
    <2> QED
        BY DEF Inv, BatchOk, ClaimExact
<1> QED
    BY <1>1, ClaimInvariant, PTL

\* A batch that lets its admission go because its claim was refused or
\* released has no claim in the document.
THEOREM AdmissionsOutliveClaims == Spec => []AdmissionOutlivesClaim
<1>1. Inv => AdmissionOutlivesClaim
    BY DEF Inv, BatchOk, AdmissionOutlivesClaim
<1> QED
    BY <1>1, ClaimInvariant, PTL

\* Two releases of one claim change the models of the host at the same time
\* only when one of them is the recovery.
THEOREM FinalizersAlternate == Spec => []FinalizersTakeTurns
<1>1. Inv => FinalizersTakeTurns
    BY DEF Inv, Apart, FinalizersTakeTurns
<1> QED
    BY <1>1, ClaimInvariant, PTL

\* A claim on a host that is marked as benchmarking ends with a capture
\* that failed or under the token of a finalizer, and gets a new token from
\* the release that read the old one; every other step keeps it.
LEMMA ClaimChanges ==
    ASSUME Typed, Inv, [Next]_vars, claim # None, status = "benchmarking"
    PROVE  \/ UNCHANGED <<ClaimBatch, ClaimToken>>
           \/ \E b \in Batches : ClaimBatch = b /\ call[b].phase = "capture"
           \/ \E r \in Releasers : rel[r].phase = "mutating" /\ ClaimBatch = rel[r].batch
                                   /\ ClaimToken = r
           \/ /\ UNCHANGED ClaimBatch
              /\ \E r \in Releasers : /\ rel[r].phase = "read" /\ ClaimToken = rel[r].seen
                                      /\ ClaimToken' = r
<1> DEFINE Kept == UNCHANGED <<ClaimBatch, ClaimToken>>
<1>1. claim' = claim => Kept
    BY ClaimKept
<1>2. ClaimToken = claim.token
    BY DEF ClaimToken
<1>3. ASSUME NEW b \in Batches, ClaimCas(b) PROVE Kept
    <2>1. call[b].status \in Neutral
        BY <1>3 DEF Inv, BatchOk, ClaimCas
    <2>2. claim' = claim
        BY <1>3, <2>1 DEF ClaimCas, Neutral
    <2> QED
        BY <1>1, <2>2
<1>4. ASSUME NEW b \in Batches, AttachSnapshot(b) PROVE Kept
    BY <1>1, <1>4, ClaimGetsSnapshot DEF AttachSnapshot, Typed
<1>5. ASSUME NEW b \in Batches, CaptureFails(b)
      PROVE  Kept \/ (ClaimBatch = b /\ call[b].phase = "capture")
    BY <1>1, <1>5 DEF CaptureFails, ClaimOf
<1>6. ASSUME NEW b \in Batches, Heartbeat(b) PROVE Kept
    BY <1>6, ClaimAges DEF Heartbeat, Typed
<1>7. CASE HeartbeatLapses
    BY <1>7, ClaimAges DEF HeartbeatLapses, Typed
<1>8. ASSUME NEW r \in Releasers, RenewToken(r) PROVE Kept
    BY <1>8, ClaimAges DEF RenewToken, Typed
<1>9. ASSUME NEW r \in Releasers, TakeToken(r)
      PROVE  /\ UNCHANGED ClaimBatch
             /\ rel[r].phase = "read" /\ ClaimToken = rel[r].seen /\ ClaimToken' = r
    BY <1>2, <1>9, ClaimGetsToken DEF TakeToken, Takes, Typed
<1>10. ASSUME NEW r \in Releasers, ClearClaim(r)
       PROVE  \/ Kept
              \/ rel[r].phase = "mutating" /\ ClaimBatch = rel[r].batch /\ ClaimToken = r
    BY <1>1, <1>2, <1>10 DEF ClearClaim, Fenced, ClaimOf
<1>11. ASSUME NEW b \in Batches, Batch(b)
       PROVE  Kept \/ (ClaimBatch = b /\ call[b].phase = "capture")
    <2>1. \/ ClaimCas(b) \/ AttachSnapshot(b) \/ CaptureFails(b) \/ Heartbeat(b)
          \/ claim' = claim
        BY <1>11 DEF Batch, Admit, AdmissionLapses, EndAdmission, RecoveryEnds, ClaimAssert,
                     ClaimRead, BatchEnds, LosesClaimAnswer, Dies, LosesReleaseAnswer,
                     AsksForReceipt, Becomes
    <2> QED
        BY <1>1, <1>3, <1>4, <1>5, <1>6, <2>1
<1>12. ASSUME NEW r \in Releasers, Release(r)
       PROVE  \/ RenewToken(r) \/ TakeToken(r) \/ ClearClaim(r) \/ claim' = claim
    BY <1>12 DEF Release, OwnerRelease, RecoveryRelease, Reap, TokenRefused, AssertFence, Mutated
<1>13. CASE \E s \in Sessions : Session(s)
    BY <1>13, <1>1 DEF Session, AcquireSessionHold, TouchSessionHold, ReleaseSessionHold, HoldUnchanged
<1>14. CASE Reconciler \/ SessionHoldLapses
    BY <1>14, <1>1, ReconcilerTyped
<1>15. CASE CoreRestarts \/ UNCHANGED vars
    BY <1>15, <1>1 DEF CoreRestarts, vars
<1> QED
    BY <1>1, <1>7, <1>8, <1>9, <1>10, <1>11, <1>12, <1>13, <1>14, <1>15 DEF Next

\* The claim of a batch whose admission is alive ends only by its own release
\* or because its own call could not capture the runtime.
THEOREM LiveClaimsKept == Spec => LiveClaimKept
<1> DEFINE Safe == \A b \in Batches :
          /\ ClaimBatch = b /\ admission[b] = "active" /\ ~overwritten
          /\ claim' = None \/ claim'.batch # b
          => \/ call[b].phase = "capture"
             \/ \E r \in Releasers : /\ claim.token = r /\ rel[r].batch = b
                                     /\ rel[r].mode \in {"owner", "unheard"}
<1>1. ASSUME Typed, Inv, [Next]_vars
      PROVE  Safe
    <2> SUFFICES ASSUME NEW b \in Batches, ClaimBatch = b, admission[b] = "active", ~overwritten,
                        claim' = None \/ claim'.batch # b
                 PROVE  \/ call[b].phase = "capture"
                        \/ \E r \in Releasers : /\ claim.token = r /\ rel[r].batch = b
                                                /\ rel[r].mode \in {"owner", "unheard"}
        OBVIOUS
    <2>1. claim # None /\ claim.token = ClaimToken /\ status = "benchmarking"
        BY <1>1, ClaimIs, HostClaimsAssumption DEF Typed, Inv, DocumentOk
    <2>2. ClaimBatch' # ClaimBatch
        BY HostClaimsAssumption DEF ClaimBatch
    <2>3. ASSUME NEW r \in Releasers, rel[r].phase = "mutating", ClaimBatch = rel[r].batch
          PROVE  rel[r].mode \in {"owner", "unheard"}
        BY <1>1, <2>3 DEF Inv, ReleaseOk, OfBatch, Typed, TypeOK, Releases
    <2> QED
        BY <1>1, <2>1, <2>2, <2>3, ClaimChanges
<1>2. Typed /\ Inv /\ [Next]_vars => [Safe]_vars
    BY <1>1
<1> QED
    BY <1>2, ClaimInvariant, PTL DEF Spec, LiveClaimKept

\* The token a finalizer left behind is replaced by nobody but the recovery of
\* that workload.
THEOREM TokensKept == Spec => TokenKeptForRecovery
<1> DEFINE Safe ==
          /\ claim # None /\ claim.token # None /\ rel[claim.token].phase = "idle"
          /\ ~overwritten
          => /\ ClaimBatch' = ClaimBatch
             /\ \/ claim'.token = claim.token
                \/ rel[claim'.token].mode = "recovery"
<1>1. ASSUME Typed, Inv, [Next]_vars
      PROVE  Safe
    <2> SUFFICES ASSUME claim # None, claim.token # None, rel[claim.token].phase = "idle", ~overwritten
                 PROVE  /\ ClaimBatch' = ClaimBatch
                        /\ \/ claim'.token = claim.token
                           \/ rel[claim'.token].mode = "recovery"
        OBVIOUS
    <2>1. /\ claim.token = ClaimToken /\ ClaimToken # None /\ ClaimExact
          /\ ClaimBatch \in Batches /\ status = "benchmarking"
        BY <1>1, ClaimIs, HostClaimsAssumption DEF Typed, Inv, DocumentOk
    <2>2. \A b \in Batches : ClaimBatch = b => call[b].phase # "capture"
        BY <1>1, <2>1 DEF Inv, BatchOk
    <2>3. \A r \in Releasers : rel[r].phase = "read" /\ rel[r].seen # None => rel[r].mode = "recovery"
        BY <1>1 DEF Inv, ReleaseOk, OfBatch
    <2>4. /\ UNCHANGED ClaimBatch
          /\ \/ ClaimToken' = ClaimToken
             \/ \E r \in Releasers : rel[r].mode = "recovery" /\ ClaimToken' = r
        BY <1>1, <2>1, <2>2, <2>3, ClaimChanges
    <2>5. claim' # None
        BY <2>1, <2>4, HostClaimsAssumption DEF ClaimBatch
    <2>6. claim'.token = ClaimToken'
        BY <2>5 DEF ClaimToken
    <2> QED
        BY <2>1, <2>4, <2>6
<1>2. Typed /\ Inv /\ [Next]_vars => [Safe]_vars
    BY <1>1
<1> QED
    BY <1>2, ClaimInvariant, PTL DEF Spec, TokenKeptForRecovery

\* What a step may do to an exact claim that has no token: let it grow old, or
\* put a token on it. Only its own batch, while its admission lives, makes it
\* young again.
LEMMA AbandonedStep ==
    ASSUME Typed, Inv, [Next]_vars, NEW b \in Batches, Abandoned(b),
           status = "benchmarking"
    PROVE  /\ ClaimBatch' = b /\ claim'.exact
           /\ claim.stale => claim'.stale \/ claim'.token # None
<1>1. /\ claim # None /\ claim \in Claims /\ ClaimExact /\ ClaimToken = None
      /\ call[b].phase = "none" /\ ClaimBatch = b
    BY ClaimIs, HostClaimsAssumption DEF Abandoned, Typed, Inv, BatchOk
<1> DEFINE goal == /\ ClaimBatch' = b /\ claim'.exact
                   /\ claim.stale => claim'.stale \/ claim'.token # None
<1>2. ASSUME claim' = claim PROVE goal
    BY <1>1, <1>2 DEF ClaimBatch, ClaimExact
<1>3. ASSUME NEW s \in BOOLEAN, s \/ ~claim.stale, claim' = [claim EXCEPT !.stale = s] PROVE goal
    <2>1. claim'.batch = claim.batch /\ claim'.exact = claim.exact /\ claim'.stale = s
        BY <1>1, <1>3 DEF Claims
    <2>2. claim' # None
        BY <1>1, <1>3, ClaimAges, HostClaimsAssumption DEF Typed
    <2> QED
        BY <1>1, <1>3, <2>1, <2>2 DEF ClaimBatch, ClaimExact
<1>4. ASSUME NEW c \in Batches, Batch(c) PROVE claim' = claim
    <2>1. CASE ClaimCas(c)
        <3>1. call[c].status \in Neutral
            BY <2>1 DEF Inv, BatchOk, ClaimCas
        <3> QED
            BY <2>1, <3>1 DEF ClaimCas, Neutral
    <2>2. CASE AttachSnapshot(c) \/ CaptureFails(c)
        BY <1>1, <2>2 DEF AttachSnapshot, CaptureFails, ClaimOf
    <2>3. CASE Heartbeat(c)
        BY <1>1, <2>3 DEF Heartbeat, ClaimOf, Abandoned
    <2> QED
        BY <1>4, <2>1, <2>2, <2>3
        DEF Batch, Admit, AdmissionLapses, EndAdmission, RecoveryEnds, ClaimAssert,
            ClaimRead, BatchEnds, LosesClaimAnswer, Dies, LosesReleaseAnswer,
            AsksForReceipt, Becomes
<1>5. ASSUME NEW r \in Releasers, Release(r) PROVE goal
    <2>1. CASE TakeToken(r)
        <3>1. claim' = [claim EXCEPT !.token = r, !.stale = FALSE]
            BY <2>1 DEF TakeToken
        <3>2. /\ claim'.batch = claim.batch /\ claim'.exact = claim.exact /\ claim'.token = r
              /\ claim' # None
            BY <1>1, <3>1, ClaimGetsToken, HostClaimsAssumption DEF Claims, Typed
        <3> QED
            BY <1>1, <3>2, HostClaimsAssumption DEF ClaimBatch, ClaimExact
    <2>2. CASE RenewToken(r) \/ ClearClaim(r)
        <3>1. ~Fenced(r)
            BY <1>1, HostClaimsAssumption DEF Fenced, ClaimToken
        <3> QED
            BY <1>2, <2>2, <3>1 DEF RenewToken, ClearClaim
    <2> QED
        BY <1>2, <1>5, <2>1, <2>2
        DEF Release, OwnerRelease, RecoveryRelease, Reap, TokenRefused, AssertFence, Mutated
<1>6. CASE HeartbeatLapses
    BY <1>3, <1>6 DEF HeartbeatLapses
<1>7. CASE \E s \in Sessions : Session(s)
    BY <1>2, <1>7 DEF Session, AcquireSessionHold, TouchSessionHold, ReleaseSessionHold, HoldUnchanged
<1>8. CASE Reconciler \/ SessionHoldLapses
    BY <1>2, <1>8, ReconcilerTyped DEF Typed
<1>9. CASE CoreRestarts \/ UNCHANGED vars
    BY <1>2, <1>9 DEF CoreRestarts, vars
<1> QED
    BY <1>2, <1>4, <1>5, <1>6, <1>7, <1>8, <1>9 DEF Next

\* The claim of a workload that is over waits for the reaper as it is: neither
\* its batch nor another one nor a restart of Core renews, clears or replaces
\* it on a host marked as benchmarking.
THEOREM AbandonedClaimsOnlyAge == Spec => AbandonedOnlyAges
<1> DEFINE Safe == \A b \in Batches :
          Abandoned(b) /\ status = "benchmarking"
          => /\ ClaimBatch' = b /\ claim'.exact /\ admission'[b] = "ended"
             /\ claim.stale => claim'.stale \/ claim'.token # None
<1>1. ASSUME Typed, Inv, [Next]_vars
      PROVE  Safe
    <2> SUFFICES ASSUME NEW b \in Batches, Abandoned(b), status = "benchmarking"
                 PROVE  /\ ClaimBatch' = b /\ claim'.exact /\ admission'[b] = "ended"
                        /\ claim.stale => claim'.stale \/ claim'.token # None
        OBVIOUS
    <2>1. admission'[b] = "ended"
        <3>1. admission[b] = "ended" /\ admission \in [Batches -> {"none", "active", "quarantined", "ended"}]
            BY <1>1 DEF Abandoned, Typed, TypeOK
        <3>2. \/ UNCHANGED admission
              \/ \E c \in Batches : Admit(c) \/ AdmissionLapses(c) \/ EndAdmission(c) \/ RecoveryEnds(c)
            BY <1>1, ReconcilerTyped
            DEF Next, Batch, ClaimAssert, ClaimRead, ClaimCas, AttachSnapshot, CaptureFails, Heartbeat,
                BatchEnds, LosesClaimAnswer, Dies, LosesReleaseAnswer, AsksForReceipt, Becomes,
                Release, OwnerRelease, RecoveryRelease, Reap, TakeToken, TokenRefused, RenewToken,
                AssertFence, Mutated, ClearClaim, Session, AcquireSessionHold, TouchSessionHold,
                ReleaseSessionHold, HoldUnchanged, SessionHoldLapses, HeartbeatLapses, vars,
                CopyLapses, Reconciler, TickUnchanged, TickSnapshot, TickHostDown, TickSkips,
                TickExpiresHold, TickMarksReady, TickDefers, TickBeginsRestore, TickVetoed,
                TickRechecks, TickMarksRestoring, TickWarms, CoreRestarts
        <3> QED
            BY <3>1, <3>2 DEF Admit, AdmissionLapses, EndAdmission, RecoveryEnds
    <2> QED
        BY <1>1, <2>1, AbandonedStep
<1>2. Typed /\ Inv /\ [Next]_vars => [Safe]_vars
    BY <1>1
<1> QED
    BY <1>2, ClaimInvariant, PTL DEF Spec, AbandonedOnlyAges
=============================================================================
