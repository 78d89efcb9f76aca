-------------------------- MODULE IngestJobsProofs --------------------------
(***************************************************************************)
(* Theorems of IngestJobs: the types, the slot, what "completed" means and *)
(* what stays of a job that has ended, for any jobs and files.             *)
(***************************************************************************)
EXTENDS IngestJobs, TLAPS

\* The three statements hold each other up: a scan that ends gives back the
\* slot only if it is its own, and the slot says that its job still runs.
JobInv == TypeOK /\ SlotIsRunningJob /\ CompletedIsComplete

LEMMA InitJobs == Init => JobInv
BY NoneIsNoJob DEF Init, JobInv, TypeOK, SlotIsRunningJob, UnderWay,
                   CompletedIsComplete, Scan, NotRun

\* What a step of a scan leaves in its record.
LEMMA MoveTyped ==
    ASSUME JobInv, NEW j \in Job, NEW pc \in {"listing", "scanning", "processing", "ended"},
           NEW todo \in SUBSET File, Move(j, pc, todo)
    PROVE  /\ scan' \in [Job -> Scan]
           /\ scan'[j] = [pc |-> pc, todo |-> todo]
           /\ \A k \in Job \ {j} : scan'[k] = scan[k]
BY DEF JobInv, TypeOK, Move, Scan

\* A scan under way has not completed its job yet, and no job lost its record.
LEMMA ScanKnows ==
    ASSUME JobInv, NEW j \in Job
    PROVE  /\ scan[j].todo \in SUBSET File
           /\ scan[j].pc \in {"listing", "scanning", "processing"}
                 => jobs[j] \notin {"none", "completed"}
BY DEF JobInv, TypeOK, CompletedIsComplete, Scan

LEMMA KeepsJobInv == JobInv /\ [Next]_vars => JobInv'
<1> SUFFICES ASSUME JobInv, [Next]_vars PROVE JobInv'
    OBVIOUS
<1>1. ASSUME NEW j \in Job, StartScan(j) PROVE JobInv'
    <2>1. /\ scan' \in [Job -> Scan]
          /\ scan'[j] = [pc |-> "listing", todo |-> {}]
          /\ \A k \in Job \ {j} : scan'[k] = scan[k]
        BY <1>1, MoveTyped DEF StartScan
    <2>a. TypeOK'
        <3>1. \A k \in Job : jobs'[k] = "none" <=> scan'[k].pc = "none"
            BY <1>1, <2>1, NoneIsNoJob DEF StartScan, CreateJob, JobInv, TypeOK
        <3> QED
            BY <1>1, <2>1, NoneIsNoJob, <3>1 DEF StartScan, CreateJob, JobInv, TypeOK, Status
    <2>b. SlotIsRunningJob'
        BY <1>1, <2>1, NoneIsNoJob DEF StartScan, CreateJob, JobInv, TypeOK, SlotIsRunningJob, UnderWay
    <2>c. CompletedIsComplete'
        BY <1>1, <2>1, NoneIsNoJob DEF StartScan, CreateJob, JobInv, TypeOK, CompletedIsComplete
    <2> QED
        BY <2>a, <2>b, <2>c DEF JobInv
<1>2. ASSUME NEW j \in Job, Cancel(j) PROVE JobInv'
    BY <1>2, NoneIsNoJob DEF Cancel, FreeSlot,
           JobInv, TypeOK, SlotIsRunningJob, UnderWay, CompletedIsComplete, Status
<1>3. ASSUME NEW j \in Job, ListCandidates(j) PROVE JobInv'
    <2>1. /\ scan' \in [Job -> Scan]
          /\ scan'[j] = [pc |-> "scanning", todo |-> File \ indexed]
          /\ \A k \in Job \ {j} : scan'[k] = scan[k]
        BY <1>3, MoveTyped DEF ListCandidates
    <2> QED
        BY <1>3, <2>1, ScanKnows DEF ListCandidates,
               JobInv, TypeOK, SlotIsRunningJob, UnderWay, CompletedIsComplete, Status
<1>4. ASSUME NEW j \in Job, TakeRecord(j) PROVE JobInv'
    <2>1. /\ scan' \in [Job -> Scan]
          /\ scan'[j] = [pc |-> "processing", todo |-> scan[j].todo]
          /\ \A k \in Job \ {j} : scan'[k] = scan[k]
        BY <1>4, MoveTyped, ScanKnows DEF TakeRecord
    <2> QED
        BY <1>4, <2>1, ScanKnows DEF TakeRecord,
               JobInv, TypeOK, SlotIsRunningJob, UnderWay, CompletedIsComplete, Status
<1>5. ASSUME NEW j \in Job, NEW f \in File, ProcessRecord(j, f) PROVE JobInv'
    <2>0. scan[j].todo \ {f} \in SUBSET File
        BY ScanKnows
    <2>1. /\ scan' \in [Job -> Scan]
          /\ scan'[j] = [pc |-> "scanning", todo |-> scan[j].todo \ {f}]
          /\ \A k \in Job \ {j} : scan'[k] = scan[k]
        BY <1>5, <2>0, MoveTyped DEF ProcessRecord
    <2>a. TypeOK'
        <3>1. \A k \in Job : jobs'[k] = "none" <=> scan'[k].pc = "none"
            BY <1>5, <2>1, ScanKnows DEF ProcessRecord, JobInv, TypeOK
        <3> QED
            BY <1>5, <2>1, ScanKnows, <3>1 DEF ProcessRecord, JobInv, TypeOK, Status
    <2>b. SlotIsRunningJob'
        BY <1>5, <2>1, ScanKnows DEF ProcessRecord, JobInv, TypeOK, SlotIsRunningJob, UnderWay
    <2>c. CompletedIsComplete'
        BY <1>5, <2>1, ScanKnows DEF ProcessRecord, JobInv, TypeOK, CompletedIsComplete
    <2> QED
        BY <2>a, <2>b, <2>c DEF JobInv
<1>6. ASSUME NEW j \in Job, ScanEnds(j) PROVE JobInv'
    <2>1. /\ scan' \in [Job -> Scan]
          /\ scan'[j] = [pc |-> "ended", todo |-> scan[j].todo]
          /\ \A k \in Job \ {j} : scan'[k] = scan[k]
        BY <1>6, MoveTyped, ScanKnows DEF ScanEnds
    <2>2. CASE jobs[j] = "cancelled"
        BY <1>6, <2>1, <2>2 DEF ScanEnds,
               JobInv, TypeOK, SlotIsRunningJob, UnderWay, CompletedIsComplete, Status
    <2>3. CASE jobs[j] # "cancelled"
        <3>1. scan[j].todo = {} /\ jobs[j] # "none"
            BY <1>6, <2>3, ScanKnows DEF ScanEnds,
                   JobInv, TypeOK, SlotIsRunningJob, UnderWay, CompletedIsComplete, Status
        <3>a. TypeOK'
            <4>1. \A k \in Job : jobs'[k] = "none" <=> scan'[k].pc = "none"
                BY <1>6, <2>1, <2>3, <3>1, NoneIsNoJob DEF ScanEnds, CompleteJob, FreeSlot, JobInv, TypeOK
            <4> QED
                BY <1>6, <2>1, <2>3, <3>1, NoneIsNoJob, <4>1 DEF ScanEnds, CompleteJob, FreeSlot, JobInv, TypeOK, Status
        <3>b. SlotIsRunningJob'
            BY <1>6, <2>1, <2>3, <3>1, NoneIsNoJob DEF ScanEnds, CompleteJob, FreeSlot, JobInv, TypeOK, SlotIsRunningJob, UnderWay
        <3>c. CompletedIsComplete'
            BY <1>6, <2>1, <2>3, <3>1, NoneIsNoJob DEF ScanEnds, CompleteJob, FreeSlot, JobInv, TypeOK, CompletedIsComplete
        <3> QED
            BY <3>a, <3>b, <3>c DEF JobInv
    <2> QED
        BY <2>2, <2>3
<1>7. ASSUME NEW j \in Job, ScanFails(j) PROVE JobInv'
    <2>1. /\ scan' \in [Job -> Scan]
          /\ scan'[j] = [pc |-> "ended", todo |-> scan[j].todo]
          /\ \A k \in Job \ {j} : scan'[k] = scan[k]
        BY <1>7, MoveTyped, ScanKnows DEF ScanFails
    <2>a. TypeOK'
        <3>1. \A k \in Job : jobs'[k] = "none" <=> scan'[k].pc = "none"
            BY <1>7, <2>1, ScanKnows, NoneIsNoJob DEF ScanFails, FailJob, FreeSlot, JobInv, TypeOK
        <3> QED
            BY <1>7, <2>1, ScanKnows, NoneIsNoJob, <3>1 DEF ScanFails, FailJob, FreeSlot, JobInv, TypeOK, Status
    <2>b. SlotIsRunningJob'
        BY <1>7, <2>1, ScanKnows, NoneIsNoJob DEF ScanFails, FailJob, FreeSlot, JobInv, TypeOK, SlotIsRunningJob, UnderWay
    <2>c. CompletedIsComplete'
        BY <1>7, <2>1, ScanKnows, NoneIsNoJob DEF ScanFails, FailJob, FreeSlot, JobInv, TypeOK, CompletedIsComplete
    <2> QED
        BY <2>a, <2>b, <2>c DEF JobInv
<1>8. ASSUME NEW f \in File, FileChanges(f) PROVE JobInv'
    BY <1>8 DEF FileChanges,
           JobInv, TypeOK, SlotIsRunningJob, UnderWay, CompletedIsComplete, Status
<1>9. CASE UNCHANGED vars
    BY <1>9 DEF vars, JobInv, TypeOK, SlotIsRunningJob, UnderWay, CompletedIsComplete, Status
<1> QED
    BY <1>1, <1>2, <1>3, <1>4, <1>5, <1>6, <1>7, <1>8, <1>9 DEF Next, ScanStep

\* A job that has ended stays as it is, unless a rejection was on its way.
EndedStays ==
    \A j \in Job :
        /\ jobs[j] \in {"completed", "failed"} => jobs'[j] = jobs[j]
        /\ jobs[j] = "cancelled" /\ jobs'[j] # jobs[j]
              => jobs'[j] = "failed" /\ activeJobId' = activeJobId

LEMMA EndedStep ==
    ASSUME JobInv, [Next]_vars
    PROVE  EndedStays
<1>0. \A k \in Job : UnderWay(k) => jobs[k] \in {"running", "cancelled"}
    BY DEF JobInv, SlotIsRunningJob
<1>1. ASSUME NEW j \in Job, StartScan(j) PROVE EndedStays
    BY <1>1 DEF StartScan, CreateJob, EndedStays, JobInv, TypeOK
<1>2. ASSUME NEW j \in Job, Cancel(j) PROVE EndedStays
    BY <1>2 DEF Cancel, EndedStays, JobInv, TypeOK
<1>3. ASSUME NEW j \in Job, ListCandidates(j) \/ TakeRecord(j) \/ \E f \in File : ProcessRecord(j, f)
      PROVE  EndedStays
    BY <1>3 DEF ListCandidates, TakeRecord, ProcessRecord, EndedStays
<1>4. ASSUME NEW j \in Job, ScanEnds(j) PROVE EndedStays
    BY <1>0, <1>4 DEF ScanEnds, CompleteJob, UnderWay, EndedStays, JobInv, TypeOK
<1>5. ASSUME NEW j \in Job, ScanFails(j) PROVE EndedStays
    <2>1. jobs[j] \in {"running", "cancelled"} /\ jobs' = [jobs EXCEPT ![j] = "failed"]
          /\ activeJobId' = IF activeJobId = j THEN None ELSE activeJobId
        BY <1>0, <1>5 DEF ScanFails, FailJob, FreeSlot, UnderWay
    <2>2. jobs[j] = "cancelled" => activeJobId # j
        BY DEF JobInv, SlotIsRunningJob
    <2> QED
        BY <2>1, <2>2 DEF EndedStays, JobInv, TypeOK
<1>6. CASE (\E f \in File : FileChanges(f)) \/ UNCHANGED vars
    BY <1>6 DEF FileChanges, vars, EndedStays
<1> QED
    BY <1>1, <1>2, <1>3, <1>4, <1>5, <1>6 DEF Next, ScanStep

\* The types, the slot and the progress of every job, together, for any jobs.
THEOREM JobInvariant == Spec => []JobInv
BY InitJobs, KeepsJobInv, PTL DEF Spec

\* The types of the job table, the slot and the scans, for any jobs and files.
THEOREM JobsTyped == Spec => []TypeOK
BY JobInvariant, PTL DEF JobInv

\* The slot of ingestJobManager names the one job that says running, whatever
\* scans of cancelled jobs still do.
THEOREM SlotNamesRunningJob == Spec => []SlotIsRunningJob
BY JobInvariant, PTL DEF JobInv

\* A job that says completed has gone through every file it listed.
THEOREM CompletedJobsAreComplete == Spec => []CompletedIsComplete
BY JobInvariant, PTL DEF JobInv

\* No end of a scan, however late, changes what a client has read of an ended
\* job, except that a rejection turns a cancelled job into a failed one; and
\* that one gives away no other job's slot.
THEOREM EndedJobsStay == Spec => EndedJobStays
<1>1. JobInv /\ [Next]_vars => [EndedStays]_vars
    BY EndedStep
<1> QED
    BY <1>1, JobInvariant, PTL DEF Spec, EndedJobStays, EndedStays
=============================================================================
