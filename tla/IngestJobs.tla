------------------------------ MODULE IngestJobs ------------------------------
(***************************************************************************)
(* The ingest-scan jobs of RAG (rag/src/services/ingestJobManager.js, the  *)
(* routes of rag/routes/rag.js that start and cancel them, and             *)
(* rag/src/services/ingestWorker.js).                                      *)
(*                                                                         *)
(* A request creates a job and starts a scan in the background.  The scan  *)
(* lists the files that need indexing and ingests them one by one.  The    *)
(* job and its scan are separate: cancelling marks the job and frees the   *)
(* slot at once, while the scan goes on until it next looks at the mark.   *)
(*                                                                         *)
(* Jobs live in the memory of one process and are lost with it.            *)
(***************************************************************************)
EXTENDS Integers, FiniteSets

CONSTANTS
    Job,  \* the jobs that requests create
    None, \* activeJobId: null
    File  \* records of nas_files

ASSUME NoneIsNoJob == None \notin Job

VARIABLES
    jobs,        \* the status of each job in the jobs map
    activeJobId,
    scan,        \* the background run of each job
    indexed      \* files that need no indexing

vars == <<jobs, activeJobId, scan, indexed>>

Status == {"running", "completed", "failed", "cancelled"}
NotRun == [pc |-> "none", todo |-> {}]
Scan == [pc : {"none", "listing", "scanning", "processing", "ended"},
         todo : SUBSET File]

Move(j, pc, todo) == scan' = [scan EXCEPT ![j] = [pc |-> pc, todo |-> todo]]

-----------------------------------------------------------------------------
(* ingestJobManager                                                        *)

CreateJob(j) ==
    /\ activeJobId = None
    /\ jobs[j] = "none"
    /\ jobs' = [jobs EXCEPT ![j] = "running"]
    /\ activeJobId' = j

FreeAnySlot(j) == activeJobId' = None

KeepSlot(j) == activeJobId' = activeJobId

FreeSlot(j) == activeJobId' = IF activeJobId = j THEN None ELSE activeJobId

CompleteJob(j) == jobs' = [jobs EXCEPT ![j] = "completed"] /\ FreeSlot(j)

FailJob(j) == jobs' = [jobs EXCEPT ![j] = "failed"] /\ FreeSlot(j)

-----------------------------------------------------------------------------
(* The routes and the scan.                                                *)

StartScan(j) ==
    /\ CreateJob(j)
    /\ Move(j, "listing", {})
    /\ UNCHANGED indexed

\* DELETE /ingest-scan/:jobId
Cancel(j) ==
    /\ jobs[j] = "running"
    /\ jobs' = [jobs EXCEPT ![j] = "cancelled"]
    /\ FreeSlot(j)
    /\ UNCHANGED <<scan, indexed>>

ListCandidates(j) ==
    /\ scan[j].pc = "listing"
    /\ Move(j, "scanning", File \ indexed)
    /\ UNCHANGED <<jobs, activeJobId, indexed>>

\* isCancelled is asked before each record.
TakeRecord(j) ==
    /\ scan[j].pc = "scanning"
    /\ jobs[j] # "cancelled"
    /\ scan[j].todo # {}
    /\ Move(j, "processing", scan[j].todo)
    /\ UNCHANGED <<jobs, activeJobId, indexed>>

\* A record that fails is counted and the scan goes on.
ProcessRecord(j, f) ==
    /\ scan[j].pc = "processing"
    /\ f \in scan[j].todo
    /\ indexed' \in {indexed, indexed \cup {f}}
    /\ Move(j, "scanning", scan[j].todo \ {f})
    /\ UNCHANGED <<jobs, activeJobId>>

ScanEndsUnchecked(j) ==
    /\ scan[j].pc = "scanning"
    /\ scan[j].todo = {} \/ jobs[j] = "cancelled"
    /\ Move(j, "ended", scan[j].todo)
    /\ CompleteJob(j)
    /\ UNCHANGED indexed

\* The loop breaks or ends, and .then completes a job not cancelled.
ScanEnds(j) ==
    /\ scan[j].pc = "scanning"
    /\ scan[j].todo = {} \/ jobs[j] = "cancelled"
    /\ Move(j, "ended", scan[j].todo)
    /\ IF jobs[j] = "cancelled" THEN UNCHANGED <<jobs, activeJobId>>
                                ELSE CompleteJob(j)
    /\ UNCHANGED indexed

\* A root is unavailable, the listing fails, or the error of a record cannot
\* be written; .catch does not look at the status.
ScanFails(j) ==
    /\ scan[j].pc \in {"listing", "processing"}
    /\ Move(j, "ended", scan[j].todo)
    /\ FailJob(j)
    /\ UNCHANGED indexed

\* A new version of the file appears.
FileChanges(f) ==
    /\ f \in indexed
    /\ indexed' = indexed \ {f}
    /\ UNCHANGED <<jobs, activeJobId, scan>>

-----------------------------------------------------------------------------
Init ==
    /\ jobs = [j \in Job |-> "none"]
    /\ activeJobId = None
    /\ scan = [j \in Job |-> NotRun]
    /\ indexed = {}

ScanStep(j) ==
    \/ ListCandidates(j)
    \/ TakeRecord(j)
    \/ \E f \in File : ProcessRecord(j, f)
    \/ ScanEnds(j)

Next ==
    \/ \E j \in Job : StartScan(j) \/ Cancel(j) \/ ScanStep(j) \/ ScanFails(j)
    \/ \E f \in File : FileChanges(f)

Spec == Init /\ [][Next]_vars

\* The background promise runs on, and each of its awaits settles.
FairSpec == Spec /\ \A j \in Job : WF_vars(ScanStep(j) \/ ScanFails(j))

-----------------------------------------------------------------------------
(* Properties.                                                             *)

\* Every variable has its type, and a job exists when its scan does.
TypeOK ==
    /\ jobs \in [Job -> Status \cup {"none"}]
    /\ activeJobId \in Job \cup {None}
    /\ scan \in [Job -> Scan]
    /\ indexed \subseteq File
    /\ \A j \in Job : jobs[j] = "none" <=> scan[j].pc = "none"

UnderWay(j) == scan[j].pc \in {"listing", "scanning", "processing"}

\* The slot names the one job that is running: neither is a second job
\* accepted nor a job refused for one that has ended.  Its scan is under way,
\* so the slot will be given back; any other scan under way is that of a job
\* that was cancelled and has not noticed yet.
SlotIsRunningJob ==
    \A j \in Job :
        /\ jobs[j] = "running" <=> activeJobId = j
        /\ jobs[j] = "running" => UnderWay(j)
        /\ UnderWay(j) /\ activeJobId # j => jobs[j] = "cancelled"

\* A job that says completed went through every file it listed.
CompletedIsComplete ==
    \A j \in Job :
        jobs[j] = "completed" => scan[j] = [pc |-> "ended", todo |-> {}]

\* What a client reads of a job that has ended is final, but for one case: a
\* rejection that arrives after the cancellation turns "cancelled" into
\* "failed".  The slot, which may be another job's by then, is not touched.
EndedJobStays ==
    [][\A j \in Job :
          /\ jobs[j] \in {"completed", "failed"} => jobs'[j] = jobs[j]
          /\ jobs[j] = "cancelled" /\ jobs'[j] # jobs[j]
                => jobs'[j] = "failed" /\ activeJobId' = activeJobId]_vars

\* The slot is given back, whatever the scan meets.
SlotIsFreed == \A j \in Job : activeJobId = j ~> activeJobId # j

-----------------------------------------------------------------------------
(* What comments and documents say, and the code does not do.              *)

\* "Max 1 concurrent scan" (rag/API.md:140).
OneScan ==
    Cardinality({j \in Job : scan[j].pc \notin {"none", "ended"}}) <= 1

\* "already cancelled" (rag/routes/rag.js:305): the end of its scan does not
\* change the status of a job that was cancelled.
CancelledStaysCancelled ==
    [][\A j \in Job : jobs[j] = "cancelled" => jobs'[j] = "cancelled"]_vars
=============================================================================
