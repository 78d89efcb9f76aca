--------------------------- MODULE BatchLifecycle ---------------------------
(***************************************************************************)
(* One benchmark batch: the document other requests read and write, and   *)
(* the runs (executeBatch) that fill it.  A run locks the document, loads *)
(* its checkpoint, answers the cells it finds missing in one lane         *)
(* (latency mode) or in one lane per host (throughput mode), counts them  *)
(* in memory, flushes the count with $inc, and at the end derives the     *)
(* outcome of the batch from the counter.  Meanwhile the batch can be     *)
(* stopped, recovered, reconciled and resumed, a run can lose its claim,  *)
(* and the process can die.                                               *)
(*                                                                         *)
(* A database read or write is one step; what a handler or a lane keeps   *)
(* in a variable over an await is a field of its record.  Strict Trust     *)
(* batches, judge counters and the singleton index are left out, and so   *)
(* are database errors and the ten-minute take-over of a dead lock.       *)
(***************************************************************************)
EXTENDS Integers, FiniteSets, FiniteSetsExt

CONSTANTS
    NumCells,     \* cells (model, prompt, repeat) the batch plans
    Lanes,        \* how many tasks of a run go on at once: 1 in latency mode
    MaxRuns,      \* bound: the first run and the resumes
    Calls,        \* requests that may be under way at once
    MaxDeaths     \* bound: ends of the process

Cells == 1 .. NumCells
Runs == 1 .. MaxRuns
LaneIds == 0 .. Lanes - 1

ASSUME BatchAssumption ==
    /\ {NumCells, Lanes, MaxRuns} \subseteq Nat \ {0}
    /\ MaxDeaths \in Nat
    /\ IsFiniteSet(Calls)

VARIABLES
    batch,    \* the document
    rows,     \* how many result rows each cell has
    run,      \* the calls of executeBatch
    lane,     \* the host tasks of each run
    call,     \* the requests under way
    deaths,   \* how often the process ended
    booting,  \* the clean-up that follows a start has not run yet
    faults    \* history: what has disturbed the batch so far

vars == <<batch, rows, run, lane, call, deaths, booting, faults>>

Terminal == {"completed", "failed", "stopped", "interrupted"}

\* "orderly": a request or SIGTERM came between.  "hard": the process was
\* killed, a run lost its claim or its admission, two runs overlapped, or a
\* stop aborted the run of a resume that had overtaken it.
Faults == {"none", "orderly", "hard"}
Orderly == IF faults = "hard" THEN "hard" ELSE "orderly"
Alive == {"lock", "load", "tasks", "judge", "final", "finalize", "crash"}

Batches == [status : Terminal \cup {"none", "running"}, completed : Nat,
            locked : BOOLEAN, checkpoint : SUBSET Cells]

RunStates == [phase : Alive \cup {"unused", "done"},
              stopped : BOOLEAN,          \* executionState.stopped
              aborted : BOOLEAN,          \* the cancellation signal
              lost : BOOLEAN,             \* the claim or admission is gone
              pending : Nat,              \* pendingBatchProgress.completed
              due : BOOLEAN,              \* its threshold or age is reached
              done : SUBSET Cells,        \* completedPairs, as loaded
              outcome : {"completed", "failed"}]

LaneStates == [pc : {"idle", "request", "saved", "flushing", "persisted", "out"},
               cell : Cells \cup {0},     \* the cell at hand, or the last one
               taken : Nat]               \* the snapshot being flushed

CallStates == [op : {"idle", "abort", "count", "save", "resume"},
               for : {"stop", "recover", "reconcile", "cleanup"},
               status : Terminal \cup {"none", "running"},  \* as it was loaded
               completed : Nat,                             \* as it was loaded
               locked : BOOLEAN,                            \* as it was loaded
               counts : Nat]

NewRun == [phase |-> "lock", stopped |-> FALSE, aborted |-> FALSE,
           lost |-> FALSE, pending |-> 0, due |-> FALSE, done |-> {}, outcome |-> "failed"]
NewLanes == [l \in LaneIds |-> [pc |-> "idle", cell |-> 0, taken |-> 0]]
NoCall == [op |-> "idle", for |-> "stop", status |-> "none", completed |-> 0,
           locked |-> FALSE, counts |-> 0]

TypeOK ==
    /\ batch \in Batches
    /\ rows \in [Cells -> Nat]
    /\ run \in [Runs -> RunStates]
    /\ lane \in [Runs -> [LaneIds -> LaneStates]]
    /\ call \in [Calls -> CallStates]
    /\ deaths \in 0 .. MaxDeaths
    /\ booting \in BOOLEAN
    /\ faults \in Faults

Init ==
    /\ batch = [status |-> "none", completed |-> 0, locked |-> FALSE, checkpoint |-> {}]
    /\ rows = [c \in Cells |-> 0]
    /\ run = [r \in Runs |-> [NewRun EXCEPT !.phase = "unused"]]
    /\ lane = [r \in Runs |-> NewLanes]
    /\ call = [q \in Calls |-> NoCall]
    /\ deaths = 0
    /\ booting = FALSE
    /\ faults = "none"

-----------------------------------------------------------------------------
Running == {r \in Runs : run[r].phase \in Alive}
Unused == {r \in Runs : run[r].phase = "unused"}

\* The updates that name the statuses they may replace: of the working ones
\* only "running" is ever stored for the batches modelled here.
StatusIfWorking(to) == [batch EXCEPT !.status = IF @ = "running" THEN to ELSE @]

\* A run that is over keeps nothing.
Over == [NewRun EXCEPT !.phase = "done"]
At(r, phase) == IF phase = "done" THEN Over ELSE [run[r] EXCEPT !.phase = phase]
To(r, phase) == run' = [run EXCEPT ![r] = At(r, phase)]

RowCount == MapThenSumSet(LAMBDA c : rows[c], Cells)

Overlap == IF Running = {} THEN faults ELSE "hard"

(***************************************************************************)
(* Starting a batch, and the way of a run to its cells.                    *)
(***************************************************************************)
StartBatch ==
    /\ batch.status = "none"
    /\ batch' = [batch EXCEPT !.status = "running"]
    /\ run' = [run EXCEPT ![1] = NewRun]
    /\ UNCHANGED <<rows, lane, call, deaths, booting, faults>>

\* The lock asks for execution_started_at = null and for no status.
Lock(r) ==
    /\ run[r].phase = "lock"
    /\ batch' = [batch EXCEPT !.locked = TRUE]
    /\ To(r, IF batch.locked THEN "done" ELSE "load")
    /\ UNCHANGED <<rows, lane, call, deaths, booting, faults>>

\* The admission is not renewed: the run throws before it asks for the lock.
AdmissionRefused(r) ==
    /\ run[r].phase = "lock"
    /\ To(r, "done")
    /\ faults' = "hard"
    /\ UNCHANGED <<batch, rows, lane, call, deaths, booting>>

\* The checkpoint is not consulted.
LoadAfresh(r) ==
    /\ run[r].phase = "load"
    /\ To(r, "tasks")
    /\ UNCHANGED <<batch, rows, lane, call, deaths, booting, faults>>

\* Reads the checkpoint, claims the hosts, and registers the controller that
\* a stop aborts: a stop before this step is seen by the status check only.
Load(r) ==
    /\ run[r].phase = "load"
    /\ run' = [run EXCEPT ![r].phase = "tasks", ![r].done = batch.checkpoint]
    /\ UNCHANGED <<batch, rows, lane, call, deaths, booting, faults>>

\* Preparation fails: no host can be claimed, no baseline, no contract.
PrepareFails(r) ==
    /\ run[r].phase = "load"
    /\ To(r, "crash")
    /\ UNCHANGED <<batch, rows, lane, call, deaths, booting, faults>>

-----------------------------------------------------------------------------
(***************************************************************************)
(* A lane: the cells of one host, in order.                                *)
(***************************************************************************)
Ahead(r, l) ==
    {c \in Cells \ run[r].done : c % Lanes = l /\ c > lane[r][l].cell}

In(r, l, pc) == run[r].phase = "tasks" /\ lane[r][l].pc = pc
Moves(r, l, pc) == lane' = [lane EXCEPT ![r][l].pc = pc]
Unwinding(r) == run[r].aborted \/ run[r].lost

\* A stopped lane also stops the others, through executionState.stopped.
SeesStop(r, l) ==
    /\ Moves(r, l, "out")
    /\ run' = [run EXCEPT ![r].stopped = @ \/ ~run[r].lost]

\* The forced status check, the registration and the request: there is no
\* await between the answer of the first and the other two.
Begin(r, l) ==
    /\ In(r, l, "idle") /\ Ahead(r, l) # {}
    /\ IF Unwinding(r) \/ run[r].stopped \/ batch.status = "stopped"
       THEN SeesStop(r, l)
       ELSE /\ lane' = [lane EXCEPT ![r][l].pc = "request", ![r][l].cell = Min(Ahead(r, l))]
            /\ UNCHANGED run
    /\ UNCHANGED <<batch, rows, call, deaths, booting, faults>>

\* The circuit breaker, the early stop or a failed warmup passes a cell over.
Skip(r, l) ==
    /\ In(r, l, "idle") /\ Ahead(r, l) # {}
    /\ lane' = [lane EXCEPT ![r][l].cell = Min(Ahead(r, l))]
    /\ UNCHANGED <<batch, rows, run, call, deaths, booting, faults>>

LaneEnds(r, l) ==
    /\ In(r, l, "idle") /\ Ahead(r, l) = {}
    /\ Moves(r, l, "out")
    /\ UNCHANGED <<batch, rows, run, call, deaths, booting, faults>>

\* The answer, or the error, of the request is stored as a row; a request
\* that was aborted leaves none.
Answer(r, l) ==
    /\ In(r, l, "request")
    /\ IF Unwinding(r)
       THEN SeesStop(r, l) /\ UNCHANGED rows
       ELSE /\ Moves(r, l, "saved")
            /\ rows' = [rows EXCEPT ![lane[r][l].cell] = @ + 1]
            /\ UNCHANGED run
    /\ UNCHANGED <<batch, call, deaths, booting, faults>>

\* queueBatchProgress, and the decision of flushBatchProgress in the same
\* turn: the first cell of a series is never due, a series that is due stays
\* so until a flush resets it.
Queue(r, l) ==
    LET pending == run[r].pending + 1 IN
    /\ In(r, l, "saved")
    /\ ~run[r].lost
    /\ \/ /\ run[r].pending > 0
          /\ run' = [run EXCEPT ![r].pending = pending, ![r].due = TRUE]
          /\ lane' = [lane EXCEPT ![r][l].pc = "flushing", ![r][l].taken = pending]
       \/ /\ ~run[r].due
          /\ run' = [run EXCEPT ![r].pending = pending]
          /\ Moves(r, l, "persisted")
    /\ UNCHANGED <<batch, rows, call, deaths, booting, faults>>

\* The save was answered after an abort: the row is marked invalid, which the
\* authoritative counts do not look at, and is not queued.
Invalidate(r, l) ==
    /\ In(r, l, "saved")
    /\ Unwinding(r)
    /\ SeesStop(r, l)
    /\ UNCHANGED <<batch, rows, call, deaths, booting, faults>>

\* The $inc names no status.  What the lanes queued while it was under way is
\* reset with the rest.
FlushLands(r, l) ==
    /\ In(r, l, "flushing")
    /\ ~run[r].lost
    /\ batch' = [batch EXCEPT !.completed = @ + lane[r][l].taken]
    /\ run' = [run EXCEPT ![r].pending = 0, ![r].due = FALSE]
    /\ lane' = [lane EXCEPT ![r][l].pc = "persisted", ![r][l].taken = 0]
    /\ UNCHANGED <<rows, call, deaths, booting, faults>>

\* The claim went while the count was written: nobody knows whether it was.
FlushInDoubt(r, l) ==
    /\ In(r, l, "flushing")
    /\ run[r].lost
    /\ \E counted \in {0, lane[r][l].taken} :
          batch' = [StatusIfWorking("interrupted") EXCEPT !.completed = @ + counted]
    /\ Moves(r, l, "out")
    /\ UNCHANGED <<rows, run, call, deaths, booting, faults>>

\* The cell is checkpointed unless the run is being stopped by then.
Checkpoint(r, l) ==
    /\ In(r, l, "persisted")
    /\ IF Unwinding(r)
       THEN SeesStop(r, l) /\ UNCHANGED batch
       ELSE /\ batch' = [batch EXCEPT !.checkpoint = @ \cup {lane[r][l].cell}]
            /\ Moves(r, l, "idle")
            /\ UNCHANGED run
    /\ UNCHANGED <<rows, call, deaths, booting, faults>>

-----------------------------------------------------------------------------
(***************************************************************************)
(* The end of a run.                                                       *)
(***************************************************************************)
\* The forced flush, then the forced status check.  A stopped run ends here,
\* as a crash if its claims cannot be released; a run without its claim
\* throws, and sometimes marks the batch first.
Drain(r) ==
    /\ run[r].phase = "tasks"
    /\ \A l \in LaneIds : lane[r][l].pc = "out"
    /\ IF run[r].lost
       THEN /\ batch' \in {StatusIfWorking("interrupted")}
                             \cup (IF run[r].pending = 0 THEN {batch} ELSE {})
            /\ To(r, "done")
       ELSE /\ batch' = [batch EXCEPT !.completed = @ + run[r].pending]
            /\ \E phase \in IF run[r].aborted \/ run[r].stopped \/ batch.status = "stopped"
                            THEN {"done", "crash"} ELSE {"judge"} :
                  run' = [run EXCEPT ![r] = [At(r, phase) EXCEPT !.pending = 0, !.due = FALSE,
                                                                 !.done = {}]]
    /\ lane' = [lane EXCEPT ![r] = NewLanes]
    /\ UNCHANGED <<rows, call, deaths, booting, faults>>

\* Draining the judge queue and releasing the claims; either can fail.
Judge(r) ==
    /\ run[r].phase = "judge"
    /\ \/ run[r].lost /\ To(r, "done")
       \/ ~run[r].lost /\ run[r].aborted /\ (To(r, "done") \/ To(r, "crash"))
       \/ ~Unwinding(r) /\ (To(r, "final") \/ To(r, "crash"))
    /\ UNCHANGED <<batch, rows, lane, call, deaths, booting, faults>>

\* deriveTerminalBatchOutcome: too few cells is "failed"; too many failures
\* is "failed" as well; anything else is "completed".
Outcomes(completed) ==
    IF completed < NumCells THEN {"failed"} ELSE {"completed", "failed"}

FinalRead(r) ==
    /\ run[r].phase = "final"
    /\ \E outcome \in Outcomes(batch.completed) :
          run' = [run EXCEPT ![r].phase = "finalize", ![r].outcome = outcome]
    /\ UNCHANGED <<batch, rows, lane, call, deaths, booting, faults>>

\* The outcome is saved with the document, whatever its status is by now.
FinalizeBySave(r) ==
    /\ run[r].phase = "finalize"
    /\ batch' = [batch EXCEPT !.status = run[r].outcome]
    /\ To(r, "done")
    /\ UNCHANGED <<rows, lane, call, deaths, booting, faults>>

\* One conditional transition.
Finalize(r) ==
    /\ run[r].phase = "finalize"
    /\ batch' = StatusIfWorking(run[r].outcome)
    /\ To(r, "done")
    /\ UNCHANGED <<rows, lane, call, deaths, booting, faults>>

\* The failure is counted and logged, and the status left to whoever ended it.
CrashIsLogged(r) ==
    /\ run[r].phase = "crash"
    /\ batch' = [batch EXCEPT !.completed = @ + run[r].pending]
    /\ To(r, "done")
    /\ UNCHANGED <<rows, lane, call, deaths, booting, faults>>

\* The catch clause: a run that lost its claim rethrows at once, another
\* flushes and marks the batch.
CrashPath(r) ==
    /\ run[r].phase = "crash"
    /\ batch' = IF run[r].lost THEN batch
                ELSE [StatusIfWorking("failed") EXCEPT !.completed = @ + run[r].pending]
    /\ To(r, "done")
    /\ UNCHANGED <<rows, lane, call, deaths, booting, faults>>

\* Core takes the claim or the admission away; every request is aborted.  A
\* run that waits for its lock throws, a run past its teardown never asks.
\* Bound: only in a batch that nothing hard has happened to yet.
LoseAuthority(r) ==
    /\ run[r].phase \in {"load", "tasks", "judge", "crash"}
    /\ faults # "hard"
    /\ run' = [run EXCEPT ![r].lost = TRUE]
    /\ faults' = "hard"
    /\ UNCHANGED <<batch, rows, lane, call, deaths, booting>>

-----------------------------------------------------------------------------
(***************************************************************************)
(* Requests.  Stop writes the status first; recover, reconcile and the     *)
(* clean-up at startup load the document and save it after counting.       *)
(***************************************************************************)
Ends(q) == call' = [call EXCEPT ![q] = NoCall]

\* What the loaded document is read for later: a resume compares its lock,
\* the others their status and counter.
Loads(q, op, for, status) ==
    call' = [call EXCEPT ![q] = [NoCall EXCEPT !.op = op, !.for = for, !.status = status,
                                               !.completed = batch.completed]]

Stop(q) ==
    /\ call[q].op = "idle"
    /\ batch.status = "running"
    /\ batch' = [batch EXCEPT !.status = "stopped"]
    /\ Loads(q, "abort", "stop", "stopped")
    /\ faults' = Orderly
    /\ UNCHANGED <<rows, run, lane, deaths, booting>>

\* Only a run between its registration and its teardown has a controller.
Aborted ==
    [r \in Runs |-> IF run[r].phase \in {"tasks", "judge"}
                    THEN [run[r] EXCEPT !.aborted = TRUE] ELSE run[r]]

\* The passes of a stop that are not its first step find whatever run is
\* registered by then.
AbortPass ==
    /\ run' = Aborted
    /\ faults' = IF batch.status = "running" /\ Aborted # run THEN "hard" ELSE faults

StopAgain ==
    /\ batch.status = "stopped"
    /\ run' = Aborted
    /\ UNCHANGED <<batch, rows, lane, call, deaths, booting, faults>>

Abort(q) ==
    /\ call[q].op = "abort"
    /\ AbortPass
    /\ call' = [call EXCEPT ![q].op = "count"]
    /\ UNCHANGED <<batch, rows, lane, deaths, booting>>

\* The recover route: it aborts nothing, the run finds the status.
Recover(q) ==
    /\ call[q].op = "idle"
    /\ batch.status = "running"
    /\ Loads(q, "count", "recover", batch.status)
    /\ faults' = Orderly
    /\ UNCHANGED <<batch, rows, run, lane, deaths, booting>>

Reconcile(q) ==
    /\ call[q].op = "idle"
    /\ batch.status \in Terminal
    /\ Loads(q, "count", "reconcile", batch.status)
    /\ faults' = Orderly
    /\ UNCHANGED <<batch, rows, run, lane, deaths, booting>>

\* Two seconds after a start, for a batch nobody has touched in five minutes.
CleanupStale(q) ==
    /\ call[q].op = "idle"
    /\ booting /\ batch.status = "running"
    /\ Loads(q, "count", "cleanup", batch.status)
    /\ booting' = FALSE
    /\ UNCHANGED <<batch, rows, run, lane, deaths, faults>>

Count(q) ==
    /\ call[q].op = "count"
    /\ call' = [call EXCEPT ![q].op = "save", ![q].counts = RowCount]
    /\ UNCHANGED <<batch, rows, run, lane, deaths, booting, faults>>

\* The clean-up calls a batch completed if its cells and their judging are.
Targets(q) ==
    CASE call[q].for = "reconcile" -> {call[q].status}
      [] call[q].for = "cleanup" ->
            {"interrupted"} \cup (IF call[q].counts >= NumCells THEN {"completed"} ELSE {})
      [] OTHER -> {"stopped"}

\* save() sends the paths whose value differs from the loaded one, whatever
\* the document holds by now.  Stop aborts once more.
Save(q) ==
    /\ call[q].op = "save"
    /\ \E target \in Targets(q) : batch' = [batch EXCEPT
          !.status = IF target # call[q].status THEN target ELSE @,
          !.completed = IF call[q].counts # call[q].completed THEN call[q].counts ELSE @]
    /\ IF call[q].for = "stop" THEN AbortPass ELSE UNCHANGED <<run, faults>>
    /\ Ends(q)
    /\ UNCHANGED <<rows, lane, deaths, booting>>

\* A batch is resumed if the counter and the checkpoint leave work, or if a
\* row still waits for its judge, which any row may.
ResumeRead(q) ==
    /\ call[q].op = "idle"
    /\ batch.status \in Terminal \ {"completed"}
    /\ NumCells > Max({batch.completed, Cardinality(batch.checkpoint)}) \/ RowCount > 0
    /\ Unused # {}
    /\ call' = [call EXCEPT ![q] = [NoCall EXCEPT !.op = "resume", !.locked = batch.locked]]
    /\ faults' = Overlap
    /\ UNCHANGED <<batch, rows, run, lane, deaths, booting>>

\* The resumed state is saved over whatever the document holds by now, and a
\* run is started that nobody waits for.
ResumeSave(q) ==
    /\ call[q].op = "resume"
    /\ Unused # {}
    /\ batch' = [batch EXCEPT !.status = "running", !.locked = @ /\ ~call[q].locked]
    /\ run' = [run EXCEPT ![Min(Unused)] = NewRun]
    /\ Ends(q)
    /\ booting' = FALSE
    /\ faults' = Overlap
    /\ UNCHANGED <<rows, lane, deaths>>

\* The process ends: killed, or on SIGTERM, whose handler marks the batch if
\* a run has its lock.
Die ==
    /\ deaths < MaxDeaths
    /\ batch.status # "none"
    /\ \/ faults' = "hard" /\ UNCHANGED batch
       \/ /\ \E r \in Running : run[r].phase # "lock"
          /\ faults' = Orderly
          /\ batch' = StatusIfWorking("interrupted")
    /\ run' = [r \in Runs |-> IF r \in Running THEN Over ELSE run[r]]
    /\ lane' = [r \in Runs |-> NewLanes]
    /\ call' = [q \in Calls |-> NoCall]
    /\ deaths' = deaths + 1
    /\ booting' = TRUE
    /\ UNCHANGED rows

\* Claim recovery at startup finds the claim of a batch that has been silent.
GhostStopped ==
    /\ booting /\ batch.status = "running"
    /\ batch' = StatusIfWorking("stopped")
    /\ UNCHANGED <<rows, run, lane, call, deaths, booting, faults>>

-----------------------------------------------------------------------------
LaneStep(r, l) ==
    \/ Begin(r, l) \/ Skip(r, l) \/ LaneEnds(r, l)
    \/ Answer(r, l) \/ Queue(r, l) \/ Invalidate(r, l)
    \/ FlushLands(r, l) \/ FlushInDoubt(r, l) \/ Checkpoint(r, l)

RunStep(r) ==
    \/ Lock(r) \/ AdmissionRefused(r) \/ Load(r) \/ PrepareFails(r)
    \/ \E l \in LaneIds : LaneStep(r, l)
    \/ Drain(r) \/ Judge(r) \/ FinalRead(r) \/ Finalize(r) \/ CrashPath(r)

Request(q) ==
    \/ Stop(q) \/ Abort(q) \/ Recover(q) \/ Reconcile(q) \/ CleanupStale(q)
    \/ Count(q) \/ Save(q) \/ ResumeRead(q) \/ ResumeSave(q)

Next ==
    \/ StartBatch \/ StopAgain \/ Die \/ GhostStopped
    \/ \E r \in Runs : RunStep(r) \/ LoseAuthority(r)
    \/ \E q \in Calls : Request(q)

Spec == Init /\ [][Next]_vars

\* The timers, the database and Core answer a run sooner or later; nobody is
\* obliged to stop, resume or clean up anything.
FairSpec == Spec /\ \A r \in Runs : WF_vars(RunStep(r))

-----------------------------------------------------------------------------
(***************************************************************************)
(* What a batch promises.                                                  *)
(***************************************************************************)
\* A batch that nothing has disturbed is reported as completed only if each
\* planned cell has its one result row: the outcome is derived from a counter,
\* so the counter must neither run ahead of the rows nor count a cell again
\* that an earlier, failed run had answered (deriveTerminalBatchOutcome).
CompletedIsWhole ==
    batch.status = "completed" /\ faults = "none" => \A c \in Cells : rows[c] = 1

\* A run never replaces a terminal status, and neither does a stop: whoever
\* ends the batch first has ended it, and only a document saved by a request
\* (a resume, a recovery, a clean-up) or the next start moves it again.
TerminalIsFinal ==
    [][batch.status \in Terminal /\ batch'.status # batch.status =>
          \E q \in Calls : call[q].op \in {"save", "resume"} /\ call'[q].op = "idle"]_vars

\* A running batch ends: each way out of executeBatch writes a terminal status,
\* unless the process was killed, the run lost its claim or its admission, two
\* runs of the batch overlapped, or a stop aborted a run that is not its own.
BatchEnds ==
    batch.status = "running" ~>
        batch.status # "running" \/ faults = "hard"

\* What BatchEnds rests on, whatever the scheduling: a running batch has a run
\* that will mark it, alone, with its lock to take or taken, and neither
\* stopped nor aborted, whose way out would leave the status to the stop.
RunningIsAttended ==
    batch.status = "running" /\ faults # "hard" =>
        \E r \in Running :
            /\ Running = {r}
            /\ run[r].phase = "lock" <=> ~batch.locked
            /\ ~run[r].stopped /\ ~Unwinding(r)

-----------------------------------------------------------------------------
(***************************************************************************)
(* What stopBatch's comments expect and TLC refutes with two requests.     *)
(***************************************************************************)
\* The second pass is there to "catch a request registered between the durable
\* transition and the first abort pass".  It comes after a recount, and also
\* catches the run of a resume that came in between; that run then leaves the
\* batch running.
StopAbortsItsOwnRun ==
    [][\A r \in Runs : run'[r].aborted /\ ~run[r].aborted => batch.status # "running"]_vars
=============================================================================
