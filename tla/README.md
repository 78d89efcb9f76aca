# Agent X ecosystem: TLA+ models, checks and proofs

Agent X is three Node.js services around a set of Ollama hosts. **Core**
(`core/`) routes inference, keeps conversations, planning and pipelines, and
decides who may use a host. **Benchmark** (`benchmark/`) takes hosts over to
measure models. **RAG** (`rag/`) indexes documents in Qdrant. They share
MongoDB and `shared/`, and call each other over HTTP. What is hard in them is
coordination: leases that lapse, conditional updates sent after a read, handlers
cut off between two awaits, several processes on one database.

This directory models that part. Each module names the code it translates in
`PROJECT.json` ("map"); `PROJECT.json` also lists the runs, the hazards, the
findings and the theorems.

    tlc -workers 2 -config Exclusion.cfg MCRuntimeCoordination.tla
    tlapm RuntimeCoordinationProofs.tla

## 1. The system

| Part | State | Operations | Hard behaviours | What makes it correct |
|---|---|---|---|---|
| Runtime coordination record (`core/src/services/runtimeCoordinationService.js`) | one MongoDB document: maintenance lease, workloads, inferences, last 100 release receipts | acquire, heartbeat, release of each kind; quarantine, adoption, transition, resolution; reaping | every handler reads, then sends a conditional update; leases lapse between; answers are lost and retried | maintenance excludes all; a workload owns its hosts; inferences on a host agree; quarantine is durable; one recovery writer |
| Ollama watchdog (`ollamaWatchdogService.js`) | probe counters | polls the record, probes and unjams hosts | must notice lapsed admissions of dead processes | a lapse is noticed |
| Leader lease (`leaderLeaseService.js`) | one document per daemon; a controller and timers per process | tick, start, stop | ticks overlap; a tick is in flight across stop; crash of the leader | one process runs the daemon; a standby takes over |
| Host gate (`hostGate.js`) | per-model slots and queues, an exclusive owner, in memory | acquire, acquireExclusive, track, release, abort | handover and abort in any order | slots are exact, an exclusive call runs alone, nobody waits for ever |
| RAG document store (`rag/src/services/ragStore.js`, `QdrantVectorStore.js`) | points in Qdrant, promise chain per document | upsert, reindex, delete | several requests per upsert, each may fail | a finished upsert leaves its own points only |
| RAG ingest jobs (`ingestJobManager.js`, `ingestWorker.js`) | jobs and the one active slot, in memory | start, poll, cancel, background end | the background promise outlives a cancellation | the slot names the running job and is given back |
| Inference admission (`inferenceAdmissionService.js`, `routing/`) | an admission and its heartbeat per request | acquire, stream, settle, abandon, retry | client disconnect, lost answers | every admission ends or is quarantined |
| Benchmark host claims (`benchmarkClaimService.js`) | the claim inside a host preference, with heartbeat, snapshot and finalize token | claim, capture, heartbeat, finalize, release, reap, take over | answers are lost; the owner, the reaper and the recovery finalize one claim | who was told it holds the host does; no live claim and no ambiguous token is taken; abandoned claims are reaped |
| Host session holds, pins (`hostSessionHoldService.js`, `pinReconciler.js`) | the hold and the status in the same document | hold, touch, release, a pass over the host | a pass decides on a snapshot that is old by then | a claimed host is left alone |
| Pipeline tasks (`pipelineTaskService.js`, `core/routes/pipeline.js`) | the automation slot and the task, two documents with a lease each | claim, heartbeat, feedback, status, supersede, prepare | a process dies between the two updates; an operator moves a task by hand | a live lease has the slot; the budget of attempts holds; an orphaned slot lapses |
| Benchmark batches (`execution.js`, `batchOrchestrator.js`, `BenchmarkBatch.js`) | the batch document, result rows; counters and controllers of each run in memory | start, run, flush, judge, finalize, stop, recover, reconcile, resume, clean up | the end of a run races a stop; a count is flushed over an await; the process dies | whoever ends a batch first has ended it; "completed" means every cell has its row; a running batch ends |
| Memory review (`memoryReview/applyService.js`) | run document, leased apply | apply, retry | lease shorter than the adapter | a memory is applied once |
| Concurrency queue, circuit breaker (`ConcurrencyQueue.js`, `circuitBreaker.js`) | in memory | add, cancel, drain; probe | cancel while running; late answers | bound kept; drain means quiet |
| Chat, routing, roundtable, alerts, planning, backups, overseer, extensions, scoring, search, embeddings, pages | see "components" in `PROJECT.json` | | mostly request-scoped, or arithmetic, or external I/O | unit tests |

How they interact. An inference goes Core route → runtime coordination
(`acquireInference`, shared by all processes) → host gate (this process) →
Ollama, and back in the opposite order. Benchmark reserves hosts with a
workload through Core's HTTP API and runs its inferences under the workload's
proof. A deploy or a runtime change holds the maintenance lease. The watchdog
lists active admissions, and by that quarantines the ones that lapsed. The
daemons of Core run where the leader lease is. RAG stands alone, and its ingest
jobs upsert documents. A batch of Benchmark runs under a workload, claims each host
of its plan (`HostClaims`), fills its document, and gives the hosts back; what it
leaves behind when it dies is recovered by the workload's recovery or reaped.

## 2. What is modelled

### RuntimeCoordination, RuntimeExclusion, MCRuntimeCoordination

The core of the system. `maintenance`, `workloads`, `inferences` and
`releaseReceipts` are the fields of the document (sets for arrays whose order no
code looks at). `calls[c]` is the handler a caller has in flight. A handler that
reads and then updates is two actions, `X` and `XCas`: the first records what
the handler captured (its clock, the version, generation and state it read), the
second evaluates the filter of the update on the document of that later moment.
`Lost` cuts a handler between the two, and an answer that is lost after the
update is the update followed by a retry. `Deadline` makes any live lease lapse.

Abstractions, and why they lose nothing the properties see:

- Leases are live or lapsed instead of timed. A filter `expiresAt > now`, with a
  `now` captured before the update was sent, holds when the lease was live then
  or has been renewed since (`Unexpired`).
- The reap at the start of a handler and the read after it are one step; the
  reap by itself, with a stale clock, is the watchdog's `ListActive` and
  `ReapExpiredCas`. Its three updates touch three disjoint fields.
- A refused call changes nothing (except through the reap), so refusals are
  guards.
- Ids (UUIDs in the code) come from a counter; hosts, residencies and owners are
  model values. A caller presents a generation or version some document had.
- `restarted` marks quarantined inferences that an Ollama restart came after:
  the code asks the operator's request for that evidence.
- `armWorkloadRecovery` never changes a document, because every workload is
  created with recovery armed, so it has no action.

`RuntimeExclusion` is the abstract specification: a lock with three kinds of
holders, granted and given up in single steps. `ImplementsExclusion` is the
refinement, with the mapping written out at the end of `RuntimeCoordination`.

### LeaderLease, MCLeaderLease

One daemon, several processes, each with a controller and up to |Tick| ticks in
flight, as `setInterval` does not await its callback. A tick renews or takes the
lease (`Renew`), or inserts it (`Insert`), then starts or stops the daemon, one
action per await. `stop` closes the controller, ends the daemon, deletes the
lease. Processes crash, updates fail, leases lapse. `timers[p]` counts runs of
`start()` that no `stop()` has ended. A tick that saw the lease lapsed may
renew it as long as it has not been renewed since; the code compares times, and
the module allows slightly more.

### HostGate, MCHostGate

One host in local mode, the state as one record `gate`. The functions of the
gate contain no await between a read and a write, so each is one step, and a
release is the composition of the code's functions: leave, hand over to the next
waiter of the model (`AdmitNextLocalWaiter`), drain (`DrainHost`). Each call is
admitted once; more traffic is more calls.

### RagDocument, MCRagDocument

One document with an explicit id. `points` holds the revision of each chunk's
point, `identityLock` the promise chain. One action per request of an upsert:
hash comparison, scroll of the old ids, each batch of points, deletion of stale
points, text. Each request succeeds, or `UpsertFails` ends the upsert; a request
carried out whose answer is lost is the step followed by the failure.
`scrollOrder` is the order of hashed point ids, any order but a fixed one. The
reindex reads the text outside the lock, as the code does; a deletion takes no
lock.

### IngestJobs, MCIngestJobs

`jobs`, `activeJobId`, and for each job the control of its background scan. A
cancelled job's scan runs on to its next check. A job is lost with the process,
as the code keeps it in memory.

### HostClaims, MCHostClaims

The document HostPreference of one host and everybody who writes it. `claim`,
`sessionHold`, `status` and `receipt` are its fields; `admission` is what
RuntimeCoordination has granted, reduced to one workload per host at a time;
`client` is the Benchmark side, which may lose any answer, and then asks for the
receipt. `call` and `rel` are the claim and release calls in Core, each cut at
its awaits: read, compare-and-set, capture of the runtime, attaching the
snapshot; read, taking the finalize token, asserting it before each unload or
load, clearing the claim. `tick` is one pass of the reconciler, with a copy of
the hold it read (`CopyHold` keeps how far that copy is behind).
`overwritten` is a history: a pass has written the status of a claimed host.

Abstractions: heartbeats and holds are fresh or lapsed; only the last receipt
is kept; a batch stands for one claim generation; one pinned model. What the
model shows besides its properties: a pass that read the host before it was
claimed overwrites "benchmarking" without a filter, and every fenced update
after that is refused, so the properties speak of hosts not overwritten; a
Core that ends between the claim and its snapshot leaves a claim that is not
exact, and neither the reaper nor the recovery clears it; the recovery may
take a token over while the old finalizer's last unload or load is still in
flight.

### PipelineClaims, MCPipelineClaims

`slot` and `task` are the two documents, `call` the handlers in flight, with the
clock each read at its start; `now` is a clock of a few ticks, as the filters
compare the stored deadlines with clocks that were read at different times.
`Lost` ends a handler between two updates. Two histories mark the interleavings
the code does not exclude: `crossed`, two heartbeats of one lease passed each
other and a deadline went back; `overtaken`, an operator's update, which names
only the task, landed on a claim it had not read. The run is constrained to
states before either; the theorem needs no constraint.

What the model shows besides: nobody expires a task whose lease lapsed while it
is in progress; a handler that was released still extends its slot until the
task says otherwise.

### BatchLifecycle, MCBatchLifecycle

`batch` is the document, `rows` the number of result rows of each cell, `run`
the calls of `executeBatch` and `lane` their host tasks (one in latency mode,
one per host in throughput mode), `call` the requests. A run locks the document,
loads its checkpoint, answers what it finds missing, counts in memory
(`pending`), flushes with `$inc`, and derives the outcome from the counter. A
lane's `taken` is the copy of the count that `flushBatchProgress` holds over its
await. `Stop` writes the status first and aborts afterwards; `Recover`,
`Reconcile` and `CleanupStale` load the document, count the rows and save the
fields that differ from what they loaded. `Die` is a kill, or SIGTERM, whose
handler marks the batch; `booting` allows the clean-up once after a start.
`faults` is a history with three values: nothing, a request or SIGTERM, or
something harder (a kill, a lost claim, two runs of the batch at once, a stop
that aborts the run of a resume that came in between).

Abstractions: a series of results is due for a flush at some point after its
first (thresholds and ages); cells answer or are passed over; the judge queue
is one step. Left out: strict Trust batches, judge counters and the judge branch
of recover, the singleton index, admission release, the take-over of a lock
older than ten minutes, database errors, and the authority worker.

What the model shows besides: the second abort pass of a stop, after its recount,
finds runs by the batch id alone, so a resume in between has its run aborted,
and that run leaves the batch running (two requests at once; `BatchEnds` counts
it as hard); a stop's recount may be added to by the run that still unwinds; a row stored but not checkpointed is run again after a resume;
nothing keeps two resumes, or a resume and a run that unwinds, apart; a start,
stop and resume before the lock leave the batch running without a run, and so
do a kill followed by a quick restart, and a lost claim with nothing pending.

## 3. What is checked

Every run is listed in `PROJECT.json` with its properties. Every property has a
plausible bug (a *mutant*, an operator beside the one it replaces) that breaks it.

| Run | Bounds | Shows |
|---|---|---|
| exclusion | 2 callers, 2 requests of 2 principals, 2 hosts, 2 residencies, 2 ids | exclusion, ownership, residency, idempotency, durable quarantine, and the refinement of `RuntimeExclusion` |
| recovery | 2 callers and the watchdog, 2 recovery owners, 2 adoptions, 4 transitions of one workload | recovery moves forward, one writer, a live owner keeps the workload; a lapse is noticed; a renewal survives a stale reap |
| leader_lease | 2 processes with 2 overlapping ticks, 1 crash | one daemon unless a lease lapsed; a live lease is not taken |
| leader_liveness | the same with 1 tick each | a deposed leader stops; a standby takes over |
| host_gate | 4 ordinary, 2 exclusive, 1 tracked call of 2 models, 2 slots | exact slots, exclusive alone and not passed, every waiter served |
| rag_document | 2 ingests, a reindex, texts of 2 and 3 chunks, batches of 1, 2 failures | whole replacement, no lost document, agreeing text, every call ends |
| ingest_jobs | 3 jobs, 2 files | slot, completion, slot freed |
| host_claims | 2 claim generations, 2 releases at a time, no session | a told holder has the claim; live claims and ambiguous tokens kept; finalizers take turns |
| host_reaper | 1 generation, 1 release, 2 sessions | an abandoned claim is taken by a finalizer |
| pipeline_claims | 2 tasks, workers, leases and handlers, 3 ticks, leases of 2 | the slot covers a live lease; the budget holds; an orphaned slot lapses |
| batch_lifecycle | 2 cells, 1 lane, 2 runs, 1 request at a time, 1 death | completed is whole; a terminal status is final for runs; a running batch ends |
| batch_counts | 4 cells, 2 lanes, 1 run, no requests | refutes "completed is whole" in throughput mode |

Why the bounds are enough: each hazard needs two actors whose reads and updates
interleave, and a third party that moves the state between them; two callers
with the operator, the clock and the watchdog give that. Two ids make every
pair of admissions possible; a third would repeat a pair, since all rules are
between two admissions. `ReceiptLimit = 1` makes the log overflow. Two adoptions
give a displaced worker that still acts. Three chunks in batches of one give an
upsert that fails between batches, and one that leaves stale points. Three
jobs give one cancelled scan beside a running one and a refused one. Two claim
generations give a late call of the one beside the claim of the other, two
releases an owner beside its recovery. A lease of two ticks and a clock of three
let a handler's clock be older than a deadline that has not passed. Two runs give
a resume beside the run it replaces, one death and one lost claim one fault at
each point of it. Bounds are
named in the CONSTANTS of each module.

Symmetry is used only in runs without liveness. Deadlock is checked except in
LeaderLease, HostGate, IngestJobs, PipelineClaims and BatchLifecycle, where the
system really stops: all processes stopped, all calls or jobs ended, the clock at
its bound, a batch completed.

### Fairness

- *Watchdog*: it polls for as long as Core runs (`setInterval`), so `ListActive`
  is weakly fair. A poll may be cut off, but not for ever: `ReapExpiredCas` is
  strongly fair. Callers get no fairness: they may stop at any point.
- *Leader lease*: the timer fires and code after an await runs (weak), MongoDB
  does not fail for ever (strong), time passes.
- *Host gate*: each admitted call is released; its callers release in `finally`
  and inferences have time limits. Arrivals and aborts get none.
- *RAG document*: each request is answered or times out; `UpsertStep` is weakly
  fair, and a failure ends the call as well.
- *Ingest jobs*: each await of a scan settles.
- *Host claims*: the reaper's interval fires (`Reap`), a release call takes its
  steps, a heartbeat that nobody renews grows old. A Core that restarts for ever
  is excluded in the property.
- *Batches*: each run takes its steps (`RunStep`), since every request of a run
  has a time limit. No request, resume or clean-up is promised.

### Where the code differs from what is said of it

One run expects a violation and is a finding in `PROJECT.json`:

- *batch_counts*: `flushBatchProgress` copies the pending count, awaits the
  `$inc` and resets it afterwards. In throughput mode a second host flushes in
  between: it counts the first host's results again, and its own may be reset
  uncounted. The counter reaches the number of cells with a cell missing, and the
  batch is completed.

Statements of comments and documents that TLC refutes are kept at the end of the
modules without a run (name the definition in a copy of a configuration to see
the trace):

- RuntimeCoordination: `ExpiredEntriesRemoved` (the contract says expired entries
  are removed; they are quarantined), `ReleaseOnlyWhenSettled` (a release reads
  the recovery state, its update does not compare it), `SingleLiveOwner` (a
  heartbeat with an old clock revives the owner beside the worker that adopted).
- LeaderLease: `StoppedStaysStopped`, `StartedOnce` (a tick in flight across
  `stop`, or two overlapping ticks, start the daemon again).
- HostGate: `NoIdleSlot` (aborting the last exclusive waiter wakes nobody).
- RagDocument: `UnchangedIsStored` (after a failed upsert the hash of one point
  stands for the document), `CrashLosesNothing`, `ReindexKeepsContent`.
- IngestJobs: `OneScan`, `CancelledStaysCancelled` (a cancelled scan runs on
  beside the next, and its late error makes the job "failed").
- HostClaims: `HoldsAndClaimsExclude`, `ReconcilerRespectsClaims`,
  `LiveHoldKept`, `SingleFinalizer` (each update compares less than was read).
- PipelineClaims: `SingleAutomatedWorker` (two crossing heartbeats, or a hand
  that overtakes a claim).
- BatchLifecycle: `StopAbortsItsOwnRun` (with two requests at once; see above).

### Properties that are proved and in no run

Some definitions were written for the proofs, and a theorem of section 4 states
them for every value of the constants: `NobodyWaitsForNothing` (HostGate),
`EndedJobStays` (IngestJobs), `ChainIsPending`, `SomeRevisionComplete` and
`UnchangedUnlessFailed` (RagDocument), `AbandonedOnlyAges` (HostClaims),
`RunningIsAttended` and `TypeOK` (BatchLifecycle), `Excludes` (RuntimeExclusion).
TLC agrees with each on the instance of its component's run; name it in a copy of
that configuration to repeat this (the two of RagDocument with `BatchSize` at
least every `ChunkCount`). `RunningIsAttended` also holds with two requests at
once on one cell (2.2 million states), and with two lanes on two cells (3.7
million).

## 4. What is proved

`RuntimeCoordinationProofs`, from `ConstantsAssumption` only, for any number of
callers, hosts, requests, admissions and adoptions:

- `TypeCorrect`: the types of the document and of every captured call. The
  filters compare fields of two records, so every later step rests on it.
- `ExclusionInvariant`, and from it `MaintenanceIsExclusive`, `HostsAreOwned`,
  `ResidenciesAgree`, `RequestsAreIdempotent`. The invariants are not inductive:
  that two entries with different ids differ in what they hold needs ids to name
  one entry, and new ids to be new. `ExclusionInv` therefore joins the types,
  the uniqueness of ids and the four properties. Most of the 30 actions grant
  nothing: they keep the identity of entries and can only drop some. One lemma
  covers them (`NoGrantKeepsExclusion`), and one lemma each covers the three
  acquisitions, whose filter is what re-establishes the invariant.
- `ImplementsTheLock`: the record implements `RuntimeExclusion`. A reap maps to
  the lock losing track of a set of ids, a grant to the lock's grant with the
  filter as its guard, an end to its `End`; renewals, adoptions and transitions
  are stutters. The abstraction maps an entry by its id, so two entries of one id
  would be lost or ended together: `RefinementInv` adds to `ExclusionInv` that no
  array holds an id twice (`DistinctEntries`).
- `RecoveryNeverGoesBack`, `LiveOwnersKeepTheirs`, `RecoveryHasOneWriter`,
  `RenewalsSurvive`: what a step may never do to a workload. Each workload has
  one successor (`WorkloadsSucceed`); that its state only advances needs that a
  transition in flight leads on from the state it read (`CapturedTransitions`),
  because the update compares that state and then writes the target it captured.
- `TheLockExcludes`: every behaviour of the abstract lock keeps `Excludes`:
  maintenance is alone, a host has one workload, an inference on it is vouched
  for by that workload, and inferences on one host agree on what is loaded. So
  the refinement is one of a specification that promises something: what the
  record implements excludes, whatever outcomes are lost. Each kind of step of
  the lock is put in the names of the record (`LockSteps`), and a lost outcome
  changes a flag and frees nothing.
- `ReceiptsTellTheTruth`, `QuarantineLasts`: a step that writes the log removes
  the one entry that has the logged id (`LogsAnEnd`), and every step keeps ids,
  drops ids or mints the next one in one array (`IdsMove`), so a logged id does
  not come back. `RecordInv` adds that no two arrays share an id (`IdsApart`) and
  that every logged id was minted (`ReceiptsGone`).

`RagDocumentProofs`, from `DocumentConstants`, for any callers, texts, chunk
counts, batch size and failures:

- `DocumentTyped`, `UpsertsExclude` (the lock), `ReplacementsAreWhole` (an upsert
  that ends leaves exactly its points) and `UpsertsNeverEmpty`. `UpsertInv` says
  for each phase of an upsert what is written, what is old, and what a deletion
  under it leaves. `EnterOrLeave` covers the steps that only queue or end a
  call; `WriterStep` reduces a step under the lock to the call that holds it,
  because `OneWriter` lets no other call be in a phase that says something of
  the points.
- `StoredTextAgrees`. The backfill writes the text of a call whose hash equals
  that of one point, so it has to be shown that one point speaks for all:
  `OneRevision` (between two upserts all points are of one text) and
  `OwnAfterDeletion` (a call whose document was deleted meanwhile has only points
  it wrote since).
  Both rest on no upsert having failed, and `UnchangedIsStored` is what becomes of
  them when one has.
- `TheChainHoldsThePending`: the chain of promises is exactly the calls that wait
  or work, each once. A call that ends is at its head (`OneWriter`), so its
  removal is one step of the head; a rejected predecessor leaves nobody behind
  a call that is gone. It is the safety half of `EveryCallEnds`.
- `OneBatchKeepsAText`, `OneBatchLosesNothing`, `OneBatchUnchangedIsTrue`: what
  comments say of a crash and of "unchanged", and TLC refutes in general, is true
  as long as every text fits in one PUT (`OneBatch`: each `ChunkCount` is at most
  `BatchSize`; the code's batch has 100 chunks, so this is the ordinary
  document). The first two hold through any failures, the last until one has
  failed. `OneBatchInv` says that a batch is written together (`BatchStays`,
  `WritesOnce`), so that points of two texts coexist only above the length of
  the text written last. It is the length of a text that loses it: the
  counterexamples need a second batch.

`PipelineClaimsProofs`, from `PipelineAssumption`, for any tasks, workers,
leases, calls and clock:

- `PipelineTyped`; `BudgetKept` (with `Counted`: a claim in flight that found a
  task counted fewer than the budget, and its update compares the count);
  `OrphansLapse`; `LeaseCovered`. That a lease of a task has the slot for as long
  is not inductive: each handler between its two updates holds a copy of a
  deadline. `CoverInv` adds what each knows (`ClaimOk`, `HeartbeatOk`, `UndoOk`)
  and that leases differ. All actions are reduced to their effect on the slot
  (`SlotEffect`), on a task (`TaskEffect`) and on a handler (`HandlerEffect`), and
  the parts are preserved by the effects.

`IngestJobsProofs`, for any jobs and files: `JobsTyped`, `SlotNamesRunningJob`,
`CompletedJobsAreComplete`. The conjunction is inductive. The slot's property
says of the running job that its scan is under way, and of any other scan under
way that its job was cancelled; that is why the slot is given back (`SlotIsFreed`
adds only that scans settle), and a scan that ends knows from it whether the
slot is its own. `EndedJobsStay` follows: the one change to a job that has ended
is a late rejection that turns "cancelled" into "failed", and it leaves the slot
alone.

`LeaderLeaseProofs`, for any processes, overlapping ticks and crashes:

- `LeaderTyped`; `LiveLeasesKept`, by cases on who writes the document;
  `OneServes`. A process that serves, or whose tick is about to start it, owns
  the lease as long as nothing has lapsed (`GettersOwn`), and the document has one
  owner.

`HostClaimsProofs`, from `HostClaimsAssumption`, for any batches, releases and
sessions:

- `ClaimsTyped`, `HoldersHaveClaims`, `AdmissionsOutliveClaims`,
  `FinalizersAlternate`, `LiveClaimsKept`, `TokensKept`. None is inductive: what a
  client was told depends on where its call was when the document was written.
  The invariant has four parts: `DocumentOk` (what a claim, a token and a status
  say of each other), `BatchOk` (for each phase of a batch's call and each belief
  of its client, what the document still holds), `ReleaseOk` (for each release in
  flight, whose claim and token it read and in which mode), `Apart` (two releases
  of one batch differ in mode). All speak of hosts not `overwritten`.
- `AbandonedClaimsOnlyAge`: a claim whose workload is over is neither renewed nor
  cleared nor replaced until a finalizer has put its token on it, and once old it
  stays old. It is what `AbandonedIsReaped` rests on besides the reaper's
  interval: a late heartbeat that kept such a claim young, or a failed capture
  that cleared it without a restore, would be a step against it. A capture under
  way for the same batch would be one too; the invariant shows that an exact
  claim has none. It needs only the status to be "benchmarking" at that moment,
  not that no pass ever wrote it.

`BatchLifecycleProofs`, from `BatchAssumption`, for any cells, runs and requests:

- `BatchTyped`. A checkpoint names planned cells because a lane that has a row has a
  cell at hand (`CellAtHand`). That the recount of the rows (`RowCount`, a fold
  over the cells) is a number is an induction over sets of cells. The theorems
  for induction take an operator and cannot be used, so it is proved by a
  smallest counterexample (`Smallest`, from the well-foundedness of the
  numbers): once for the recursion of the fold to have a solution
  (`SumsSolvable`), once for its values (`RowCountNat`).
- `RunningBatchIsAttended`: a running batch that nothing hard has happened to has
  exactly one run, which has its claim, is neither stopped nor aborted, and waits
  for its lock exactly if the document is unlocked. It is the safety half of
  `BatchEnds`, for any numbers of requests at once. `Attended` has to know why a
  run never finds its batch locked by another: a resume clears the lock only if
  it had loaded it locked, and an unlocked document at rest does not occur
  (`LockAwaited`, `RequestsLater`). It also names the ways out that leave the
  status alone, and that none of them is open in a running batch. Writing it
  showed the case of a stop that aborts a resumed run, which is now a fault of
  its own.
- `TerminalsStay`, for any number of lanes: only a request that saves a document
  it loaded replaces a terminal status.
- `LatencyCompletedIsWhole`, which assumes `Lanes = 1`: an undisturbed batch that
  says "completed" has each row. `Quiet` relates the counter, the pending count,
  the copy a flush holds, the checkpoint and the rows at each step of the one run.
  With more lanes it does not hold, which is the finding *batch_counts*.

`HostGateProofs`, from `GateConstants`, for any calls, models and slots:

- `GateTyped`, `SlotsCounted`, `ExclusiveRunsAlone`, `ExclusiveKeepsItsTurn`. The
  gate's functions map a record to a record; each is shown to keep `GateOk` (the
  counters count, the queues hold waiting calls, each once, an admitted exclusive
  call owns the host alone) and to let nobody pass (`NotPassed`), and a handler is
  their composition. That an idle host admits as many calls as it adds to the
  counter (`FrontKnows`) needs that no call is in a queue twice.
- `NoWakeUpIsLost`, the safety half of `WaitersServed`: a waiter stands in the
  queue of its kind, and some call has still to release the host
  (`NobodyWaitsForNothing`), so there is always a handover to come. Each function
  of the gate is shown to keep a waiter and to leave somebody admitted where
  somebody waits.
- `NoIdleSlotWithoutEvictions`: `NoIdleSlot`, which TLC refutes, holds on a gate
  without exclusive calls (`Exclusive = {}`, a host whose models are never
  evicted). So aborted exclusive waiters are the only way for a slot to stay idle
  beside a waiter, as the counterexample suggests.

The type invariants are stated as theorems; the runs do not repeat them.

Every safety property the passing runs check is stated by a theorem. Only
model-checked is all liveness, since the prover has no fairness; for four of the
liveness properties the state they rest on is proved (`NoWakeUpIsLost`,
`TheChainHoldsThePending`, `AbandonedClaimsOnlyAge`, `RunningBatchIsAttended`), and
what remains is that somebody takes a step. Hypotheses beyond the named
assumptions appear in three places, each with its reason above: `Lanes = 1`,
`OneBatch`, `Exclusive = {}`.

## 5. Plan

Done, in this order: the coordination record and its abstract lock, the proofs
of its exclusions, its refinement, its recovery, its log and its quarantine;
the leader lease; the RAG document and its proofs; ingest jobs; the host gate;
host claims with session holds and the reconciler; pipeline claims and their
proofs; the life of a batch; the proofs of the jobs, the lease, the claims, the
batch and the gate; the proofs that no wake-up of the gate is lost, that a
document's chain holds whoever is pending, that a revision in one batch loses no
text, that an abandoned claim only ages, that a running batch is attended, and
that the abstract lock excludes.

What would come next, in this order: the composition of an inference (route,
coordination record, host gate, Ollama, and back, with a client that disconnects
in between); applying a memory review (a lease around adapters that write
elsewhere); the concurrency queue and the circuit breaker; RAG documents with
generated ids.

## 6. What is not modelled, and why

The parts with status `not_modelled` in `PROJECT.json` carry their reason. In
short: scoring and statistics are real-valued arithmetic; search, projections
and pages change nothing; evidence formats and validation are not state; Ollama
and Qdrant themselves are outside the repository, and appear only as what the
code assumes of them (an acknowledged write is visible to later requests). Most
of the repository's lines are of these kinds: routes that validate and project,
browser pages, statistics and scripts. Of the modelled services, the optional
MongoDB slots of the host gate, generated document ids, text extraction, the
watchdog's probing, the routes that swap or pin under a maintenance lease, task
editing and dependencies, and Trust batches are left out. A MongoDB update that
is applied and answered by an error is modelled where the code has a path for it
(releases, claims, upserts, flushes) and not in PipelineClaims.
