--------------------------- MODULE PipelineClaims ---------------------------
(* The task queue of Core: workers claim tasks, report on them and keep      *)
(* their claims alive, an operator moves tasks by hand. An automated claim   *)
(* lives in two documents: the one automation slot, and the lease inside the *)
(* task; each operation changes them one after the other.                    *)
(* Sources: core/src/services/pipelineTaskService.js, core/routes/pipeline.js *)
(* and pipelineTaskPreparationService.js.                                    *)
(*                                                                           *)
(* A handler reads the task, then sends conditional updates; each is a step, *)
(* and a handler keeps the clock it read when it started. A task's           *)
(* dependencies, dates and risk are always in order here.                    *)
EXTENDS Naturals, FiniteSets

CONSTANTS Tasks, Workers,
          Leases,      \* bound: lease ids known to somebody at one time
          Calls,       \* bound: handlers running at one time
          MaxAttempts, \* automation.budgets.maxAttempts
          Duration,    \* leaseDurationMs, in ticks of the clock
          MaxTime,     \* bound: ticks of the clock
          None

ASSUME PipelineAssumption ==
    /\ MaxAttempts \in Nat /\ Duration \in Nat /\ MaxTime \in Nat
    /\ None \notin Tasks \cup Workers \cup Leases

VARIABLES slot,       \* the PipelineAutomationSlot document
          task,       \* the PipelineTask documents
          call,       \* the handlers in flight
          now,        \* the clock
          crossed,    \* history: a heartbeat moved a deadline back, behind a newer one
          overtaken   \* history: an update landed on a claim it had not read

vars == <<slot, task, call, now, crossed, overtaken>>

Time == 0..(MaxTime + Duration)
Status == {"queued", "in_progress", "blocked", "closed"}   \* closed: review or done
TaskDocs == [status : Status, assignee : Workers \cup {None},
             lease : Leases \cup {None}, holder : Workers \cup {None},
             expires : Time, attempts : Nat]
Handlers == [op : {"none", "claim", "heartbeat", "feedback", "status", "supersede"},
             phase : {"read", "slot", "undo"},
             worker : Workers \cup {None}, task : Tasks \cup {None},
             lease : Leases \cup {None}, to : Status, count : Nat, now : Time]

NoCall == [op |-> "none", phase |-> "read", worker |-> None, task |-> None,
           lease |-> None, to |-> "queued", count |-> 0, now |-> 0]

TypeOK ==
    /\ slot \in [lease : Leases \cup {None}, expires : Time]
    /\ task \in [Tasks -> TaskDocs]
    /\ call \in [Calls -> Handlers]
    /\ now \in 0..MaxTime
    /\ crossed \in BOOLEAN /\ overtaken \in BOOLEAN

Init ==
    /\ slot = [lease |-> None, expires |-> 0]
    /\ task = [t \in Tasks |-> [status |-> "queued", assignee |-> None, lease |-> None,
                                holder |-> None, expires |-> 0, attempts |-> 0]]
    /\ call = [c \in Calls |-> NoCall]
    /\ now = 0
    /\ crossed = FALSE /\ overtaken = FALSE

-----------------------------------------------------------------------------
Free(c) == call[c].op = "none"
At(c, op, phase) == call[c].op = op /\ call[c].phase = phase
Begins(c, handler) == call' = [call EXCEPT ![c] = handler]
Goes(c, phase) == call' = [call EXCEPT ![c].phase = phase]
Ends(c) == call' = [call EXCEPT ![c] = NoCall]

\* crypto.randomUUID(): an id that is in no document and no handler.
Fresh(l) ==
    /\ slot.lease # l
    /\ \A t \in Tasks : task[t].lease # l
    /\ \A c \in Calls : call[c].lease # l

Reads == UNCHANGED <<slot, task, now, crossed, overtaken>>

\* The update of a handler that read the task under another claim.
Overtakes(c) ==
    overtaken' = (overtaken \/ task[call[c].task].lease # call[c].lease)

Unleased(doc) == [doc EXCEPT !.lease = None, !.holder = None, !.expires = 0]

-----------------------------------------------------------------------------
(* claimEligibleTask                                                         *)

ClaimRead(c, w, t, l) ==
    /\ Free(c) /\ Fresh(l)
    /\ task[t].status = "queued" /\ task[t].assignee = None
    /\ task[t].attempts < MaxAttempts
    /\ Begins(c, [NoCall EXCEPT !.op = "claim", !.worker = w, !.task = t, !.lease = l,
                                !.count = task[t].attempts, !.now = now])
    /\ Reads

\* acquireAutomationSlot
AcquireAutomationSlot(c) ==
    /\ At(c, "claim", "read")
    /\ \/ /\ slot.lease = None \/ slot.expires <= call[c].now
          /\ slot' = [lease |-> call[c].lease, expires |-> call[c].now + Duration]
          /\ Goes(c, "slot")
       \/ /\ slot.lease # None /\ slot.expires > call[c].now
          /\ Ends(c)
          /\ UNCHANGED slot
    /\ UNCHANGED <<task, now, crossed, overtaken>>

\* As if the update compared only what makes a task available.
AvailableToAnyCount(c) ==
    LET t == call[c].task IN task[t].status = "queued" /\ task[t].assignee = None

\* claimQuery
Available(c) ==
    LET t == call[c].task
    IN /\ task[t].status = "queued" /\ task[t].assignee = None
       /\ task[t].attempts = call[c].count

\* The update, or the undoing that follows when the task is not available any
\* more or the update fails.
ClaimTask(c) ==
    LET w == call[c].worker  t == call[c].task
    IN /\ At(c, "claim", "slot")
       /\ \/ /\ Available(c)
             /\ task' = [task EXCEPT ![t] =
                            [status |-> "in_progress", assignee |-> w, lease |-> call[c].lease,
                             holder |-> w, expires |-> call[c].now + Duration,
                             attempts |-> @.attempts + 1]]
             /\ Ends(c)
          \/ /\ Goes(c, "undo")
             /\ UNCHANGED task
       /\ UNCHANGED <<slot, now, crossed, overtaken>>

\* A claim without automation is one update, whose filter repeats the checks.
ClaimByHand(w, t) ==
    /\ task[t].status = "queued" /\ task[t].assignee = None
    /\ task' = [task EXCEPT ![t].status = "in_progress", ![t].assignee = w]
    /\ UNCHANGED <<slot, call, now, crossed, overtaken>>

\* As if any handler could clear the slot.
ReleaseAnySlot(c) ==
    /\ call[c].phase = "undo"
    /\ slot' = [lease |-> None, expires |-> 0]
    /\ Ends(c)
    /\ UNCHANGED <<task, now, crossed, overtaken>>

\* releaseAutomationSlot, the last step of a claim or a heartbeat that failed
\* and of an update that ended a lease.
ReleaseAutomationSlot(c) ==
    /\ call[c].phase = "undo"
    /\ slot' = IF slot.lease = call[c].lease THEN [lease |-> None, expires |-> 0] ELSE slot
    /\ Ends(c)
    /\ UNCHANGED <<task, now, crossed, overtaken>>

-----------------------------------------------------------------------------
(* heartbeatClaim. Without a lease in the task it changes no claim. Only the *)
(* holder of a lease knows its id, if the answer to its claim reached it.    *)

\* assertLeaseMutationAllowed, for the holder of the lease.
LeaseMutationAllowed(t) ==
    task[t].lease # None /\ task[t].status = "in_progress" /\ task[t].expires > now

Leased(op, t) == [NoCall EXCEPT !.op = op, !.worker = task[t].holder, !.task = t,
                                !.lease = task[t].lease, !.now = now]

\* As if the heartbeat went to the slot whether or not the task has a lease.
HeartbeatReadOfSlot(c, t) ==
    /\ Free(c) /\ slot.lease # None
    /\ Begins(c, [Leased("heartbeat", t) EXCEPT !.lease = slot.lease])
    /\ Reads

HeartbeatRead(c, t) ==
    /\ Free(c) /\ LeaseMutationAllowed(t)
    /\ Begins(c, Leased("heartbeat", t))
    /\ Reads

\* extendAutomationSlot
ExtendAutomationSlot(c) ==
    LET until == call[c].now + Duration
    IN /\ At(c, "heartbeat", "read")
       /\ \/ /\ slot.lease = call[c].lease /\ slot.expires > call[c].now
             /\ slot' = [slot EXCEPT !.expires = until]
             /\ crossed' = (crossed \/ until < slot.expires)
             /\ Goes(c, "slot")
          \/ /\ ~(slot.lease = call[c].lease /\ slot.expires > call[c].now)
             /\ Ends(c)
             /\ UNCHANGED <<slot, crossed>>
       /\ UNCHANGED <<task, now, overtaken>>

\* The filter of every update made under a lease.
StillLeased(c) ==
    LET t == call[c].task
    IN /\ task[t].status = "in_progress" /\ task[t].assignee = call[c].worker
       /\ task[t].lease = call[c].lease /\ task[t].expires > call[c].now

HeartbeatTask(c) ==
    /\ At(c, "heartbeat", "slot")
    /\ \/ /\ StillLeased(c)
          /\ task' = [task EXCEPT ![call[c].task].expires = call[c].now + Duration]
          /\ crossed' = (crossed \/ call[c].now + Duration < task[call[c].task].expires)
          /\ Ends(c)
       \/ /\ ~StillLeased(c)
          /\ Goes(c, "undo")
          /\ UNCHANGED <<task, crossed>>
    /\ UNCHANGED <<slot, now, overtaken>>

-----------------------------------------------------------------------------
(* The routes feedback, status and supersede, and task preparation.          *)

\* A worker reports on its task. Without a lease in the task the report is
\* accepted from anybody.
FeedbackRead(c, t, to) ==
    /\ Free(c) /\ to \in {"in_progress", "blocked", "closed"}
    /\ \/ /\ task[t].lease = None
          /\ Begins(c, [NoCall EXCEPT !.op = "feedback", !.task = t, !.to = to])
       \/ /\ LeaseMutationAllowed(t) /\ to # "in_progress"
          /\ Begins(c, [Leased("feedback", t) EXCEPT !.to = to])
    /\ Reads

FeedbackUpdate(c) ==
    LET t == call[c].task
    IN /\ At(c, "feedback", "read")
       /\ \/ /\ call[c].lease = None
             /\ task' = [task EXCEPT ![t].status = call[c].to]
             /\ Overtakes(c)
             /\ Ends(c)
          \/ /\ call[c].lease # None /\ StillLeased(c)
             /\ task' = [task EXCEPT ![t] = [Unleased(task[t]) EXCEPT !.status = call[c].to]]
             /\ Goes(c, "undo")
             /\ UNCHANGED overtaken
          \/ /\ call[c].lease # None /\ ~StillLeased(c)
             /\ Ends(c)
             /\ UNCHANGED <<task, overtaken>>
       /\ UNCHANGED <<slot, now, crossed>>

\* Preflight feedback, and a preparation that ends in a question: the filter
\* compares updatedAt, so the update sees the task it read.
Blocks(t) ==
    /\ task[t].status = "queued" /\ task[t].assignee = None /\ task[t].lease = None
    /\ task' = [task EXCEPT ![t].status = "blocked"]
    /\ UNCHANGED <<slot, call, now, crossed, overtaken>>

\* apply of pipelineTaskPreparationService, for a task that was blocked.
Prepares(t) ==
    /\ task[t].status = "blocked" /\ task[t].lease = None
    /\ task' = [task EXCEPT ![t].status = "queued", ![t].assignee = None]
    /\ UNCHANGED <<slot, call, now, crossed, overtaken>>

StatusRead(c, t, to) ==
    /\ Free(c)
    /\ Begins(c, [NoCall EXCEPT !.op = "status", !.task = t, !.to = to,
                                !.lease = task[t].lease])
    /\ Reads

\* The update of the operator names only the task. It ends the lease when it
\* read one, and requeueing also takes the worker away.
StatusUpdate(c) ==
    LET t == call[c].task  to == call[c].to
        ends == call[c].lease # None /\ to # "in_progress"
        doc == IF ends THEN Unleased(task[t]) ELSE task[t]
    IN /\ At(c, "status", "read")
       /\ task' = [task EXCEPT ![t] =
                      [doc EXCEPT !.status = to,
                                  !.assignee = IF to = "queued" THEN None ELSE doc.assignee]]
       /\ Overtakes(c)
       /\ IF ends THEN Goes(c, "undo") ELSE Ends(c)
       /\ UNCHANGED <<slot, now, crossed>>

SupersedeRead(c, t) ==
    /\ Free(c) /\ task[t].status # "closed" /\ task[t].lease = None
    /\ Begins(c, [NoCall EXCEPT !.op = "supersede", !.task = t, !.to = task[t].status])
    /\ Reads

\* The filter compares the status that was read, not the lease.
SupersedeUpdate(c) ==
    LET t == call[c].task
    IN /\ At(c, "supersede", "read")
       /\ IF task[t].status = call[c].to
          THEN task' = [task EXCEPT ![t].status = "closed"] /\ Overtakes(c)
          ELSE UNCHANGED <<task, overtaken>>
       /\ Ends(c)
       /\ UNCHANGED <<slot, now, crossed>>

-----------------------------------------------------------------------------
\* The process dies, or the database fails, between two updates.
Lost(c) == ~Free(c) /\ Ends(c) /\ Reads

Clock ==
    /\ now < MaxTime
    /\ now' = now + 1
    /\ UNCHANGED <<slot, task, call, crossed, overtaken>>

Handler(c) ==
    \/ \E w \in Workers, t \in Tasks, l \in Leases : ClaimRead(c, w, t, l)
    \/ AcquireAutomationSlot(c) \/ ClaimTask(c) \/ ReleaseAutomationSlot(c)
    \/ \E t \in Tasks : HeartbeatRead(c, t)
    \/ ExtendAutomationSlot(c) \/ HeartbeatTask(c)
    \/ \E t \in Tasks, to \in Status : FeedbackRead(c, t, to)
    \/ FeedbackUpdate(c)
    \/ \E t \in Tasks, to \in Status : StatusRead(c, t, to)
    \/ StatusUpdate(c)
    \/ \E t \in Tasks : SupersedeRead(c, t)
    \/ SupersedeUpdate(c)
    \/ Lost(c)

Next ==
    \/ \E c \in Calls : Handler(c)
    \/ \E w \in Workers, t \in Tasks : ClaimByHand(w, t)
    \/ \E t \in Tasks : Blocks(t) \/ Prepares(t)
    \/ Clock

Spec == Init /\ [][Next]_vars

-----------------------------------------------------------------------------
(* Properties.                                                               *)

\* The histories rule out heartbeats of one lease that pass each other and
\* updates of a task that was claimed since they read it.
Undisturbed == ~crossed /\ ~overtaken

Running(t) == task[t].status = "in_progress" /\ task[t].lease # None /\ task[t].expires > now

\* A worker whose lease is live has the automation slot for at least as long:
\* the two documents never disagree to the side that would let a second worker
\* in, whatever crashed between their updates and whoever moved the task by
\* hand.
LeaseCoveredBySlot ==
    \A t \in Tasks : Undisturbed /\ Running(t) =>
        slot.lease = task[t].lease /\ slot.expires >= task[t].expires

\* No task is given out for automation more often than its budget allows, even
\* by claims that read the task before others took and returned it.
AttemptsWithinBudget == \A t \in Tasks : task[t].attempts <= MaxAttempts

\* A slot whose lease is in no task, and which no handler under way works for,
\* finds no new owner and is not extended: it lapses by itself, so a crash
\* between the two updates does not block automation for longer than a lease.
Orphan(l) == (\A t \in Tasks : task[t].lease # l) /\ (\A c \in Calls : call[c].lease # l)

OrphanLapses ==
    [][ slot.lease # None /\ Orphan(slot.lease)
        => /\ slot'.lease = slot.lease => slot'.expires <= slot.expires
           /\ \A t \in Tasks : task'[t].lease # slot.lease
           /\ \A c \in Calls : call'[c].lease # slot.lease ]_vars

-----------------------------------------------------------------------------
(* What the repository says and TLC refutes.                                 *)

\* PipelineAutomationSlot.js:3 says there is a single autonomous coding slot,
\* which keeps two dispatchers from working on two tasks at once.
SingleAutomatedWorker == \A t, u \in Tasks : Running(t) /\ Running(u) => t = u
=============================================================================
