------------------------ MODULE PipelineClaimsProofs ------------------------
(* Theorems of PipelineClaims: types, the attempt budget, and that a live    *)
(* lease is covered by the automation slot, for any number of tasks, workers *)
(* and handlers and any durations.                                           *)
EXTENDS PipelineClaims, TLAPS

\* A handler in flight has a task, and its clock is not ahead. Only tasks
\* without a lease are superseded.
HandlersTyped ==
    \A c \in Calls : /\ call[c].op # "none" => call[c].task \in Tasks
                     /\ call[c].op = "supersede" => call[c].lease = None
                     /\ call[c].now <= now

Typed == TypeOK /\ HandlersTyped

-----------------------------------------------------------------------------
(* Types.                                                                    *)

LEMMA ConstantTypes ==
    /\ MaxAttempts \in Nat /\ Duration \in Nat /\ MaxTime \in Nat
    /\ \A t \in 0..MaxTime : t \in Time /\ t + Duration \in Time
    /\ 0 \in Time /\ 0 \in 0..MaxTime
BY PipelineAssumption DEF Time

LEMMA NoCallTyped == NoCall \in Handlers
BY ConstantTypes DEF NoCall, Handlers, Status

\* What a handler in flight knows.
LEMMA HandlerTypes ==
    ASSUME Typed, NEW c \in Calls
    PROVE  /\ call[c] \in Handlers
           /\ call[c].now \in Nat /\ call[c].now \in 0..MaxTime
           /\ call[c].now + Duration \in Time
           /\ call[c].op # "none" => call[c].task \in Tasks
           /\ NoCall \in Handlers
<1>1. call[c] \in Handlers /\ now \in 0..MaxTime /\ call[c].now <= now
    BY DEF Typed, TypeOK, HandlersTyped
<1>2. call[c].now \in Time
    BY <1>1 DEF Handlers
<1>3. call[c].now \in Nat /\ call[c].now \in 0..MaxTime
    BY <1>1, <1>2, ConstantTypes DEF Time
<1> QED
    BY <1>1, <1>3, ConstantTypes, NoCallTyped DEF Typed, HandlersTyped

\* Three ways to change the handlers, and what each keeps.
LEMMA BeginsTyped ==
    ASSUME Typed, NEW c \in Calls, NEW h \in Handlers, Begins(c, h),
           h.task \in Tasks, h.now <= now, now' = now,
           h.op = "supersede" => h.lease = None
    PROVE  call' \in [Calls -> Handlers] /\ HandlersTyped'
BY DEF Typed, TypeOK, HandlersTyped, Begins

LEMMA GoesTyped ==
    ASSUME Typed, NEW c \in Calls, NEW p \in {"read", "slot", "undo"}, Goes(c, p),
           now' = now
    PROVE  call' \in [Calls -> Handlers] /\ HandlersTyped'
<1>1. [call[c] EXCEPT !.phase = p] \in Handlers
    BY DEF Typed, TypeOK, Handlers
<1> QED
    BY <1>1 DEF Typed, TypeOK, HandlersTyped, Goes, Handlers

LEMMA EndsTyped ==
    ASSUME Typed, NEW c \in Calls, Ends(c), now' = now
    PROVE  call' \in [Calls -> Handlers] /\ HandlersTyped'
<1>1. NoCall.op = "none" /\ NoCall.now = 0 /\ now \in Nat
    BY ConstantTypes DEF Typed, TypeOK, NoCall
<1> QED
    BY <1>1, NoCallTyped DEF Typed, TypeOK, HandlersTyped, Ends

\* A document keeps its type when its claim changes or its lease is taken away.
LEMMA TaskTyped ==
    ASSUME Typed, NEW t \in Tasks
    PROVE  /\ task[t] \in TaskDocs
           /\ \A d \in TaskDocs : [task EXCEPT ![t] = d] \in [Tasks -> TaskDocs]
BY DEF Typed, TypeOK

LEMMA UnleasedTyped == \A d \in TaskDocs : Unleased(d) \in TaskDocs
BY ConstantTypes DEF TaskDocs, Unleased

LEMMA MovedTyped ==
    \A d \in TaskDocs, to \in Status :
        /\ [d EXCEPT !.status = to] \in TaskDocs
        /\ [d EXCEPT !.status = to, !.assignee = IF to = "queued" THEN None ELSE d.assignee] \in TaskDocs
BY DEF TaskDocs

LEMMA TypeStep == Typed /\ [Next]_vars => Typed'
<1> SUFFICES ASSUME Typed, [Next]_vars PROVE TypeOK' /\ HandlersTyped'
    BY DEF Typed
<1> USE ConstantTypes
<1>a. ASSUME NEW c \in Calls, NEW w \in Workers, NEW t \in Tasks, NEW l \in Leases,
             ClaimRead(c, w, t, l)
      PROVE  TypeOK' /\ HandlersTyped'
    <2> DEFINE h == [NoCall EXCEPT !.op = "claim", !.worker = w, !.task = t, !.lease = l,
                                   !.count = task[t].attempts, !.now = now]
    <2>1. h \in Handlers
        BY <1>a, TaskTyped, NoCallTyped DEF Handlers, TaskDocs, Typed, TypeOK
    <2>2. h.op = "claim" /\ h.task = t /\ h.now = now /\ now <= now
        BY DEF NoCall, Typed, TypeOK
    <2> QED
        BY <1>a, <2>1, <2>2, BeginsTyped DEF ClaimRead, Reads, Typed, TypeOK
<1>b. ASSUME NEW c \in Calls, AcquireAutomationSlot(c) PROVE TypeOK' /\ HandlersTyped'
    <2>1. slot' \in [lease : Leases \cup {None}, expires : Time]
        BY <1>b, HandlerTypes DEF AcquireAutomationSlot, Typed, TypeOK, Handlers
    <2> QED
        BY <1>b, <2>1, GoesTyped, EndsTyped DEF AcquireAutomationSlot, Typed, TypeOK
<1>c. ASSUME NEW c \in Calls, ClaimTask(c) PROVE TypeOK' /\ HandlersTyped'
    <2>1. call[c].task \in Tasks /\ call[c] \in Handlers /\ call[c].now + Duration \in Time
        BY <1>c, HandlerTypes DEF ClaimTask, At
    <2>2. task' \in [Tasks -> TaskDocs]
        BY <1>c, <2>1, TaskTyped DEF ClaimTask, Typed, TypeOK, TaskDocs, Status, Handlers
    <2> QED
        BY <1>c, <2>2, GoesTyped, EndsTyped DEF ClaimTask, Typed, TypeOK
<1>d. ASSUME NEW c \in Calls, ReleaseAutomationSlot(c) PROVE TypeOK' /\ HandlersTyped'
    <2>1. slot' \in [lease : Leases \cup {None}, expires : Time]
        BY <1>d DEF ReleaseAutomationSlot, Typed, TypeOK
    <2> QED
        BY <1>d, <2>1, EndsTyped DEF ReleaseAutomationSlot, Typed, TypeOK
<1>e. ASSUME NEW c \in Calls, NEW t \in Tasks, HeartbeatRead(c, t)
      PROVE  TypeOK' /\ HandlersTyped'
    <2>1. Leased("heartbeat", t) \in Handlers
        BY TaskTyped, NoCallTyped DEF Leased, Handlers, TaskDocs, Typed, TypeOK
    <2>2. Leased("heartbeat", t).task = t /\ Leased("heartbeat", t).now = now /\ now <= now
         /\ Leased("heartbeat", t).op = "heartbeat"
        BY DEF Leased, NoCall, Typed, TypeOK
    <2> QED
        BY <1>e, <2>1, <2>2, BeginsTyped DEF HeartbeatRead, Reads, Typed, TypeOK
<1>f. ASSUME NEW c \in Calls, ExtendAutomationSlot(c) PROVE TypeOK' /\ HandlersTyped'
    <2>1. slot' \in [lease : Leases \cup {None}, expires : Time]
        BY <1>f, HandlerTypes DEF ExtendAutomationSlot, Typed, TypeOK
    <2>2. crossed' \in BOOLEAN
        BY <1>f DEF ExtendAutomationSlot, Typed, TypeOK
    <2> QED
        BY <1>f, <2>1, <2>2, GoesTyped, EndsTyped DEF ExtendAutomationSlot, Typed, TypeOK
<1>g. ASSUME NEW c \in Calls, HeartbeatTask(c) PROVE TypeOK' /\ HandlersTyped'
    <2>1. call[c].task \in Tasks /\ call[c].now + Duration \in Time
        BY <1>g, HandlerTypes DEF HeartbeatTask, At
    <2>2. task' \in [Tasks -> TaskDocs]
        BY <1>g, <2>1, TaskTyped DEF HeartbeatTask, Typed, TypeOK, TaskDocs
    <2>3. crossed' \in BOOLEAN
        BY <1>g DEF HeartbeatTask, Typed, TypeOK
    <2> QED
        BY <1>g, <2>2, <2>3, GoesTyped, EndsTyped DEF HeartbeatTask, Typed, TypeOK
<1>h. ASSUME NEW c \in Calls, NEW t \in Tasks, NEW to \in Status, FeedbackRead(c, t, to)
      PROVE  TypeOK' /\ HandlersTyped'
    <2> DEFINE plain == [NoCall EXCEPT !.op = "feedback", !.task = t, !.to = to]
               led == [Leased("feedback", t) EXCEPT !.to = to]
    <2>1. plain \in Handlers /\ plain.task = t /\ plain.now = 0
         /\ plain.op = "feedback"
        BY NoCallTyped DEF Handlers, NoCall
    <2>2. led \in Handlers /\ led.task = t /\ led.now = now
         /\ led.op = "feedback"
        BY TaskTyped, NoCallTyped DEF Leased, Handlers, TaskDocs, Typed, TypeOK, NoCall
    <2>3. 0 <= now /\ now <= now
        BY DEF Typed, TypeOK
    <2> QED
        BY <1>h, <2>1, <2>2, <2>3, BeginsTyped DEF FeedbackRead, Reads, Typed, TypeOK
<1>i. ASSUME NEW c \in Calls, FeedbackUpdate(c) PROVE TypeOK' /\ HandlersTyped'
    <2>1. call[c].task \in Tasks /\ call[c].to \in Status
        BY <1>i, HandlerTypes DEF FeedbackUpdate, At, Handlers
    <2> DEFINE plain == [task[call[c].task] EXCEPT !.status = call[c].to]
               ended == [Unleased(task[call[c].task]) EXCEPT !.status = call[c].to]
    <2>a. plain \in TaskDocs /\ ended \in TaskDocs
        BY <2>1, TaskTyped, UnleasedTyped, MovedTyped
    <2>b. \/ task' = [task EXCEPT ![call[c].task] = plain]
          \/ task' = [task EXCEPT ![call[c].task] = ended]
          \/ task' = task
        BY <1>i DEF FeedbackUpdate
    <2>2. task' \in [Tasks -> TaskDocs]
        <3> HIDE DEF plain, ended
        <3> QED
            BY <2>a, <2>b, <2>1, TaskTyped DEF Typed, TypeOK
    <2>3. overtaken' \in BOOLEAN
        BY <1>i DEF FeedbackUpdate, Overtakes, Typed, TypeOK
    <2> QED
        BY <1>i, <2>2, <2>3, GoesTyped, EndsTyped DEF FeedbackUpdate, Typed, TypeOK
<1>j. ASSUME NEW c \in Calls, NEW t \in Tasks, NEW to \in Status, StatusRead(c, t, to)
      PROVE  TypeOK' /\ HandlersTyped'
    <2> DEFINE h == [NoCall EXCEPT !.op = "status", !.task = t, !.to = to,
                                   !.lease = task[t].lease]
    <2>1. h \in Handlers /\ h.task = t /\ h.now = 0 /\ h.op = "status"
        BY TaskTyped, NoCallTyped DEF Handlers, TaskDocs, NoCall
    <2>2. 0 <= now
        BY DEF Typed, TypeOK
    <2> QED
        BY <1>j, <2>1, <2>2, BeginsTyped DEF StatusRead, Reads, Typed, TypeOK
<1>k. ASSUME NEW c \in Calls, StatusUpdate(c) PROVE TypeOK' /\ HandlersTyped'
    <2>1. call[c].task \in Tasks /\ call[c].to \in Status
        BY <1>k, HandlerTypes DEF StatusUpdate, At, Handlers
    <2> DEFINE to == call[c].to
               ends == call[c].lease # None /\ to # "in_progress"
               old == IF ends THEN Unleased(task[call[c].task]) ELSE task[call[c].task]
               new == [old EXCEPT !.status = to, !.assignee = IF to = "queued" THEN None ELSE old.assignee]
    <2>a. old \in TaskDocs
        BY <2>1, TaskTyped, UnleasedTyped
    <2>b. new \in TaskDocs
        <3> HIDE DEF old
        <3> QED
            BY <2>1, <2>a, MovedTyped
    <2>c. task' = [task EXCEPT ![call[c].task] = new]
        BY <1>k DEF StatusUpdate
    <2>2. task' \in [Tasks -> TaskDocs]
        <3> HIDE DEF new
        <3> QED
            BY <2>b, <2>c, <2>1, TaskTyped
    <2>3. overtaken' \in BOOLEAN
        BY <1>k DEF StatusUpdate, Overtakes, Typed, TypeOK
    <2> QED
        BY <1>k, <2>2, <2>3, GoesTyped, EndsTyped DEF StatusUpdate, Typed, TypeOK
<1>l. ASSUME NEW c \in Calls, NEW t \in Tasks, SupersedeRead(c, t)
      PROVE  TypeOK' /\ HandlersTyped'
    <2> DEFINE h == [NoCall EXCEPT !.op = "supersede", !.task = t, !.to = task[t].status]
    <2>1. h \in Handlers /\ h.task = t /\ h.now = 0 /\ h.lease = None
        BY TaskTyped, NoCallTyped DEF Handlers, TaskDocs, NoCall
    <2>2. 0 <= now
        BY DEF Typed, TypeOK
    <2> QED
        BY <1>l, <2>1, <2>2, BeginsTyped DEF SupersedeRead, Reads, Typed, TypeOK
<1>m. ASSUME NEW c \in Calls, SupersedeUpdate(c) PROVE TypeOK' /\ HandlersTyped'
    <2>1. call[c].task \in Tasks
        BY <1>m, HandlerTypes DEF SupersedeUpdate, At
    <2>2. task' \in [Tasks -> TaskDocs]
        BY <1>m, <2>1, TaskTyped DEF SupersedeUpdate, Typed, TypeOK, TaskDocs, Status
    <2>3. overtaken' \in BOOLEAN
        BY <1>m DEF SupersedeUpdate, Overtakes, Typed, TypeOK
    <2> QED
        BY <1>m, <2>2, <2>3, EndsTyped DEF SupersedeUpdate, Typed, TypeOK
<1>n. ASSUME NEW c \in Calls, Lost(c) PROVE TypeOK' /\ HandlersTyped'
    BY <1>n, EndsTyped DEF Lost, Reads, Typed, TypeOK
<1>o. ASSUME NEW w \in Workers, NEW t \in Tasks, ClaimByHand(w, t)
      PROVE  TypeOK' /\ HandlersTyped'
    <2> DEFINE d == [task[t] EXCEPT !.status = "in_progress", !.assignee = w]
    <2>a. d \in TaskDocs
        BY TaskTyped DEF TaskDocs, Status
    <2>b. task' = [task EXCEPT ![t] = d]
        BY <1>o DEF ClaimByHand, Typed, TypeOK
    <2>1. task' \in [Tasks -> TaskDocs]
        <3> HIDE DEF d
        <3> QED
            BY <2>a, <2>b, TaskTyped
    <2> QED
        BY <1>o, <2>1 DEF ClaimByHand, Typed, TypeOK, HandlersTyped
<1>p. ASSUME NEW t \in Tasks, Blocks(t) \/ Prepares(t) PROVE TypeOK' /\ HandlersTyped'
    <2>1. task' \in [Tasks -> TaskDocs]
        BY <1>p, TaskTyped DEF Blocks, Prepares, Typed, TypeOK, TaskDocs, Status
    <2> QED
        BY <1>p, <2>1 DEF Blocks, Prepares, Typed, TypeOK, HandlersTyped
<1>q. ASSUME Clock PROVE TypeOK' /\ HandlersTyped'
    <2>1. now' \in 0..MaxTime
        BY <1>q DEF Clock, Typed, TypeOK
    <2>2. \A c \in Calls : call[c].now \in Nat /\ call[c].now <= now
        BY HandlerTypes DEF Typed, HandlersTyped
    <2>3. \A c \in Calls : call[c].now <= now + 1
        BY <2>2 DEF Typed, TypeOK
    <2> QED
        BY <1>q, <2>1, <2>3 DEF Clock, Typed, TypeOK, HandlersTyped
<1>r. CASE UNCHANGED vars
    BY <1>r DEF vars, Typed, TypeOK, HandlersTyped
<1> QED
    BY <1>a, <1>b, <1>c, <1>d, <1>e, <1>f, <1>g, <1>h, <1>i, <1>j, <1>k, <1>l, <1>m,
       <1>n, <1>o, <1>p, <1>q, <1>r DEF Next, Handler

LEMMA TypeInit == Init => Typed
<1> SUFFICES ASSUME Init PROVE Typed
    OBVIOUS
<1> USE ConstantTypes
<1>1. NoCall.op = "none" /\ NoCall.now = 0
    BY DEF NoCall
<1>2. call \in [Calls -> Handlers] /\ HandlersTyped
    BY <1>1, NoCallTyped DEF Init, HandlersTyped
<1>3. task \in [Tasks -> TaskDocs]
    BY DEF Init, TaskDocs, Status
<1> QED
    BY <1>2, <1>3 DEF Init, Typed, TypeOK

\* Every variable keeps its type, for any constants.
THEOREM PipelineTyped == Spec => []Typed
BY TypeInit, TypeStep, PTL DEF Spec

-----------------------------------------------------------------------------
(* The attempt budget: the count a claim compares was read below it.         *)

Counted == \A c \in Calls : call[c].op = "claim" => call[c].count < MaxAttempts

BudgetInv == Typed /\ Counted /\ AttemptsWithinBudget

LEMMA CountedStep == BudgetInv /\ [Next]_vars => Counted'
<1> SUFFICES ASSUME BudgetInv, [Next]_vars, NEW e \in Calls, call'[e].op = "claim"
             PROVE  call'[e].count < MaxAttempts
    BY DEF Counted
<1> USE DEF BudgetInv, Counted, Typed, TypeOK
<1>0. NoCall.op # "claim"
    BY DEF NoCall
<1>1. CASE call'[e] = call[e]
    BY <1>1
<1>2. ASSUME NEW c \in Calls, NEW p \in {"slot", "undo"}, Goes(c, p)
      PROVE  call'[e].count < MaxAttempts
    <2>1. call'[e] = call[e] \/ call'[e] = [call[e] EXCEPT !.phase = p]
        BY <1>2 DEF Goes
    <2>2. call[e] \in Handlers
        OBVIOUS
    <2>3. call'[e].op = call[e].op /\ call'[e].count = call[e].count
        BY <2>1, <2>2 DEF Handlers
    <2>4. \A c1 \in Calls : call[c1].op = "claim" => call[c1].count < MaxAttempts
        OBVIOUS
    <2> QED
        BY <2>3, <2>4
<1>3. ASSUME NEW c \in Calls, Ends(c) PROVE call'[e].count < MaxAttempts
    BY <1>3, <1>0 DEF Ends
<1>4. ASSUME NEW c \in Calls, NEW w \in Workers, NEW t \in Tasks, NEW l \in Leases,
             ClaimRead(c, w, t, l)
      PROVE  call'[e].count < MaxAttempts
    <2> DEFINE h == [NoCall EXCEPT !.op = "claim", !.worker = w, !.task = t, !.lease = l,
                                   !.count = task[t].attempts, !.now = now]
    <2>1. h.count = task[t].attempts
        BY DEF NoCall
    <2>2. call'[e] = h \/ call'[e] = call[e]
        BY <1>4 DEF ClaimRead, Begins
    <2> QED
        BY <1>4, <2>1, <2>2 DEF ClaimRead
<1>5. ASSUME NEW c \in Calls, NEW h, Begins(c, h), h.op # "claim"
      PROVE  call'[e].count < MaxAttempts
    BY <1>5 DEF Begins
<1>6. \A t \in Tasks, to \in Status, o \in {"heartbeat", "feedback"} :
          /\ Leased(o, t).op # "claim"
          /\ [Leased(o, t) EXCEPT !.to = to].op # "claim"
          /\ [NoCall EXCEPT !.op = o, !.task = t, !.to = to].op # "claim"
          /\ [NoCall EXCEPT !.op = "status", !.task = t, !.to = to,
                            !.lease = task[t].lease].op # "claim"
          /\ [NoCall EXCEPT !.op = "supersede", !.task = t, !.to = task[t].status].op # "claim"
    BY DEF Leased, NoCall
<1>7. ASSUME NEW c \in Calls, NEW t \in Tasks, NEW to \in Status,
             \/ HeartbeatRead(c, t) \/ FeedbackRead(c, t, to)
             \/ StatusRead(c, t, to) \/ SupersedeRead(c, t)
      PROVE  call'[e].count < MaxAttempts
    BY <1>5, <1>6, <1>7 DEF HeartbeatRead, FeedbackRead, StatusRead, SupersedeRead
<1>8. ASSUME NEW c \in Calls,
             \/ AcquireAutomationSlot(c) \/ ClaimTask(c) \/ ReleaseAutomationSlot(c)
             \/ ExtendAutomationSlot(c) \/ HeartbeatTask(c) \/ FeedbackUpdate(c)
             \/ StatusUpdate(c) \/ SupersedeUpdate(c) \/ Lost(c)
      PROVE  call'[e].count < MaxAttempts
    BY <1>1, <1>2, <1>3, <1>8
       DEF AcquireAutomationSlot, ClaimTask, ReleaseAutomationSlot, ExtendAutomationSlot,
           HeartbeatTask, FeedbackUpdate, StatusUpdate, SupersedeUpdate, Lost
<1>9. CASE \/ \E w \in Workers, t \in Tasks : ClaimByHand(w, t)
           \/ \E t \in Tasks : Blocks(t) \/ Prepares(t)
           \/ Clock \/ UNCHANGED vars
    BY <1>1, <1>9 DEF ClaimByHand, Blocks, Prepares, Clock, vars
<1>10. "queued" \in Status
    BY DEF Status
<1>11. ASSUME NEW c \in Calls, Handler(c) PROVE call'[e].count < MaxAttempts
    BY <1>4, <1>7, <1>8, <1>10, <1>11 DEF Handler
<1> QED
    BY <1>9, <1>11 DEF Next

\* Every step but ClaimTask keeps the counts.
LEMMA AttemptsStep == BudgetInv /\ [Next]_vars => AttemptsWithinBudget'
<1> SUFFICES ASSUME BudgetInv, [Next]_vars, NEW t \in Tasks
             PROVE  task'[t].attempts <= MaxAttempts
    BY DEF AttemptsWithinBudget
<1> USE DEF BudgetInv, Typed
<1>0. task \in [Tasks -> TaskDocs] /\ task[t].attempts <= MaxAttempts
    BY DEF TypeOK, AttemptsWithinBudget
<1>1. CASE task' = task
    BY <1>0, <1>1
<1>2. ASSUME NEW u \in Tasks, NEW d \in TaskDocs, task' = [task EXCEPT ![u] = d],
             d.attempts <= MaxAttempts
      PROVE  task'[t].attempts <= MaxAttempts
    BY <1>0, <1>2
<1>3. \A d \in TaskDocs : Unleased(d).attempts = d.attempts /\ Unleased(d) \in TaskDocs
    BY UnleasedTyped DEF Unleased, TaskDocs
<1>4. \A d \in TaskDocs, to \in Status, a \in Workers \cup {None} :
          [d EXCEPT !.status = to, !.assignee = a].attempts = d.attempts
    BY DEF TaskDocs
<1>5. ASSUME NEW c \in Calls, ClaimTask(c) PROVE task'[t].attempts <= MaxAttempts
    <2>1. call[c].count < MaxAttempts /\ call[c] \in Handlers /\ call[c].task \in Tasks
        BY <1>5, HandlerTypes DEF ClaimTask, At, Counted
    <2>2. CASE t = call[c].task
        <3>1. CASE task' = task
            BY <1>0, <3>1
        <3>2. CASE Available(c) /\ task'[t].attempts = task[t].attempts + 1
            <4>1. task[t].attempts = call[c].count
                BY <2>2, <3>2 DEF Available
            <4> QED
                BY <4>1, <3>2, <2>1, <1>0, ConstantTypes DEF TaskDocs, Handlers
        <3>3. task' = task \/ (Available(c) /\ task'[t].attempts = task[t].attempts + 1)
            BY <1>5, <1>0, <2>1, <2>2 DEF ClaimTask
        <3> QED
            BY <3>1, <3>2, <3>3
    <2>3. CASE t # call[c].task
        BY <1>5, <1>0, <2>1, <2>3 DEF ClaimTask
    <2> QED
        BY <2>2, <2>3
<1>6. ASSUME NEW c \in Calls, HeartbeatTask(c) PROVE task'[t].attempts <= MaxAttempts
    BY <1>6, <1>0 DEF HeartbeatTask, TaskDocs
<1>7. ASSUME NEW c \in Calls, FeedbackUpdate(c) PROVE task'[t].attempts <= MaxAttempts
    <2>1. call[c].task \in Tasks /\ task[call[c].task] \in TaskDocs
        BY <1>7, HandlerTypes, TaskTyped DEF FeedbackUpdate, At
    <2>2. \A d \in TaskDocs : [d EXCEPT !.status = call[c].to].attempts = d.attempts
        BY DEF TaskDocs
    <2> DEFINE d == [Unleased(task[call[c].task]) EXCEPT !.status = call[c].to]
               e == [task[call[c].task] EXCEPT !.status = call[c].to]
    <2>3. d.attempts = task[call[c].task].attempts /\ e.attempts = task[call[c].task].attempts
        BY <1>3, <2>1, <2>2
    <2>4. \/ task' = task
          \/ task' = [task EXCEPT ![call[c].task] = d]
          \/ task' = [task EXCEPT ![call[c].task] = e]
        BY <1>7 DEF FeedbackUpdate
    <2>5. task'[t].attempts = task[t].attempts
        <3> HIDE DEF d, e
        <3> QED
            BY <1>0, <2>1, <2>3, <2>4
    <2> QED
        BY <2>5, <1>0
<1>8. ASSUME NEW c \in Calls, StatusUpdate(c) PROVE task'[t].attempts <= MaxAttempts
    <2> DEFINE to == call[c].to
               ends == call[c].lease # None /\ to # "in_progress"
               old == IF ends THEN Unleased(task[call[c].task]) ELSE task[call[c].task]
               new == [old EXCEPT !.status = to,
                                  !.assignee = IF to = "queued" THEN None ELSE old.assignee]
    <2>1. call[c].task \in Tasks /\ task[call[c].task] \in TaskDocs
        BY <1>8, HandlerTypes, TaskTyped DEF StatusUpdate, At
    <2>2. old \in TaskDocs /\ old.attempts = task[call[c].task].attempts
        BY <1>3, <2>1
    <2>3. new.attempts = old.attempts
        <3> HIDE DEF old
        <3> QED
            BY <2>2 DEF TaskDocs
    <2>4. task' = [task EXCEPT ![call[c].task] = new]
        BY <1>8 DEF StatusUpdate
    <2>5. task'[t].attempts = task[t].attempts
        <3> HIDE DEF new, old
        <3> QED
            BY <2>1, <2>2, <2>3, <2>4, <1>0
    <2> QED
        BY <2>5, <1>0
<1>9. ASSUME NEW c \in Calls, SupersedeUpdate(c) PROVE task'[t].attempts <= MaxAttempts
    BY <1>9, <1>0 DEF SupersedeUpdate, TaskDocs
<1>10. ASSUME NEW w \in Workers, NEW u \in Tasks,
              ClaimByHand(w, u) \/ Blocks(u) \/ Prepares(u)
       PROVE  task'[t].attempts <= MaxAttempts
    BY <1>10, <1>0 DEF ClaimByHand, Blocks, Prepares, TaskDocs
<1>11. ASSUME NEW u \in Tasks, Blocks(u) \/ Prepares(u)
       PROVE  task'[t].attempts <= MaxAttempts
    BY <1>11, <1>0 DEF Blocks, Prepares, TaskDocs
<1>12. ASSUME NEW c \in Calls, Handler(c) PROVE task'[t].attempts <= MaxAttempts
    BY <1>12, <1>1, <1>5, <1>6, <1>7, <1>8, <1>9
       DEF Handler, ClaimRead, AcquireAutomationSlot, ReleaseAutomationSlot, HeartbeatRead,
           ExtendAutomationSlot, FeedbackRead, StatusRead, SupersedeRead, Lost, Reads
<1>13. CASE Clock \/ UNCHANGED vars
    BY <1>13, <1>1 DEF Clock, vars
<1> QED
    BY <1>10, <1>11, <1>12, <1>13 DEF Next

\* Claims that read a task before others took it and gave it back do not
\* exceed its budget, however many run at a time.
THEOREM BudgetKept == Spec => []AttemptsWithinBudget
<1>1. Init => BudgetInv
    <2> SUFFICES ASSUME Init PROVE BudgetInv
        OBVIOUS
    <2>1. Typed
        BY TypeInit
    <2>2. \A t \in Tasks : task[t].attempts = 0
        BY DEF Init
    <2>3. \A c \in Calls : call[c].op = "none"
        BY DEF Init, NoCall
    <2> QED
        BY <2>1, <2>2, <2>3, ConstantTypes DEF BudgetInv, Counted, AttemptsWithinBudget
<1>2. BudgetInv /\ [Next]_vars => BudgetInv'
    BY TypeStep, CountedStep, AttemptsStep DEF BudgetInv
<1>3. BudgetInv => AttemptsWithinBudget
    BY DEF BudgetInv
<1> QED
    BY <1>1, <1>2, <1>3, PTL DEF Spec

-----------------------------------------------------------------------------
(* What one step does to one task, one handler and the slot. The proofs      *)
(* below look at these effects and no more at the actions.                   *)

\* A leased task runs, and belongs to the holder of its lease.
Intact(t) == task[t].lease # None => task[t].status = "in_progress"
                                     /\ task[t].assignee = task[t].holder

SameLease(t) == task'[t].lease = task[t].lease /\ task'[t].holder = task[t].holder

Takes(c, t) ==
    /\ At(c, "claim", "slot") /\ call[c].task = t
    /\ task'[t].lease = call[c].lease /\ task'[t].holder = call[c].worker
    /\ task'[t].expires = call[c].now + Duration
    /\ task'[t].status = "in_progress" /\ task'[t].assignee = call[c].worker
    /\ \A u \in Tasks \ {t} : task'[u] = task[u]
    /\ Ends(c) /\ slot' = slot /\ now' = now

Renews(c, t) ==
    /\ At(c, "heartbeat", "slot") /\ call[c].task = t
    /\ task[t].lease = call[c].lease /\ SameLease(t)
    /\ task'[t].expires = call[c].now + Duration
    /\ task'[t].status = task[t].status /\ task'[t].assignee = task[t].assignee
    /\ crossed' \/ task[t].expires <= call[c].now + Duration
    /\ slot' = slot /\ now' = now

Keeps(t) ==
    /\ SameLease(t) /\ task'[t].expires = task[t].expires
    /\ overtaken' \/ (Intact(t) => Intact(t)')

TaskEffect(t) ==
    \/ task'[t].lease = None
    \/ Keeps(t)
    \/ \E c \in Calls : Takes(c, t) \/ Renews(c, t)

LEMMA TaskStep == ASSUME Typed, [Next]_vars, NEW t \in Tasks PROVE TaskEffect(t)
<1>0. task \in [Tasks -> TaskDocs] /\ task[t] \in TaskDocs
    BY DEF Typed, TypeOK
<1>1. CASE task'[t] = task[t]
    BY <1>1 DEF TaskEffect, Keeps, SameLease, Intact
<1>2. ASSUME NEW c \in Calls, ClaimTask(c) PROVE TaskEffect(t)
    <2>1. call[c].task \in Tasks
        BY <1>2, HandlerTypes DEF ClaimTask, At
    <2>2. CASE t = call[c].task /\ ~UNCHANGED task
        <3>1. Takes(c, t)
            BY <1>0, <1>2, <2>2 DEF ClaimTask, Takes
        <3> QED
            BY <3>1 DEF TaskEffect
    <2>3. CASE t # call[c].task \/ UNCHANGED task
        BY <1>0, <1>1, <1>2, <2>1, <2>3 DEF ClaimTask
    <2> QED
        BY <2>2, <2>3
<1>3. ASSUME NEW c \in Calls, HeartbeatTask(c) PROVE TaskEffect(t)
    <2>1. call[c].task \in Tasks /\ call[c].now + Duration \in Nat
        BY <1>3, HandlerTypes, ConstantTypes DEF HeartbeatTask, At, Time
    <2>2. CASE t = call[c].task /\ StillLeased(c)
        <3>1. /\ task'[t].lease = task[t].lease /\ task'[t].holder = task[t].holder
              /\ task'[t].expires = call[c].now + Duration
              /\ task'[t].status = task[t].status /\ task'[t].assignee = task[t].assignee
            BY <1>0, <1>3, <2>2 DEF HeartbeatTask, TaskDocs
        <3>2. crossed' = (crossed \/ call[c].now + Duration < task[t].expires)
            BY <1>3, <2>2 DEF HeartbeatTask
        <3>3. task[t].expires \in Nat
            BY <1>0, ConstantTypes DEF TaskDocs, Time
        <3>4. crossed' \/ ~(call[c].now + Duration < task[t].expires)
            BY <3>2
        <3>5. crossed' \/ task[t].expires <= call[c].now + Duration
            BY <3>3, <3>4, <2>1
        <3>6. Renews(c, t)
            BY <1>3, <2>2, <3>1, <3>5 DEF HeartbeatTask, StillLeased, Renews, SameLease
        <3> QED
            BY <3>6 DEF TaskEffect
    <2>3. CASE ~(t = call[c].task /\ StillLeased(c))
        BY <1>0, <1>1, <1>3, <2>1, <2>3 DEF HeartbeatTask
    <2> QED
        BY <2>2, <2>3
<1>4. ASSUME NEW c \in Calls, FeedbackUpdate(c) PROVE TaskEffect(t)
    <2>1. call[c].task \in Tasks
        BY <1>4, HandlerTypes DEF FeedbackUpdate, At
    <2>2. CASE t # call[c].task \/ task' = task
        BY <1>0, <1>1, <1>4, <2>1, <2>2 DEF FeedbackUpdate
    <2>3. CASE t = call[c].task /\ call[c].lease = None /\ Overtakes(c)
               /\ task' = [task EXCEPT ![t].status = call[c].to]
        <3>1. /\ task'[t].lease = task[t].lease /\ task'[t].holder = task[t].holder
              /\ task'[t].expires = task[t].expires
            BY <1>0, <2>3 DEF TaskDocs
        <3>2. overtaken' \/ task[t].lease = None
            BY <2>3 DEF Overtakes
        <3> QED
            BY <3>1, <3>2 DEF TaskEffect, Keeps, SameLease
    <2>4. CASE t = call[c].task
               /\ task' = [task EXCEPT ![t] = [Unleased(task[t]) EXCEPT !.status = call[c].to]]
        <3>1. Unleased(task[t]) \in TaskDocs /\ Unleased(task[t]).lease = None
            BY <1>0, UnleasedTyped DEF Unleased, TaskDocs
        <3>2. [Unleased(task[t]) EXCEPT !.status = call[c].to].lease = None
            BY <3>1 DEF TaskDocs
        <3>3. task'[t].lease = None
            BY <1>0, <2>4, <3>2
        <3> QED
            BY <3>3 DEF TaskEffect
    <2> QED
        BY <1>4, <2>2, <2>3, <2>4 DEF FeedbackUpdate
<1>5. ASSUME NEW c \in Calls, StatusUpdate(c) PROVE TaskEffect(t)
    <2> DEFINE to == call[c].to
               ends == call[c].lease # None /\ to # "in_progress"
               old == IF ends THEN Unleased(task[call[c].task]) ELSE task[call[c].task]
               new == [old EXCEPT !.status = to,
                                  !.assignee = IF to = "queued" THEN None ELSE old.assignee]
    <2>1. call[c].task \in Tasks /\ task[call[c].task] \in TaskDocs
        BY <1>5, HandlerTypes, TaskTyped DEF StatusUpdate, At
    <2>2. task' = [task EXCEPT ![call[c].task] = new]
        BY <1>5 DEF StatusUpdate
    <2>3. old \in TaskDocs
        BY <2>1, UnleasedTyped
    <2>4. /\ new.lease = old.lease /\ new.holder = old.holder /\ new.expires = old.expires
          /\ new.status = to
          /\ to # "queued" => new.assignee = old.assignee
        <3> HIDE DEF old
        <3> QED
            BY <2>3 DEF TaskDocs
    <2>5. CASE t # call[c].task
        <3> HIDE DEF new
        <3> QED
            BY <1>0, <1>1, <2>1, <2>2, <2>5
    <2>6. CASE t = call[c].task /\ ends
        <3>1. old.lease = None
            BY <2>1, <2>6 DEF Unleased, TaskDocs
        <3>2. task'[t] = new
            <4> HIDE DEF new
            <4> QED
                BY <1>0, <2>1, <2>2, <2>6
        <3>3. task'[t].lease = None
            <4> HIDE DEF new, old
            <4> QED
                BY <3>1, <3>2, <2>4
        <3> QED
            BY <3>3 DEF TaskEffect
    <2>7. CASE t = call[c].task /\ ~ends
        <3>1. old = task[t]
            BY <2>7
        <3>2. task'[t] = new
            <4> HIDE DEF new
            <4> QED
                BY <1>0, <2>1, <2>2, <2>7
        <3>3. /\ task'[t].lease = task[t].lease /\ task'[t].holder = task[t].holder
              /\ task'[t].expires = task[t].expires /\ task'[t].status = to
              /\ to # "queued" => task'[t].assignee = task[t].assignee
            <4> HIDE DEF new, old
            <4> QED
                BY <3>1, <3>2, <2>4
        <3>4. overtaken' \/ task[t].lease = call[c].lease
            BY <1>5, <2>7 DEF StatusUpdate, Overtakes
        <3>5. overtaken' \/ (Intact(t) => Intact(t)')
            BY <3>3, <3>4, <2>7 DEF Intact
        <3> QED
            BY <3>3, <3>5 DEF TaskEffect, Keeps, SameLease
    <2> QED
        BY <2>5, <2>6, <2>7
<1>6. ASSUME NEW c \in Calls, SupersedeUpdate(c) PROVE TaskEffect(t)
    <2>1. call[c].task \in Tasks
        BY <1>6, HandlerTypes DEF SupersedeUpdate, At
    <2>4. call[c].lease = None
        BY <1>6 DEF SupersedeUpdate, At, Typed, HandlersTyped
    <2>2. CASE t # call[c].task \/ task' = task
        BY <1>0, <1>1, <1>6, <2>1, <2>2 DEF SupersedeUpdate
    <2>3. CASE t = call[c].task /\ Overtakes(c)
               /\ task' = [task EXCEPT ![t].status = "closed"]
        <3>1. /\ task'[t].lease = task[t].lease /\ task'[t].holder = task[t].holder
              /\ task'[t].expires = task[t].expires
            BY <1>0, <2>3 DEF TaskDocs
        <3>2. overtaken' \/ task[t].lease = call[c].lease
            BY <2>3 DEF Overtakes
        <3>3. CASE task[t].lease = None
            BY <3>1, <3>3 DEF TaskEffect
        <3>4. CASE overtaken'
            BY <3>1, <3>4 DEF TaskEffect, Keeps, SameLease
        <3> QED
            BY <2>4, <3>2, <3>3, <3>4
    <2> QED
        BY <1>6, <2>2, <2>3 DEF SupersedeUpdate
<1>7. ASSUME NEW w \in Workers, NEW u \in Tasks, ClaimByHand(w, u) PROVE TaskEffect(t)
    <2>1. CASE t # u
        BY <1>0, <1>1, <1>7, <2>1 DEF ClaimByHand
    <2>2. CASE t = u
        <3>1. SameLease(t) /\ task'[t].expires = task[t].expires
            BY <1>0, <1>7, <2>2 DEF ClaimByHand, TaskDocs, SameLease
        <3>2. Intact(t) => task[t].lease = None
            BY <1>7, <2>2 DEF ClaimByHand, Intact
        <3>3. Intact(t) => Intact(t)'
            BY <3>1, <3>2 DEF Intact, SameLease
        <3> QED
            BY <3>1, <3>3 DEF TaskEffect, Keeps
    <2> QED
        BY <2>1, <2>2
<1>8. ASSUME NEW u \in Tasks, Blocks(u) \/ Prepares(u) PROVE TaskEffect(t)
    <2>1. CASE t # u
        BY <1>0, <1>1, <1>8, <2>1 DEF Blocks, Prepares
    <2>2. CASE t = u
        BY <1>0, <1>8, <2>2 DEF Blocks, Prepares, TaskDocs, TaskEffect
    <2> QED
        BY <2>1, <2>2
<1>9. ASSUME NEW c \in Calls, Handler(c) PROVE TaskEffect(t)
    BY <1>9, <1>1, <1>2, <1>3, <1>4, <1>5, <1>6
       DEF Handler, ClaimRead, AcquireAutomationSlot, ReleaseAutomationSlot, HeartbeatRead,
           ExtendAutomationSlot, FeedbackRead, StatusRead, SupersedeRead, Lost, Reads
<1>10. CASE Clock \/ UNCHANGED vars
    BY <1>10, <1>1 DEF Clock, vars
<1> QED
    BY <1>7, <1>8, <1>9, <1>10 DEF Next

\* The slot changes hands only when it is free or lapsed, is cleared only by
\* the handler of its lease, and otherwise only gains time, unless heartbeats
\* crossed.
SlotEffect ==
    /\ now' \in Nat /\ now <= now'
    /\ \/ slot' = slot
       \/ slot.lease = None \/ slot.expires <= now
       \/ \E c \in Calls : call[c].phase = "undo" /\ slot.lease = call[c].lease
       \/ slot'.lease = slot.lease /\ (crossed' \/ slot.expires <= slot'.expires)

LEMMA SlotStep == ASSUME Typed, [Next]_vars PROVE SlotEffect
<1>0. now \in Nat /\ slot.expires \in Nat /\ \A c \in Calls : call[c].now \in Nat /\ call[c].now <= now
    BY HandlerTypes, ConstantTypes DEF Typed, TypeOK, HandlersTyped, Time
<1>1. CASE slot' = slot /\ now' = now
    BY <1>0, <1>1 DEF SlotEffect
<1>2. ASSUME NEW c \in Calls, AcquireAutomationSlot(c) PROVE SlotEffect
    BY <1>0, <1>2 DEF AcquireAutomationSlot, SlotEffect
<1>3. ASSUME NEW c \in Calls, ReleaseAutomationSlot(c) PROVE SlotEffect
    BY <1>0, <1>3 DEF ReleaseAutomationSlot, SlotEffect
<1>4. ASSUME NEW c \in Calls, ExtendAutomationSlot(c) PROVE SlotEffect
    <2>1. call[c].now + Duration \in Nat
        BY HandlerTypes, ConstantTypes DEF Time
    <2>2. CASE slot' = slot
        BY <1>1, <1>4, <2>2 DEF ExtendAutomationSlot
    <2>3. CASE slot' = [slot EXCEPT !.expires = call[c].now + Duration]
               /\ crossed' = (crossed \/ call[c].now + Duration < slot.expires)
        <3>1. slot'.lease = slot.lease /\ slot'.expires = call[c].now + Duration
            BY <2>3 DEF Typed, TypeOK
        <3>2. crossed' \/ ~(call[c].now + Duration < slot.expires)
            BY <2>3
        <3>3. crossed' \/ slot.expires <= slot'.expires
            BY <1>0, <2>1, <3>1, <3>2
        <3> QED
            BY <1>0, <1>4, <3>1, <3>3 DEF SlotEffect, ExtendAutomationSlot
    <2> QED
        BY <1>4, <2>2, <2>3 DEF ExtendAutomationSlot
<1>5. ASSUME NEW c \in Calls, Handler(c) PROVE SlotEffect
    BY <1>5, <1>1, <1>2, <1>3, <1>4
       DEF Handler, ClaimRead, ClaimTask, HeartbeatRead, HeartbeatTask, FeedbackRead,
           FeedbackUpdate, StatusRead, StatusUpdate, SupersedeRead, SupersedeUpdate, Lost, Reads
<1>6. CASE Clock
    BY <1>0, <1>6 DEF Clock, SlotEffect
<1>7. CASE \/ \E w \in Workers, t \in Tasks : ClaimByHand(w, t)
           \/ \E t \in Tasks : Blocks(t) \/ Prepares(t)
           \/ UNCHANGED vars
    BY <1>1, <1>7 DEF ClaimByHand, Blocks, Prepares, vars
<1> QED
    BY <1>5, <1>6, <1>7 DEF Next

\* A handler starts: it reads the task, and nothing else changes.
Starts(c) ==
    LET h == call'[c]
    IN /\ UNCHANGED <<slot, task, now>> /\ \A e \in Calls \ {c} : call'[e] = call[e]
       /\ h.phase = "read" /\ h.task \in Tasks
       /\ h.op = "claim" => h.lease # None /\ Fresh(h.lease)
       /\ h.op # "claim" => h.lease \in {None, task[h.task].lease}
       /\ h.op = "heartbeat" => /\ h.lease # None /\ h.worker = task[h.task].holder
                                /\ h.now < task[h.task].expires

\* A handler goes on to its next update.
SameCall(c) ==
    /\ call'[c].op = call[c].op /\ call'[c].worker = call[c].worker
    /\ call'[c].task = call[c].task /\ call'[c].lease = call[c].lease
    /\ call'[c].now = call[c].now

GetsSlot(c) ==
    /\ call[c].op \in {"claim", "heartbeat"} /\ call'[c].phase = "slot"
    /\ slot'.lease = call[c].lease /\ slot'.expires = call[c].now + Duration
    /\ task' = task

Fails(c) ==
    /\ call[c].phase = "slot" /\ call'[c].phase = "undo"
    /\ call[c].op \in {"claim", "heartbeat"}
    /\ call[c].op = "heartbeat" => ~StillLeased(c)
    /\ task' = task

EndsLease(c) ==
    LET t == call[c].task
    IN /\ call'[c].phase = "undo" /\ call[c].op \notin {"claim", "heartbeat"}
       /\ call[c].lease # None /\ task'[t].lease = None
       /\ \A u \in Tasks \ {t} : task'[u] = task[u]

HandlerEffect(c) ==
    \/ call'[c] = call[c] \/ call'[c] = NoCall \/ Starts(c)
    \/ SameCall(c) /\ (GetsSlot(c) \/ Fails(c) \/ EndsLease(c))

LEMMA HandlerStep == ASSUME Typed, [Next]_vars, NEW c \in Calls PROVE HandlerEffect(c)
<1>0. call \in [Calls -> Handlers] /\ call[c] \in Handlers /\ task \in [Tasks -> TaskDocs]
    BY DEF Typed, TypeOK
<1>1. CASE call'[c] = call[c]
    BY <1>1 DEF HandlerEffect
<1>2. ASSUME NEW e \in Calls, Ends(e) PROVE HandlerEffect(c)
    BY <1>0, <1>2 DEF Ends, HandlerEffect
<1>3. ASSUME NEW e \in Calls, NEW h, Begins(e, h), Reads, h.phase = "read", h.task \in Tasks,
             h.op = "claim" => h.lease # None /\ Fresh(h.lease),
             h.op # "claim" => h.lease \in {None, task[h.task].lease},
             h.op = "heartbeat" => /\ h.lease # None /\ h.worker = task[h.task].holder
                                   /\ h.now < task[h.task].expires
      PROVE  HandlerEffect(c)
    <2>1. CASE c # e
        BY <1>0, <1>1, <1>3, <2>1 DEF Begins
    <2>2. CASE c = e
        <3>1. call'[c] = h /\ \A d \in Calls \ {c} : call'[d] = call[d]
            BY <1>0, <1>3, <2>2 DEF Begins
        <3>2. Starts(c)
            BY <1>3, <3>1 DEF Starts, Reads
        <3> QED
            BY <3>2 DEF HandlerEffect
    <2> QED
        BY <2>1, <2>2
<1>4. ASSUME NEW e \in Calls, NEW p \in {"slot", "undo"}, Goes(e, p)
      PROVE  /\ c # e => call'[c] = call[c]
             /\ c = e => SameCall(c) /\ call'[c].phase = p
    <2>1. c # e => call'[c] = call[c]
        BY <1>0, <1>4 DEF Goes
    <2>2. c = e => SameCall(c) /\ call'[c].phase = p
        BY <1>0, <1>4 DEF Goes, SameCall, Handlers
    <2> QED
        BY <2>1, <2>2
<1>a. ASSUME NEW e \in Calls, NEW w \in Workers, NEW t \in Tasks, NEW l \in Leases,
             ClaimRead(e, w, t, l)
      PROVE  HandlerEffect(c)
    <2> DEFINE h == [NoCall EXCEPT !.op = "claim", !.worker = w, !.task = t, !.lease = l,
                                   !.count = task[t].attempts, !.now = now]
    <2>1. h.op = "claim" /\ h.lease = l /\ h.phase = "read" /\ h.task = t
        BY DEF NoCall
    <2>2. l # None
        BY PipelineAssumption
    <2>3. Begins(e, h) /\ Reads /\ Fresh(l)
        BY <1>a DEF ClaimRead
    <2> QED
        <3> HIDE DEF h
        <3> QED
            BY <1>3, <2>1, <2>2, <2>3
<1>b. ASSUME NEW e \in Calls, NEW t \in Tasks, HeartbeatRead(e, t) PROVE HandlerEffect(c)
    <2> DEFINE h == Leased("heartbeat", t)
    <2>1. /\ h.op = "heartbeat" /\ h.lease = task[t].lease /\ h.phase = "read" /\ h.task = t
          /\ h.worker = task[t].holder /\ h.now = now
        BY DEF NoCall, Leased
    <2>2. h.lease # None
        BY <1>b, <2>1 DEF HeartbeatRead, LeaseMutationAllowed
    <2>3. now \in Nat /\ task[t].expires \in Nat /\ task[t].expires > now
        BY <1>b, <1>0, ConstantTypes
           DEF HeartbeatRead, LeaseMutationAllowed, Typed, TypeOK, TaskDocs, Time
    <2>4. h.now < task[t].expires
        BY <2>1, <2>3
    <2>5. Begins(e, h) /\ Reads
        BY <1>b DEF HeartbeatRead
    <2> QED
        <3> HIDE DEF h
        <3> QED
            BY <1>3, <2>1, <2>2, <2>4, <2>5
<1>c. ASSUME NEW e \in Calls, NEW t \in Tasks, NEW to \in Status, FeedbackRead(e, t, to)
      PROVE  HandlerEffect(c)
    <2> DEFINE g == [NoCall EXCEPT !.op = "feedback", !.task = t, !.to = to]
               h == [Leased("feedback", t) EXCEPT !.to = to]
    <2>1. g.op = "feedback" /\ g.lease = None /\ g.phase = "read" /\ g.task = t
        BY DEF NoCall
    <2>2. h.op = "feedback" /\ h.lease = task[t].lease /\ h.phase = "read" /\ h.task = t
        BY DEF NoCall, Leased
    <2>3. (Begins(e, g) \/ Begins(e, h)) /\ Reads
        BY <1>c DEF FeedbackRead
    <2> QED
        <3> HIDE DEF g, h
        <3> QED
            BY <1>3, <2>1, <2>2, <2>3
<1>d. ASSUME NEW e \in Calls, NEW t \in Tasks, NEW to \in Status, StatusRead(e, t, to)
      PROVE  HandlerEffect(c)
    <2> DEFINE h == [NoCall EXCEPT !.op = "status", !.task = t, !.to = to,
                                   !.lease = task[t].lease]
    <2>1. h.op = "status" /\ h.lease = task[t].lease /\ h.phase = "read" /\ h.task = t
        BY DEF NoCall
    <2>2. Begins(e, h) /\ Reads
        BY <1>d DEF StatusRead
    <2> QED
        <3> HIDE DEF h
        <3> QED
            BY <1>3, <2>1, <2>2
<1>e. ASSUME NEW e \in Calls, NEW t \in Tasks, SupersedeRead(e, t) PROVE HandlerEffect(c)
    <2> DEFINE h == [NoCall EXCEPT !.op = "supersede", !.task = t, !.to = task[t].status]
    <2>1. h.op = "supersede" /\ h.lease = None /\ h.phase = "read" /\ h.task = t
        BY DEF NoCall
    <2>2. Begins(e, h) /\ Reads
        BY <1>e DEF SupersedeRead
    <2> QED
        <3> HIDE DEF h
        <3> QED
            BY <1>3, <2>1, <2>2
<1>f. ASSUME NEW e \in Calls, AcquireAutomationSlot(e) PROVE HandlerEffect(c)
    <2>1. CASE Ends(e)
        BY <1>2, <2>1
    <2>2. CASE Goes(e, "slot") /\ slot' = [lease |-> call[e].lease,
                                           expires |-> call[e].now + Duration]
        BY <1>1, <1>4, <1>f, <2>2 DEF AcquireAutomationSlot, At, HandlerEffect, GetsSlot
    <2> QED
        BY <1>f, <2>1, <2>2 DEF AcquireAutomationSlot
<1>g. ASSUME NEW e \in Calls, ExtendAutomationSlot(e) PROVE HandlerEffect(c)
    <2>1. CASE Ends(e)
        BY <1>2, <2>1
    <2>2. CASE Goes(e, "slot") /\ slot.lease = call[e].lease
               /\ slot' = [slot EXCEPT !.expires = call[e].now + Duration]
        <3>1. slot'.lease = call[e].lease /\ slot'.expires = call[e].now + Duration
            BY <2>2 DEF Typed, TypeOK
        <3> QED
            BY <1>1, <1>4, <1>g, <2>2, <3>1 DEF ExtendAutomationSlot, At, HandlerEffect, GetsSlot
    <2> QED
        BY <1>g, <2>1, <2>2 DEF ExtendAutomationSlot
<1>h. ASSUME NEW e \in Calls, ClaimTask(e) \/ HeartbeatTask(e) PROVE HandlerEffect(c)
    <2>1. CASE Ends(e)
        BY <1>2, <2>1
    <2>2. CASE ClaimTask(e) /\ Goes(e, "undo") /\ task' = task
        <3>1. call[e].op = "claim" /\ call[e].phase = "slot"
            BY <2>2 DEF ClaimTask, At
        <3> QED
            BY <1>1, <1>4, <2>2, <3>1 DEF HandlerEffect, Fails
    <2>3. CASE HeartbeatTask(e) /\ Goes(e, "undo") /\ task' = task /\ ~StillLeased(e)
        <3>1. call[e].op = "heartbeat" /\ call[e].phase = "slot"
            BY <2>3 DEF HeartbeatTask, At
        <3> QED
            BY <1>1, <1>4, <2>3, <3>1 DEF HandlerEffect, Fails
    <2>4. CASE ClaimTask(e)
        BY <2>1, <2>2, <2>4 DEF ClaimTask
    <2>5. CASE HeartbeatTask(e)
        BY <2>1, <2>3, <2>5 DEF HeartbeatTask
    <2> QED
        BY <1>h, <2>4, <2>5
<1>i. ASSUME NEW e \in Calls, FeedbackUpdate(e) \/ StatusUpdate(e) PROVE HandlerEffect(c)
    <2>1. CASE Ends(e)
        BY <1>2, <2>1
    <2>2. CASE Goes(e, "undo") /\ c # e
        BY <1>1, <1>4, <2>2
    <2>3. CASE Goes(e, "undo") /\ c = e
        <3> DEFINE t == call[c].task
                   to == call[c].to
                   d == [Unleased(task[t]) EXCEPT !.status = to]
                   old == Unleased(task[t])
                   g == [old EXCEPT !.status = to,
                                    !.assignee = IF to = "queued" THEN None ELSE old.assignee]
        <3>1. SameCall(c) /\ call'[c].phase = "undo"
            BY <1>4, <2>3
        <3>2. t \in Tasks /\ task[t] \in TaskDocs
            BY <1>i, <1>0, <2>3, HandlerTypes DEF FeedbackUpdate, StatusUpdate, At
        <3>3. old \in TaskDocs /\ old.lease = None
            BY <3>2, UnleasedTyped DEF Unleased, TaskDocs
        <3>4. d.lease = None /\ g.lease = None
            BY <3>3 DEF TaskDocs
        <3>5. FeedbackUpdate(c) => task' = [task EXCEPT ![t] = d] /\ call[c].lease # None
            <4>1. ASSUME FeedbackUpdate(c), Ends(c) PROVE FALSE
                BY <1>0, <2>3, <3>1, <4>1 DEF Ends, NoCall
            <4> QED
                BY <2>3, <4>1 DEF FeedbackUpdate
        <3>6. StatusUpdate(c) => task' = [task EXCEPT ![t] = g] /\ call[c].lease # None
            <4>1. ASSUME StatusUpdate(c), Ends(c) PROVE FALSE
                BY <1>0, <2>3, <3>1, <4>1 DEF Ends, NoCall
            <4> QED
                BY <2>3, <4>1 DEF StatusUpdate
        <3>7. /\ task'[t].lease = None /\ call[c].lease # None
              /\ \A u \in Tasks \ {t} : task'[u] = task[u]
            <4> HIDE DEF d, g, old, t
            <4> QED
                BY <1>0, <1>i, <2>3, <3>2, <3>4, <3>5, <3>6
        <3>8. EndsLease(c)
            BY <1>i, <2>3, <3>1, <3>7 DEF EndsLease, FeedbackUpdate, StatusUpdate, At
        <3> QED
            BY <3>1, <3>8 DEF HandlerEffect
    <2>4. CASE UNCHANGED call
        BY <1>1, <2>4
    <2> QED
        BY <1>i, <2>1, <2>2, <2>3, <2>4 DEF FeedbackUpdate, StatusUpdate
<1>j. ASSUME NEW e \in Calls, ReleaseAutomationSlot(e) \/ SupersedeUpdate(e) \/ Lost(e)
      PROVE  HandlerEffect(c)
    BY <1>2, <1>j DEF ReleaseAutomationSlot, SupersedeUpdate, Lost
<1>k. ASSUME NEW e \in Calls, Handler(e) PROVE HandlerEffect(c)
    BY <1>k, <1>a, <1>b, <1>c, <1>d, <1>e, <1>f, <1>g, <1>h, <1>i, <1>j DEF Handler
<1>l. CASE \/ \E w \in Workers, t \in Tasks : ClaimByHand(w, t)
           \/ \E t \in Tasks : Blocks(t) \/ Prepares(t)
           \/ Clock \/ UNCHANGED vars
    BY <1>1, <1>l DEF ClaimByHand, Blocks, Prepares, Clock, vars
<1> QED
    BY <1>k, <1>l DEF Next

-----------------------------------------------------------------------------
(* A slot without an owner lapses.                                           *)

\* A slot whose lease is in no task and no handler of claimEligibleTask is
\* neither extended nor adopted: it lapses, and the automation goes on.
THEOREM OrphansLapse == Spec => OrphanLapses
<1> DEFINE Lapsing == slot.lease # None /\ Orphan(slot.lease)
        => /\ slot'.lease = slot.lease => slot'.expires <= slot.expires
           /\ \A t \in Tasks : task'[t].lease # slot.lease
           /\ \A c \in Calls : call'[c].lease # slot.lease
<1>1. ASSUME Typed, [Next]_vars PROVE Lapsing
    <2> SUFFICES ASSUME slot.lease # None, Orphan(slot.lease)
                 PROVE  /\ slot'.lease = slot.lease => slot'.expires <= slot.expires
                        /\ \A t \in Tasks : task'[t].lease # slot.lease
                        /\ \A c \in Calls : call'[c].lease # slot.lease
        OBVIOUS
    <2>0. slot.expires \in Nat /\ NoCall.lease = None
        BY <1>1, ConstantTypes DEF Typed, TypeOK, Time, NoCall
    <2>1. ASSUME NEW t \in Tasks PROVE task'[t].lease # slot.lease
        BY <1>1, <2>1, TaskStep DEF TaskEffect, Keeps, SameLease, Takes, Renews, Orphan
    <2>2. ASSUME NEW c \in Calls PROVE call'[c].lease # slot.lease
        BY <1>1, <2>0, <2>2, HandlerStep DEF HandlerEffect, Starts, Fresh, SameCall, Orphan
    <2>3. ASSUME slot'.lease = slot.lease PROVE slot'.expires <= slot.expires
        <3>1. CASE slot' = slot
            BY <2>0, <3>1
        <3>2. ASSUME NEW c \in Calls,
                     AcquireAutomationSlot(c) \/ ReleaseAutomationSlot(c) \/ ExtendAutomationSlot(c)
              PROVE  slot' = slot
            BY <2>3, <3>2 DEF Orphan, AcquireAutomationSlot, ReleaseAutomationSlot,
                              ExtendAutomationSlot
        <3>3. ASSUME NEW c \in Calls, Handler(c) PROVE slot' = slot
            BY <3>2, <3>3 DEF Handler, ClaimRead, ClaimTask, HeartbeatRead, HeartbeatTask,
                              FeedbackRead, FeedbackUpdate, StatusRead, StatusUpdate,
                              SupersedeRead, SupersedeUpdate, Lost, Reads
        <3>4. slot' = slot
            BY <1>1, <3>3 DEF Next, ClaimByHand, Blocks, Prepares, Clock, vars
        <3> QED
            BY <3>1, <3>4
    <2> QED
        BY <2>1, <2>2, <2>3
<1>2. Typed /\ [Next]_vars => [Lapsing]_vars
    BY <1>1
<1>3. [][Lapsing]_vars => OrphanLapses
    BY PTL DEF OrphanLapses
<1> QED
    BY <1>2, <1>3, PipelineTyped, PTL DEF Spec

-----------------------------------------------------------------------------
(* A live lease is covered by the slot. Leases of tasks differ, a claim under *)
(* way has an id of its own, and a handler that is about to clear the slot    *)
(* works for a lease that no task has any more.                               *)

\* The slot is held under lease l until then, or that time has passed.
Backed(l, until) == (slot.lease = l /\ slot.expires >= until) \/ until <= now

LeasesDiffer == \A t, u \in Tasks : task[t].lease # None /\ task[t].lease = task[u].lease => t = u

Unowned(l) == \A t \in Tasks : task[t].lease # l

TaskBacked(t) == task[t].lease # None => Backed(task[t].lease, task[t].expires)

ClaimOk(c) ==
    call[c].op = "claim" =>
        /\ call[c].lease # None /\ Unowned(call[c].lease)
        /\ \A e \in Calls \ {c} : call[e].lease # call[c].lease
        /\ call[c].phase = "slot" => Backed(call[c].lease, call[c].now + Duration)

Knows(c) ==
    call[c].lease # None => \A t \in Tasks : task[t].lease = call[c].lease => t = call[c].task

HeartbeatOk(c) ==
    LET t == call[c].task
    IN call[c].op = "heartbeat" =>
        /\ call[c].lease # None
        /\ call[c].phase # "undo" /\ task[t].lease = call[c].lease =>
              /\ call[c].worker = task[t].holder /\ call[c].now < task[t].expires
              /\ call[c].phase = "slot" => Backed(call[c].lease, call[c].now + Duration)

UndoOk(c) == call[c].phase = "undo" => call[c].lease # None /\ Unowned(call[c].lease)

Covered ==
    /\ LeasesDiffer
    /\ \A t \in Tasks : Intact(t) /\ TaskBacked(t)
    /\ \A c \in Calls : ClaimOk(c) /\ Knows(c) /\ HeartbeatOk(c) /\ UndoOk(c)

CoverInv == Typed /\ (Undisturbed => Covered)

LEMMA BackedStep ==
    ASSUME Typed, [Next]_vars, Undisturbed', NEW l, NEW until \in Nat,
           l # None, Backed(l, until),
           \A c \in Calls : call[c].phase = "undo" => call[c].lease # l
    PROVE  Backed(l, until)'
<1>1. now \in Nat /\ now' \in Nat /\ now <= now' /\ slot.expires \in Nat
    BY SlotStep, ConstantTypes DEF SlotEffect, Typed, TypeOK, Time
<1>2. slot'.expires \in Nat
    BY TypeStep, ConstantTypes DEF Typed, TypeOK, Time
<1>3. CASE until <= now
    BY <1>1, <1>3 DEF Backed
<1>4. CASE slot.lease = l /\ slot.expires >= until
    <2>1. CASE slot.expires <= now
        BY <1>1, <1>4, <2>1 DEF Backed
    <2>2. CASE slot' = slot
        BY <1>4, <2>2 DEF Backed
    <2>3. CASE slot'.lease = slot.lease /\ slot.expires <= slot'.expires
        BY <1>1, <1>2, <1>4, <2>3 DEF Backed
    <2> QED
        BY <1>4, <2>1, <2>2, <2>3, SlotStep DEF SlotEffect, Undisturbed
<1> QED
    BY <1>3, <1>4 DEF Backed

LEMMA CoveredStep == ASSUME Typed, [Next]_vars, Covered, Undisturbed' PROVE Covered'
<1> USE DEF Covered
<1>0. /\ NoCall.lease = None /\ NoCall.op = "none" /\ NoCall.phase = "read"
      /\ Typed' /\ ~crossed' /\ ~overtaken'
    BY TypeStep DEF NoCall, Undisturbed
\* What one step leaves of the task of a lease.
<1>1. ASSUME NEW t \in Tasks, task'[t].lease # None
      PROVE  Keeps(t) \/ \E c \in Calls : Takes(c, t) \/ Renews(c, t)
    BY <1>1, TaskStep DEF TaskEffect
<1>2. ASSUME NEW l, l # None, Unowned(l), NEW t \in Tasks, task'[t].lease = l
      PROVE  \E c \in Calls : Takes(c, t) /\ call[c].lease = l
    BY <1>1, <1>2 DEF Keeps, SameLease, Renews, Takes, Unowned
<1>a. LeasesDiffer'
    <2> SUFFICES ASSUME NEW t \in Tasks, NEW u \in Tasks,
                        task'[t].lease # None, task'[t].lease = task'[u].lease
                 PROVE  t = u
        BY DEF LeasesDiffer
    <2>1. ASSUME NEW c \in Calls, NEW v \in Tasks, NEW w \in Tasks, Takes(c, v),
                 task'[v].lease = task'[w].lease
          PROVE  v = w
        <3>1. Unowned(call[c].lease) /\ task'[v].lease = call[c].lease
            BY <2>1 DEF Takes, At, ClaimOk
        <3> QED
            BY <2>1, <3>1 DEF Takes, Unowned
    <2>2. CASE \E c \in Calls : Takes(c, t) \/ Takes(c, u)
        BY <2>1, <2>2
    <2>3. CASE ~\E c \in Calls : Takes(c, t) \/ Takes(c, u)
        <3>1. task'[t].lease = task[t].lease /\ task'[u].lease = task[u].lease
            BY <1>1, <2>3 DEF Keeps, Renews, SameLease
        <3> QED
            BY <3>1 DEF LeasesDiffer
    <2> QED
        BY <2>2, <2>3
<1>b. ASSUME NEW t \in Tasks PROVE Intact(t)'
    <2>1. CASE task'[t].lease = None
        BY <2>1 DEF Intact
    <2>2. CASE Keeps(t)
        BY <1>0, <2>2 DEF Keeps
    <2>3. ASSUME NEW c \in Calls, Takes(c, t) PROVE Intact(t)'
        BY <2>3 DEF Takes, Intact
    <2>4. ASSUME NEW c \in Calls, Renews(c, t) PROVE Intact(t)'
        BY <2>4 DEF Renews, SameLease, Intact
    <2> QED
        BY <1>1, <2>1, <2>2, <2>3, <2>4
<1>c. ASSUME NEW t \in Tasks PROVE TaskBacked(t)'
    <2> SUFFICES ASSUME task'[t].lease # None PROVE Backed(task[t].lease, task[t].expires)'
        BY DEF TaskBacked
    <2>1. CASE Keeps(t)
        <3>1. /\ task'[t].lease = task[t].lease /\ task'[t].expires = task[t].expires
              /\ task[t].lease # None
            BY <2>1 DEF Keeps, SameLease
        <3>2. task[t].expires \in Nat
            BY ConstantTypes DEF Typed, TypeOK, TaskDocs, Time
        <3>3. \A c \in Calls : call[c].phase = "undo" => call[c].lease # task[t].lease
            BY DEF UndoOk, Unowned
        <3>4. Backed(task[t].lease, task[t].expires)
            BY <3>1 DEF TaskBacked
        <3>5. \A l, until : l = task[t].lease /\ until = task[t].expires => Backed(l, until)'
            BY <3>1, <3>2, <3>3, <3>4, BackedStep
        <3> QED
            BY <3>1, <3>5 DEF Backed
    <2>2. ASSUME NEW c \in Calls, Takes(c, t) PROVE Backed(task[t].lease, task[t].expires)'
        <3>1. Backed(call[c].lease, call[c].now + Duration)
            BY <2>2 DEF Takes, At, ClaimOk
        <3> QED
            BY <2>2, <3>1 DEF Takes, Backed
    <2>3. ASSUME NEW c \in Calls, Renews(c, t) PROVE Backed(task[t].lease, task[t].expires)'
        <3>1. Backed(call[c].lease, call[c].now + Duration)
            BY <2>3 DEF Renews, At, HeartbeatOk
        <3> QED
            BY <2>3, <3>1 DEF Renews, SameLease, Backed
    <2> QED
        BY <1>1, <2>1, <2>2, <2>3
\* The lease of a handler stays out of the tasks, or in the task it was in.
<1>3. ASSUME NEW c \in Calls, NEW l, l # None, Unowned(l), call[c].lease = l,
             call'[c] # NoCall, \A e \in Calls \ {c} : call[e].op = "claim" => call[e].lease # l
      PROVE  Unowned(l)'
    <2>1. ASSUME NEW t \in Tasks, task'[t].lease = l PROVE FALSE
        <3>1. PICK e \in Calls : Takes(e, t) /\ call[e].lease = l
            BY <1>2, <1>3, <2>1
        <3>2. e = c
            BY <1>3, <3>1 DEF Takes, At
        <3> QED
            BY <1>3, <3>1, <3>2 DEF Takes, Ends, Typed, TypeOK
    <2> QED
        BY <2>1 DEF Unowned
<1>4. ASSUME NEW c \in Calls, NEW e \in Calls, c # e, call[e].op = "claim"
      PROVE  call[c].lease # call[e].lease
    BY <1>4 DEF ClaimOk
<1>d. ASSUME NEW c \in Calls PROVE ClaimOk(c)'
    <2> SUFFICES ASSUME call'[c].op = "claim"
                 PROVE  /\ call'[c].lease # None /\ Unowned(call[c].lease)'
                        /\ \A e \in Calls \ {c} : call'[e].lease # call'[c].lease
                        /\ call'[c].phase = "slot" =>
                              Backed(call[c].lease, call[c].now + Duration)'
        BY DEF ClaimOk
    <2>0. call[c].now + Duration \in Nat
        BY HandlerTypes, ConstantTypes DEF Time
    <2>1. CASE Starts(c)
        BY <2>1 DEF Starts, Fresh, Unowned
    <2>2. CASE call[c].op = "claim" /\ call'[c].lease = call[c].lease
               /\ call'[c].now = call[c].now
        <3>1. Unowned(call[c].lease)'
            <4>1. Unowned(call[c].lease) /\ call[c].lease # None
                BY <2>2 DEF ClaimOk
            <4>2. \A l : l = call[c].lease => Unowned(l)'
                BY <1>0, <1>3, <1>4, <2>2, <4>1
            <4> QED
                BY <2>2, <4>2 DEF Unowned
        <3>2. ASSUME NEW e \in Calls \ {c} PROVE call'[e].lease # call'[c].lease
            <4>1. call[e].lease # call[c].lease /\ call[c].lease # None
                  /\ Unowned(call[c].lease)
                BY <2>2, <3>2 DEF ClaimOk
            <4> QED
                BY <1>0, <2>2, <4>1, HandlerStep
                   DEF HandlerEffect, SameCall, Starts, Fresh, Unowned
        <3>3. ASSUME call'[c].phase = "slot"
              PROVE  Backed(call[c].lease, call[c].now + Duration)'
            <4>1. CASE GetsSlot(c)
                BY <2>0, <2>2, <4>1 DEF GetsSlot, Backed
            <4>2. CASE call'[c] = call[c]
                <5>1. /\ Backed(call[c].lease, call[c].now + Duration) /\ call[c].lease # None
                      /\ \A e \in Calls : call[e].phase = "undo" => call[e].lease # call[c].lease
                    BY <2>2, <3>3, <4>2 DEF ClaimOk
                <5>2. \A l, until : l = call[c].lease /\ until = call[c].now + Duration
                                    => Backed(l, until)'
                    BY <2>0, <5>1, BackedStep
                <5> QED
                    BY <4>2, <5>2 DEF Backed
            <4>3. CASE Starts(c)
                BY <3>3, <4>3 DEF Starts
            <4> QED
                BY <1>0, <3>3, <4>1, <4>2, <4>3, HandlerStep
                   DEF HandlerEffect, Fails, EndsLease
        <3> QED
            BY <2>2, <3>1, <3>2, <3>3 DEF ClaimOk
    <2> QED
        BY <1>0, <2>1, <2>2, HandlerStep DEF HandlerEffect, SameCall
<1>e. ASSUME NEW c \in Calls PROVE Knows(c)'
    <2> SUFFICES ASSUME call'[c].lease # None, NEW t \in Tasks,
                        task'[t].lease = call'[c].lease
                 PROVE  t = call'[c].task
        BY DEF Knows
    <2>1. CASE Starts(c)
        BY <2>1 DEF Starts, Fresh, LeasesDiffer
    <2>2. CASE call'[c].lease = call[c].lease /\ call'[c].task = call[c].task
        <3>1. CASE task[t].lease = call[c].lease
            BY <2>2, <3>1 DEF Knows
        <3>2. CASE task[t].lease # call[c].lease
            <4>1. PICK e \in Calls : Takes(e, t) /\ call[e].lease = call[c].lease
                BY <1>1, <2>2, <3>2 DEF Keeps, Renews, SameLease, Takes
            <4>2. e = c
                BY <1>4, <4>1 DEF Takes, At
            <4> QED
                BY <1>0, <4>1, <4>2 DEF Takes, Ends, Typed, TypeOK
        <3> QED
            BY <3>1, <3>2
    <2> QED
        BY <1>0, <2>1, <2>2, HandlerStep DEF HandlerEffect, SameCall
<1>f. ASSUME NEW c \in Calls PROVE UndoOk(c)'
    <2> SUFFICES ASSUME call'[c].phase = "undo"
                 PROVE  call'[c].lease # None /\ Unowned(call[c].lease)'
        BY DEF UndoOk
    <2>1. CASE call'[c] = call[c]
        <3>1. Unowned(call[c].lease) /\ call[c].lease # None
            BY <2>1 DEF UndoOk
        <3>2. \A l : l = call[c].lease => Unowned(l)'
            BY <1>0, <1>3, <1>4, <2>1, <3>1
        <3> QED
            BY <2>1, <3>1, <3>2 DEF Unowned
    <2>2. CASE SameCall(c) /\ Fails(c)
        <3>1. call[c].lease # None
            BY <2>2 DEF Fails, ClaimOk, HeartbeatOk
        <3>2. CASE call[c].op = "claim"
            BY <2>2, <3>1, <3>2 DEF SameCall, Fails, ClaimOk, Unowned
        <3>3. CASE call[c].op = "heartbeat"
            <4>1. call[c].task \in Tasks /\ ~StillLeased(c) /\ call[c].phase = "slot"
                BY <2>2, <3>3, HandlerTypes DEF Fails
            <4>2. ASSUME task[call[c].task].lease = call[c].lease PROVE FALSE
                <5>1. /\ call[c].worker = task[call[c].task].holder
                      /\ call[c].now < task[call[c].task].expires
                    BY <3>3, <4>1, <4>2 DEF HeartbeatOk
                <5>2. Intact(call[c].task)
                    BY <4>1
                <5>3. /\ task[call[c].task].status = "in_progress"
                      /\ task[call[c].task].assignee = call[c].worker
                    BY <3>1, <4>2, <5>1, <5>2 DEF Intact
                <5>4. task[call[c].task].expires > call[c].now
                    BY <5>1, <4>1, HandlerTypes, ConstantTypes DEF Typed, TypeOK, TaskDocs, Time
                <5> QED
                    BY <4>1, <4>2, <5>3, <5>4 DEF StillLeased
            <4>3. Unowned(call[c].lease)
                BY <3>1, <4>2 DEF Knows, Unowned
            <4> QED
                BY <2>2, <3>1, <4>3 DEF SameCall, Fails, Unowned
        <3> QED
            BY <2>2, <3>2, <3>3 DEF Fails
    <2>3. CASE SameCall(c) /\ EndsLease(c)
        BY <2>3 DEF SameCall, EndsLease, Knows, Unowned
    <2> QED
        BY <1>0, <2>1, <2>2, <2>3, HandlerStep DEF HandlerEffect, GetsSlot, Starts
<1>g. ASSUME NEW c \in Calls PROVE HeartbeatOk(c)'
    <2> DEFINE t == call[c].task
    <2>0. call[c].now \in Nat /\ call[c].now + Duration \in Nat
        BY HandlerTypes, ConstantTypes DEF Time
    <2>1. CASE Starts(c)
        BY <2>1 DEF Starts, HeartbeatOk
    <2>2. CASE call'[c] = NoCall
        BY <1>0, <2>2 DEF HeartbeatOk
    <2>3. CASE call'[c].op = "heartbeat" /\ call'[c] # NoCall /\ ~Starts(c)
        <3>1. /\ SameCall(c) /\ call[c].op = "heartbeat" /\ call[c].lease # None /\ t \in Tasks
              /\ call'[c] = call[c] \/ GetsSlot(c) \/ Fails(c)
            BY <2>3, HandlerStep, HandlerTypes
               DEF HandlerEffect, SameCall, EndsLease, HeartbeatOk
        <3>2. SUFFICES ASSUME call'[c].phase # "undo", task'[t].lease = call[c].lease
                       PROVE  /\ call[c].worker = task'[t].holder
                              /\ call[c].now < task'[t].expires
                              /\ call'[c].phase = "slot" =>
                                    Backed(call[c].lease, call[c].now + Duration)'
            BY <3>1 DEF HeartbeatOk, SameCall, Backed
        <3>3. \A e \in Calls : ~Takes(e, t)
            BY <1>4, <3>1, <3>2 DEF Takes, At
        <3>4. /\ task[t].lease = call[c].lease /\ task'[t].holder = task[t].holder
              /\ call[c].phase # "undo"
            BY <1>1, <3>1, <3>2, <3>3 DEF Keeps, Renews, SameLease, GetsSlot, Fails, UndoOk, Unowned
        <3>5. call[c].worker = task[t].holder /\ call[c].now < task[t].expires
            BY <3>1, <3>4 DEF HeartbeatOk
        <3>6. task[t].expires <= task'[t].expires
            <4>1. task[t].expires \in Nat
                BY <3>1, ConstantTypes DEF Typed, TypeOK, TaskDocs, Time
            <4> QED
                BY <1>0, <1>1, <3>1, <3>2, <3>3, <4>1 DEF Keeps, Renews
        <3>7. call[c].now < task'[t].expires
            BY <1>0, <2>0, <3>1, <3>5, <3>6, ConstantTypes DEF Typed, TypeOK, TaskDocs, Time
        <3>8. ASSUME call'[c].phase = "slot"
              PROVE  Backed(call[c].lease, call[c].now + Duration)'
            <4>1. CASE GetsSlot(c)
                BY <2>0, <3>1, <4>1 DEF GetsSlot, SameCall, Backed
            <4>2. CASE call'[c] = call[c]
                <5>1. /\ Backed(call[c].lease, call[c].now + Duration)
                      /\ \A e \in Calls : call[e].phase = "undo" => call[e].lease # call[c].lease
                    BY <3>1, <3>4, <3>8, <4>2 DEF HeartbeatOk, UndoOk, Unowned
                <5>2. \A l, until : l = call[c].lease /\ until = call[c].now + Duration
                                    => Backed(l, until)'
                    BY <2>0, <3>1, <5>1, BackedStep
                <5> QED
                    BY <4>2, <5>2 DEF Backed
            <4> QED
                BY <3>1, <3>2, <4>1, <4>2 DEF Fails
        <3> QED
            BY <3>4, <3>5, <3>7, <3>8
    <2> QED
        BY <2>1, <2>2, <2>3 DEF HeartbeatOk
<1> QED
    BY <1>a, <1>b, <1>c, <1>d, <1>e, <1>f, <1>g

\* What happened stays in the histories.
LEMMA HistoriesStay == [Next]_vars => (crossed => crossed') /\ (overtaken => overtaken')
<1> SUFFICES ASSUME [Next]_vars PROVE (crossed => crossed') /\ (overtaken => overtaken')
    OBVIOUS
<1>1. ASSUME NEW c \in Calls, ExtendAutomationSlot(c) \/ HeartbeatTask(c)
      PROVE  (crossed => crossed') /\ (overtaken => overtaken')
    <2>1. \/ crossed' = crossed
          \/ crossed' = (crossed \/ call[c].now + Duration < slot.expires)
          \/ crossed' = (crossed \/ call[c].now + Duration < task[call[c].task].expires)
        BY <1>1, Zenon DEF ExtendAutomationSlot, HeartbeatTask
    <2>2. overtaken' = overtaken
        BY <1>1 DEF ExtendAutomationSlot, HeartbeatTask
    <2>3. ASSUME crossed PROVE crossed'
        BY <2>1, <2>3
    <2> QED
        BY <2>2, <2>3
<1>2. ASSUME NEW c \in Calls, FeedbackUpdate(c) \/ StatusUpdate(c) \/ SupersedeUpdate(c)
      PROVE  (crossed => crossed') /\ (overtaken => overtaken')
    <2>1. \/ overtaken' = overtaken
          \/ overtaken' = (overtaken \/ task[call[c].task].lease # call[c].lease)
        BY <1>2, Zenon DEF FeedbackUpdate, StatusUpdate, SupersedeUpdate, Overtakes
    <2>2. crossed' = crossed
        BY <1>2 DEF FeedbackUpdate, StatusUpdate, SupersedeUpdate
    <2>3. ASSUME overtaken PROVE overtaken'
        BY <2>1, <2>3
    <2> QED
        BY <2>2, <2>3
<1>3. CASE UNCHANGED <<crossed, overtaken>>
    BY <1>3
<1>4. ASSUME NEW c \in Calls, Handler(c)
      PROVE  (crossed => crossed') /\ (overtaken => overtaken')
    BY <1>1, <1>2, <1>3, <1>4
       DEF Handler, ClaimRead, AcquireAutomationSlot, ClaimTask, ReleaseAutomationSlot,
           HeartbeatRead, FeedbackRead, StatusRead, SupersedeRead, Lost, Reads
<1>5. CASE \/ \E w \in Workers, t \in Tasks : ClaimByHand(w, t)
           \/ \E t \in Tasks : Blocks(t) \/ Prepares(t)
           \/ Clock \/ UNCHANGED vars
    BY <1>3, <1>5 DEF ClaimByHand, Blocks, Prepares, Clock, vars
<1> QED
    BY <1>4, <1>5 DEF Next

\* A worker with a live lease holds the slot at least as long, unless
\* heartbeats crossed or a stale update landed on the task.
THEOREM LeaseCovered == Spec => []LeaseCoveredBySlot
<1>1. Init => CoverInv
    <2> SUFFICES ASSUME Init PROVE Covered
        BY TypeInit DEF CoverInv
    <2>1. \A t \in Tasks : task[t].lease = None
        BY DEF Init
    <2>2. \A c \in Calls : call[c].op = "none" /\ call[c].lease = None /\ call[c].phase = "read"
        BY DEF Init, NoCall
    <2> QED
        BY <2>1, <2>2 DEF Covered, LeasesDiffer, Intact, TaskBacked, ClaimOk, Knows,
                          HeartbeatOk, UndoOk
<1>2. CoverInv /\ [Next]_vars => CoverInv'
    <2> SUFFICES ASSUME CoverInv, [Next]_vars, Undisturbed' PROVE Covered'
        BY TypeStep DEF CoverInv
    <2>1. Undisturbed
        BY HistoriesStay DEF Undisturbed
    <2> QED
        BY <2>1, CoveredStep DEF CoverInv
<1>3. CoverInv => LeaseCoveredBySlot
    <2> SUFFICES ASSUME CoverInv, NEW t \in Tasks, Undisturbed, Running(t)
                 PROVE  slot.lease = task[t].lease /\ slot.expires >= task[t].expires
        BY DEF LeaseCoveredBySlot
    <2>1. Backed(task[t].lease, task[t].expires)
        BY DEF CoverInv, Covered, TaskBacked, Running
    <2>2. task[t].expires \in Nat /\ now \in Nat /\ task[t].expires > now
        BY ConstantTypes DEF CoverInv, Typed, TypeOK, TaskDocs, Time, Running
    <2> QED
        BY <2>1, <2>2 DEF Backed
<1> QED
    BY <1>1, <1>2, <1>3, PTL DEF Spec
=============================================================================
