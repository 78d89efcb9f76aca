------------------------ MODULE BatchLifecycleProofs ------------------------
(***************************************************************************)
(* Theorems of BatchLifecycle: types, who may replace a terminal status,   *)
(* and that a running batch has a run, for any number of lanes, runs and   *)
(* requests; and, for a batch whose cells are answered one at a time, that *)
(* "completed" means every cell.                                           *)
(***************************************************************************)
EXTENDS BatchLifecycle, FiniteSetTheorems, WellFoundedInduction, TLAPS

-----------------------------------------------------------------------------
(***************************************************************************)
(* Numbers of cells and of rows.                                           *)
(***************************************************************************)
LEMMA CellsFinite ==
    /\ Cells \subseteq Nat /\ 0 \notin Cells
    /\ IsFiniteSet(Cells) /\ Cardinality(Cells) = NumCells
<1>1. NumCells \in Nat /\ NumCells > 0
    BY BatchAssumption
<1>2. Cells \subseteq Nat /\ 0 \notin Cells
    BY <1>1 DEF Cells
<1>3. IsFiniteSet(Cells) /\ Cardinality(Cells) = NumCells
    BY <1>1, FS_Interval DEF Cells
<1> QED
    BY <1>2, <1>3

\* A set of numbers that is not empty has a smallest one: a proof by the
\* smallest counterexample stands for an induction.
LEMMA Smallest ==
    ASSUME NEW S \in SUBSET Nat, S # {}
    PROVE  \E n \in S : \A m \in S : n <= m
<1>1. PICK x \in S : \A y \in S : ~ (<<y, x>> \in OpToRel(<, Nat))
    BY NatLessThanWellFounded, WFMin
<1>2. \A y \in S : ~ (y < x)
    BY <1>1 DEF OpToRel
<1> QED
    BY <1>2

\* The smallest element of a set of numbers is the smallest.
LEMMA MinIs ==
    ASSUME NEW S \in SUBSET Nat, S # {}
    PROVE  Min(S) \in S
<1>1. \E z \in S : \A y \in S : z =< y
    BY Smallest
<1> QED
    BY <1>1, Zenon DEF Min

\* The recursion by which the rows of a set of cells are added up.
Picked(s) == CHOOSE c \in s : TRUE
Sums(g) == [s \in SUBSET Cells |-> IF s = {} THEN 0 ELSE rows[Picked(s)] + g[s \ {Picked(s)}]]
Total == CHOOSE g : g = Sums(g)

LEMMA RowCountIs == RowCount = Total[Cells]
BY DEF RowCount, MapThenSumSet, MapThenFoldSet, Sums, Picked, Total

\* The sets of at most n cells.
UpTo(n) == {s \in SUBSET Cells : Cardinality(s) <= n}

LEMMA Smaller ==
    ASSUME NEW s \in SUBSET Cells, s # {}
    PROVE  /\ Picked(s) \in s /\ s \ {Picked(s)} \in SUBSET Cells
           /\ Cardinality(s) \in Nat /\ Cardinality(s \ {Picked(s)}) \in Nat
           /\ Cardinality(s \ {Picked(s)}) = Cardinality(s) - 1
<1>1. Picked(s) \in s
    BY DEF Picked
<1>2. IsFiniteSet(s) /\ IsFiniteSet(s \ {Picked(s)})
    BY CellsFinite, FS_Subset
<1> QED
    BY <1>1, <1>2, FS_CardinalityType, FS_RemoveElement

\* The recursion has a solution on the sets of at most n cells.
Solves(g, n) ==
    /\ g \in [UpTo(n) -> Nat]
    /\ \A s \in UpTo(n) :
          g[s] = IF s = {} THEN 0 ELSE rows[Picked(s)] + g[s \ {Picked(s)}]

LEMMA SumsSolvable ==
    ASSUME rows \in [Cells -> Nat], NEW n \in Nat
    PROVE  \E g : Solves(g, n)
<1> DEFINE Without == {m \in Nat : ~ \E g : Solves(g, m)}
<1> SUFFICES ASSUME Without # {} PROVE FALSE
    OBVIOUS
<1>1. PICK m \in Without : \A k \in Without : m <= k
    BY Smallest, Without \in SUBSET Nat
<1>2. CASE m = 0
    <2>1. UpTo(0) \subseteq {{}}
        <3> SUFFICES ASSUME NEW s \in UpTo(0), s # {} PROVE FALSE
            OBVIOUS
        <3>1. s \in SUBSET Cells /\ Cardinality(s) <= 0
            BY DEF UpTo
        <3>2. Cardinality(s) \in Nat /\ Cardinality(s) - 1 \in Nat
            BY <3>1, Smaller
        <3> QED
            BY <3>1, <3>2
    <2>2. Solves([s \in UpTo(0) |-> 0], 0)
        BY <2>1 DEF Solves
    <2> QED
        BY <1>1, <1>2, <2>2
<1>3. CASE m # 0
    <2>1. m \in Nat /\ m - 1 \in Nat /\ m - 1 \notin Without
        BY <1>1, <1>3
    <2>2. PICK g : Solves(g, m - 1)
        BY <2>1
    <2> DEFINE h == [s \in UpTo(m) |->
                        IF s = {} THEN 0 ELSE rows[Picked(s)] + g[s \ {Picked(s)}]]
    <2>3. ASSUME NEW s \in UpTo(m), s # {}
          PROVE  /\ s \ {Picked(s)} \in UpTo(m - 1) /\ s \ {Picked(s)} \in UpTo(m)
                 /\ rows[Picked(s)] \in Nat
        BY <2>1, <2>3, Smaller DEF UpTo
    <2>4. \A s \in UpTo(m) : s # {} => h[s] = rows[Picked(s)] + g[s \ {Picked(s)}]
        OBVIOUS
    <2>5. \A s \in UpTo(m - 1) : g[s] \in Nat
        BY <2>2 DEF Solves
    <2>6. h \in [UpTo(m) -> Nat]
        <3>1. ASSUME NEW s \in UpTo(m), s # {}
              PROVE  rows[Picked(s)] + g[s \ {Picked(s)}] \in Nat
            <4>1. g[s \ {Picked(s)}] \in Nat /\ rows[Picked(s)] \in Nat
                BY <2>3, <2>5, <3>1
            <4> QED
                BY <4>1
        <3> QED
            BY <3>1
    <2>7. ASSUME NEW s \in UpTo(m), s # {}
          PROVE  h[s \ {Picked(s)}] = g[s \ {Picked(s)}]
        <3> DEFINE t == s \ {Picked(s)}
        <3>1. t \in UpTo(m) /\ t \in UpTo(m - 1)
            BY <2>3, <2>7
        <3> HIDE DEF t
        <3>2. g[t] = IF t = {} THEN 0 ELSE rows[Picked(t)] + g[t \ {Picked(t)}]
            BY <2>2, <3>1 DEF Solves
        <3> QED
            BY <3>1, <3>2 DEF t
    <2>8. Solves(h, m)
        <3>1. ASSUME NEW s \in UpTo(m)
              PROVE  h[s] = IF s = {} THEN 0 ELSE rows[Picked(s)] + h[s \ {Picked(s)}]
            BY <2>7
        <3> HIDE DEF h
        <3> QED
            BY <2>6, <3>1 DEF Solves
    <2> QED
        BY <1>1, <2>8
<1> QED
    BY <1>2, <1>3

\* The rows of a batch are a number, however many there are.
LEMMA RowCountNat ==
    ASSUME rows \in [Cells -> Nat]
    PROVE  RowCount \in Nat
<1>1. NumCells \in Nat
    BY BatchAssumption
<1>2. UpTo(NumCells) = SUBSET Cells
    BY CellsFinite, FS_Subset DEF UpTo
<1>3. PICK g : Solves(g, NumCells)
    BY <1>1, SumsSolvable
<1>4. g = Sums(g)
    BY <1>2, <1>3 DEF Solves, Sums
<1>5. Total = Sums(Total)
    BY <1>4 DEF Total
<1> DEFINE Odd == {k \in Nat : \E s \in SUBSET Cells : Cardinality(s) = k /\ Total[s] \notin Nat}
<1>6. Odd = {}
    <2> SUFFICES ASSUME Odd # {} PROVE FALSE
        OBVIOUS
    <2>1. PICK k \in Odd : \A j \in Odd : k <= j
        BY Smallest, Odd \in SUBSET Nat
    <2>2. PICK s \in SUBSET Cells : Cardinality(s) = k /\ Total[s] \notin Nat
        BY <2>1
    <2>3. Total[s] = IF s = {} THEN 0 ELSE rows[Picked(s)] + Total[s \ {Picked(s)}]
        BY <1>5 DEF Sums
    <2>4. s # {}
        BY <2>2, <2>3
    <2>5. /\ Picked(s) \in Cells /\ s \ {Picked(s)} \in SUBSET Cells
          /\ k \in Nat /\ Cardinality(s \ {Picked(s)}) = k - 1
        BY <2>2, <2>4, Smaller
    <2>6. k - 1 \in Nat /\ k - 1 \notin Odd
        <3>1. Cardinality(s \ {Picked(s)}) \in Nat
            BY <2>4, Smaller
        <3> QED
            BY <2>1, <2>5, <3>1
    <2>7. Total[s \ {Picked(s)}] \in Nat
        BY <2>5, <2>6
    <2>8. rows[Picked(s)] \in Nat
        BY <2>5
    <2>9. rows[Picked(s)] + Total[s \ {Picked(s)}] \in Nat
        BY <2>7, <2>8
    <2> QED
        BY <2>2, <2>3, <2>4, <2>9
<1>7. IsFiniteSet(Cells) /\ Cardinality(Cells) \in Nat
    BY <1>1, CellsFinite
<1> QED
    BY <1>6, <1>7, RowCountIs
-----------------------------------------------------------------------------
(***************************************************************************)
(* Types.  A cell that is worked on is a cell: the checkpoint is made of   *)
(* what a lane has at hand.                                                *)
(***************************************************************************)
HasCell(pc) == pc \in {"request", "saved", "flushing", "persisted"}
CellAtHand == \A r \in Runs, l \in LaneIds : HasCell(lane[r][l].pc) => lane[r][l].cell \in Cells
Typed == TypeOK /\ CellAtHand

LEMMA InitialValuesTyped ==
    /\ NewRun \in RunStates /\ NewRun.phase = "lock" /\ ~NewRun.stopped /\ ~NewRun.aborted
    /\ ~NewRun.lost
    /\ Over \in RunStates /\ Over.phase = "done"
    /\ NewLanes \in [LaneIds -> LaneStates] /\ \A l \in LaneIds : ~HasCell(NewLanes[l].pc)
    /\ NoCall \in CallStates /\ NoCall.op = "idle"
BY DEF NewRun, Over, RunStates, NewLanes, LaneStates, NoCall, CallStates, Alive, Terminal, HasCell

LEMMA InitTyped == Init => Typed
<1> SUFFICES ASSUME Init PROVE Typed
    OBVIOUS
<1>1. MaxDeaths \in Nat
    BY BatchAssumption
<1>2. [NewRun EXCEPT !.phase = "unused"] \in RunStates
    BY InitialValuesTyped DEF RunStates
<1>3. 0 \in Nat
    OBVIOUS
<1>4. batch \in Batches /\ rows \in [Cells -> Nat] /\ faults \in Faults
    BY <1>3 DEF Init, Batches, Faults
<1>5. deaths \in 0 .. MaxDeaths
    BY <1>1 DEF Init
<1> QED
    BY <1>2, <1>4, <1>5, InitialValuesTyped DEF Init, Typed, TypeOK, CellAtHand

\* Where a run goes, and what a stop makes of the runs.
LEMMA RunValuesTyped ==
    ASSUME TypeOK, NEW r \in Runs
    PROVE  /\ run[r] \in RunStates
           /\ \A phase \in Alive \cup {"done"} :
                 /\ At(r, phase) \in RunStates
                 /\ [run EXCEPT ![r] = At(r, phase)] \in [Runs -> RunStates]
           /\ Aborted \in [Runs -> RunStates]
<1>1. run \in [Runs -> RunStates]
    BY DEF TypeOK
<1>2. ASSUME NEW phase \in Alive \cup {"done"} PROVE At(r, phase) \in RunStates
    BY <1>1, InitialValuesTyped DEF At, RunStates
<1>3. Aborted \in [Runs -> RunStates]
    <2>1. \A s \in Runs : [run[s] EXCEPT !.aborted = TRUE] \in RunStates
        BY <1>1 DEF RunStates
    <2> QED
        BY <1>1, <2>1 DEF Aborted
<1> QED
    BY <1>1, <1>2, <1>3

LEMMA MarkTyped ==
    ASSUME batch \in Batches, NEW to \in Terminal
    PROVE  /\ StatusIfWorking(to) \in Batches
           /\ StatusIfWorking(to).completed = batch.completed
           /\ \A n \in Nat : [StatusIfWorking(to) EXCEPT !.completed = n] \in Batches
BY DEF StatusIfWorking, Batches

\* The steps of a run outside its lanes.
LEMMA RunTyped ==
    ASSUME Typed, NEW r \in Runs,
           \/ Lock(r) \/ AdmissionRefused(r) \/ Load(r) \/ PrepareFails(r)
           \/ Judge(r) \/ FinalRead(r) \/ Finalize(r) \/ CrashPath(r) \/ LoseAuthority(r)
    PROVE  Typed'
<1>1. /\ run[r] \in RunStates /\ run \in [Runs -> RunStates] /\ batch \in Batches
      /\ batch.completed \in Nat /\ run[r].pending \in Nat
      /\ \A phase \in Alive \cup {"done"} :
            [run EXCEPT ![r] = At(r, phase)] \in [Runs -> RunStates]
    BY RunValuesTyped DEF Typed, TypeOK, RunStates, Batches
<1>2. "hard" \in Faults /\ {"load", "tasks", "crash", "final", "done"} \subseteq Alive \cup {"done"}
    BY DEF Faults, Alive
<1>3. UNCHANGED <<rows, lane, call, deaths, booting>>
    BY DEF Lock, AdmissionRefused, Load, PrepareFails, Judge, FinalRead, Finalize, CrashPath,
           LoseAuthority
<1>4. faults' \in Faults
    BY <1>2 DEF Lock, AdmissionRefused, Load, PrepareFails, Judge, FinalRead, Finalize,
                CrashPath, LoseAuthority, Typed, TypeOK
<1>5. run' \in [Runs -> RunStates]
    <2>1. CASE \E phase \in Alive \cup {"done"} : To(r, phase)
        BY <1>1, <2>1 DEF To
    <2>2. CASE Load(r)
        <3>1. batch.checkpoint \in SUBSET Cells
            BY <1>1 DEF Batches
        <3>2. [[run[r] EXCEPT !.phase = "tasks"] EXCEPT !.done = batch.checkpoint] \in RunStates
            BY <1>1, <1>2, <3>1 DEF RunStates
        <3> QED
            BY <1>1, <2>2, <3>2 DEF Load
    <2>3. CASE FinalRead(r)
        <3>1. PICK o \in Outcomes(batch.completed) :
                 run' = [run EXCEPT ![r].phase = "finalize", ![r].outcome = o]
            BY <2>3 DEF FinalRead
        <3>2. o \in {"completed", "failed"}
            BY DEF Outcomes
        <3>3. [[run[r] EXCEPT !.phase = "finalize"] EXCEPT !.outcome = o] \in RunStates
            BY <1>1, <3>2 DEF RunStates, Alive
        <3> QED
            BY <1>1, <3>1, <3>3
    <2>4. CASE LoseAuthority(r)
        <3>1. [run[r] EXCEPT !.lost = TRUE] \in RunStates
            BY <1>1 DEF RunStates
        <3> QED
            BY <1>1, <2>4, <3>1 DEF LoseAuthority
    <2>5. Lock(r) \/ AdmissionRefused(r) \/ PrepareFails(r) \/ Judge(r) \/ Finalize(r)
          \/ CrashPath(r) => \E phase \in Alive \cup {"done"} : To(r, phase)
        BY <1>2 DEF Lock, AdmissionRefused, PrepareFails, Judge, Finalize, CrashPath
    <2> QED
        BY <2>1, <2>2, <2>3, <2>4, <2>5
<1>6. batch' \in Batches
    <2>1. CASE Lock(r)
        BY <1>1, <2>1 DEF Lock, Batches
    <2>2. CASE Finalize(r)
        <3>1. run[r].outcome \in Terminal
            BY <1>1 DEF RunStates, Terminal
        <3> QED
            BY <1>1, <2>2, <3>1, MarkTyped DEF Finalize
    <2>3. CASE CrashPath(r)
        <3> DEFINE n == batch.completed + run[r].pending
        <3>1. n \in Nat /\ "failed" \in Terminal
            BY <1>1 DEF Terminal
        <3>2. batch' = batch \/ batch' = [StatusIfWorking("failed") EXCEPT !.completed = n]
            BY <1>1, <2>3, <3>1, MarkTyped DEF CrashPath, StatusIfWorking, Batches
        <3> HIDE DEF n
        <3> QED
            BY <1>1, <3>1, <3>2, MarkTyped
    <2>4. CASE batch' = batch
        BY <1>1, <2>4
    <2> QED
        BY <2>1, <2>2, <2>3, <2>4
           DEF AdmissionRefused, Load, PrepareFails, Judge, FinalRead, LoseAuthority
<1> QED
    BY <1>3, <1>4, <1>5, <1>6 DEF Typed, TypeOK, CellAtHand

\* The steps of a lane.
LEMMA LaneTyped ==
    ASSUME Typed, NEW r \in Runs, NEW l \in LaneIds, LaneStep(r, l)
    PROVE  Typed'
<1>1. /\ run[r] \in RunStates /\ run \in [Runs -> RunStates] /\ batch \in Batches
      /\ lane \in [Runs -> [LaneIds -> LaneStates]] /\ lane[r][l] \in LaneStates
      /\ batch.completed \in Nat /\ run[r].pending \in Nat /\ lane[r][l].taken \in Nat
      /\ rows \in [Cells -> Nat]
    BY DEF Typed, TypeOK, RunStates, Batches, LaneStates
<1>2. UNCHANGED <<call, deaths, booting, faults>>
    BY DEF LaneStep, Begin, Skip, LaneEnds, Answer, Queue, Invalidate, FlushLands, FlushInDoubt,
           Checkpoint
<1>3. HasCell(lane[r][l].pc) => lane[r][l].cell \in Cells
    BY DEF Typed, CellAtHand
\* What the step leaves the run, the lane, the rows and the document.
<1>4. ASSUME NEW new \in LaneStates, HasCell(new.pc) => new.cell \in Cells,
             lane' = [lane EXCEPT ![r] = [lane[r] EXCEPT ![l] = new]],
             run' = run \/ \E n \in RunStates : run' = [run EXCEPT ![r] = n],
             rows' \in [Cells -> Nat], batch' \in Batches
      PROVE  Typed'
    <2>1. run' \in [Runs -> RunStates] /\ lane' \in [Runs -> [LaneIds -> LaneStates]]
        BY <1>1, <1>4
    <2>2. \A s \in Runs, k \in LaneIds :
             lane'[s][k] = IF s = r /\ k = l THEN new ELSE lane[s][k]
        BY <1>1, <1>4
    <2>3. CellAtHand'
        BY <1>4, <2>2 DEF CellAtHand, Typed
    <2> QED
        BY <1>2, <1>4, <2>1, <2>3 DEF Typed, TypeOK
<1>5. \A pc \in {"idle", "request", "saved", "flushing", "persisted", "out"} :
         /\ [lane[r][l] EXCEPT !.pc = pc] \in LaneStates
         /\ [lane[r][l] EXCEPT !.pc = pc].pc = pc
         /\ [lane[r][l] EXCEPT !.pc = pc].cell = lane[r][l].cell
    BY <1>1 DEF LaneStates
<1>6. ASSUME NEW pc \in {"idle", "saved", "persisted", "out"}, Moves(r, l, pc),
             HasCell(pc) => HasCell(lane[r][l].pc),
             run' = run \/ \E n \in RunStates : run' = [run EXCEPT ![r] = n],
             rows' \in [Cells -> Nat], batch' \in Batches
      PROVE  Typed'
    <2> DEFINE new == [lane[r][l] EXCEPT !.pc = pc]
    <2>1. /\ new \in LaneStates /\ (HasCell(new.pc) => new.cell \in Cells)
          /\ lane' = [lane EXCEPT ![r] = [lane[r] EXCEPT ![l] = new]]
        BY <1>1, <1>3, <1>5, <1>6 DEF Moves
    <2> HIDE DEF new
    <2> QED
        BY <1>4, <1>6, <2>1
<1>7. ASSUME SeesStop(r, l), rows' = rows, batch' = batch
      PROVE  Typed'
    <2>1. [run[r] EXCEPT !.stopped = run[r].stopped \/ ~run[r].lost] \in RunStates
        BY <1>1 DEF RunStates
    <2> QED
        BY <1>1, <1>6, <1>7, <2>1 DEF SeesStop, HasCell
<1>8. Ahead(r, l) # {} => Min(Ahead(r, l)) \in Cells
    <2>1. Ahead(r, l) \subseteq Nat
        BY CellsFinite DEF Ahead
    <2> QED
        BY <2>1, MinIs DEF Ahead
<1>9. CASE Begin(r, l) \/ Skip(r, l)
    <2>1. CASE SeesStop(r, l)
        BY <1>7, <1>9, <2>1 DEF Begin, Skip
    <2>2. CASE ~SeesStop(r, l)
        <3> DEFINE c == Min(Ahead(r, l))
        <3>1. c \in Cells
            BY <1>8, <1>9 DEF Begin, Skip
        <3>2. /\ UNCHANGED <<batch, rows, run>>
              /\ \/ lane' = [lane EXCEPT ![r][l].cell = c]
                 \/ lane' = [lane EXCEPT ![r][l].pc = "request", ![r][l].cell = c]
            BY <1>9, <2>2 DEF Begin, Skip
        <3> HIDE DEF c
        <3> DEFINE new == [lane[r][l] EXCEPT !.cell = c]
                   req == [[lane[r][l] EXCEPT !.pc = "request"] EXCEPT !.cell = c]
        <3>3. \/ lane' = [lane EXCEPT ![r] = [lane[r] EXCEPT ![l] = new]]
              \/ lane' = [lane EXCEPT ![r] = [lane[r] EXCEPT ![l] = req]]
            <4>1. CASE lane' = [lane EXCEPT ![r][l].cell = c]
                BY <1>1, <4>1
            <4>2. CASE lane' = [lane EXCEPT ![r][l].pc = "request", ![r][l].cell = c]
                BY <1>1, <4>2
            <4> QED
                BY <3>2, <4>1, <4>2
        <3>4. new \in LaneStates /\ new.cell = c /\ req \in LaneStates /\ req.cell = c
            BY <1>1, <3>1 DEF LaneStates
        <3> HIDE DEF new, req
        <3> QED
            BY <1>1, <1>4, <3>1, <3>2, <3>3, <3>4
    <2> QED
        BY <2>1, <2>2
<1>10. CASE LaneEnds(r, l) \/ Invalidate(r, l)
    BY <1>1, <1>6, <1>7, <1>10 DEF LaneEnds, Invalidate, HasCell
<1>11. CASE Answer(r, l)
    <2>1. CASE Unwinding(r)
        BY <1>7, <1>11, <2>1 DEF Answer
    <2>2. CASE ~Unwinding(r)
        <3>1. rows' \in [Cells -> Nat]
            BY <1>1, <1>11, <2>2 DEF Answer
        <3> QED
            BY <1>1, <1>6, <1>11, <2>2, <3>1 DEF Answer, In, HasCell
    <2> QED
        BY <2>1, <2>2
<1>12. CASE Queue(r, l)
    <2> DEFINE p == run[r].pending + 1
    <2>1. p \in Nat
        BY <1>1
    <2>2. /\ UNCHANGED <<batch, rows>> /\ In(r, l, "saved")
          /\ \/ /\ run' = [run EXCEPT ![r].pending = p, ![r].due = TRUE]
                /\ lane' = [lane EXCEPT ![r][l].pc = "flushing", ![r][l].taken = p]
             \/ run' = [run EXCEPT ![r].pending = p] /\ Moves(r, l, "persisted")
        BY <1>12 DEF Queue
    <2> HIDE DEF p
    <2> DEFINE n1 == [[run[r] EXCEPT !.pending = p] EXCEPT !.due = TRUE]
               n2 == [run[r] EXCEPT !.pending = p]
               new == [[lane[r][l] EXCEPT !.pc = "flushing"] EXCEPT !.taken = p]
    <2>3. n1 \in RunStates /\ n2 \in RunStates
        BY <1>1, <2>1 DEF RunStates
    <2>4. new \in LaneStates /\ new.cell = lane[r][l].cell
        BY <1>1, <2>1 DEF LaneStates
    <2>5. /\ run' = [run EXCEPT ![r] = n1] \/ run' = [run EXCEPT ![r] = n2]
          /\ \/ lane' = [lane EXCEPT ![r] = [lane[r] EXCEPT ![l] = new]]
             \/ Moves(r, l, "persisted")
        BY <1>1, <2>2
    <2>6. HasCell(lane[r][l].pc)
        BY <2>2 DEF In, HasCell
    <2> HIDE DEF n1, n2, new
    <2> QED
        BY <1>1, <1>3, <1>4, <1>6, <2>2, <2>3, <2>4, <2>5, <2>6
<1>13. CASE FlushLands(r, l)
    <2> DEFINE new == [[lane[r][l] EXCEPT !.pc = "persisted"] EXCEPT !.taken = 0]
               n == [[run[r] EXCEPT !.pending = 0] EXCEPT !.due = FALSE]
               k == batch.completed + lane[r][l].taken
    <2>1. new \in LaneStates /\ new.cell = lane[r][l].cell /\ n \in RunStates /\ k \in Nat
        <3>1. new \in LaneStates /\ new.cell = lane[r][l].cell
            BY <1>1 DEF LaneStates
        <3>2. n \in RunStates
            BY <1>1 DEF RunStates
        <3> QED
            BY <1>1, <3>1, <3>2
    <2>2. /\ lane' = [lane EXCEPT ![r] = [lane[r] EXCEPT ![l] = new]]
          /\ run' = [run EXCEPT ![r] = n]
          /\ batch' = [batch EXCEPT !.completed = k]
        BY <1>1, <1>13 DEF FlushLands
    <2>3. rows' = rows /\ HasCell(lane[r][l].pc)
        BY <1>13 DEF FlushLands, In, HasCell
    <2> HIDE DEF new, n, k
    <2>4. batch' \in Batches
        BY <1>1, <2>1, <2>2 DEF Batches
    <2> QED
        BY <1>1, <1>3, <1>4, <2>1, <2>2, <2>3, <2>4
<1>14. CASE FlushInDoubt(r, l)
    <2>1. PICK counted \in {0, lane[r][l].taken} :
             batch' = [StatusIfWorking("interrupted") EXCEPT
                         !.completed = batch.completed + counted]
        BY <1>1, <1>14, MarkTyped DEF FlushInDoubt, StatusIfWorking, Batches
    <2> DEFINE k == batch.completed + counted
    <2>2. k \in Nat /\ "interrupted" \in Terminal
        BY <1>1 DEF Terminal
    <2>3. batch' = [StatusIfWorking("interrupted") EXCEPT !.completed = k]
        BY <2>1
    <2> HIDE DEF k
    <2>4. batch' \in Batches
        BY <1>1, <2>2, <2>3, MarkTyped
    <2> QED
        BY <1>1, <1>6, <1>14, <2>4 DEF FlushInDoubt, HasCell
<1>15. CASE Checkpoint(r, l)
    <2>1. CASE Unwinding(r)
        BY <1>7, <1>15, <2>1 DEF Checkpoint
    <2>2. CASE ~Unwinding(r)
        <3>1. lane[r][l].cell \in Cells
            BY <1>3, <1>15 DEF Checkpoint, In, HasCell
        <3>2. batch' \in Batches
            BY <1>1, <1>15, <2>2, <3>1 DEF Checkpoint, Batches
        <3> QED
            BY <1>1, <1>6, <1>15, <2>2, <3>2 DEF Checkpoint, HasCell
    <2> QED
        BY <2>1, <2>2
<1> QED
    BY <1>9, <1>10, <1>11, <1>12, <1>13, <1>14, <1>15 DEF LaneStep

LEMMA DrainTyped ==
    ASSUME Typed, NEW r \in Runs, Drain(r)
    PROVE  Typed'
<1>1. /\ run[r] \in RunStates /\ run \in [Runs -> RunStates] /\ batch \in Batches
      /\ lane \in [Runs -> [LaneIds -> LaneStates]]
      /\ batch.completed \in Nat /\ run[r].pending \in Nat
      /\ \A phase \in Alive \cup {"done"} :
            /\ At(r, phase) \in RunStates
            /\ [run EXCEPT ![r] = At(r, phase)] \in [Runs -> RunStates]
    BY RunValuesTyped DEF Typed, TypeOK, RunStates, Batches
<1>2. UNCHANGED <<rows, call, deaths, booting, faults>> /\ lane' = [lane EXCEPT ![r] = NewLanes]
    BY DEF Drain
<1>3. {"done", "crash", "judge"} \subseteq Alive \cup {"done"} /\ "interrupted" \in Terminal
    BY DEF Alive, Terminal
<1>4. run' \in [Runs -> RunStates]
    <2>1. ASSUME NEW phase \in Alive \cup {"done"},
                 run' = [run EXCEPT ![r] = [At(r, phase) EXCEPT !.pending = 0, !.due = FALSE,
                                                                !.done = {}]]
          PROVE  run' \in [Runs -> RunStates]
        <3>1. [At(r, phase) EXCEPT !.pending = 0, !.due = FALSE, !.done = {}] \in RunStates
            BY <1>1 DEF RunStates
        <3> QED
            BY <1>1, <2>1, <3>1
    <2> QED
        BY <1>1, <1>3, <2>1 DEF Drain, To
<1>5. batch' \in Batches
    <2> DEFINE n == batch.completed + run[r].pending
    <2>1. n \in Nat /\ StatusIfWorking("interrupted") \in Batches
        BY <1>1, <1>3, MarkTyped
    <2>2. batch' = batch \/ batch' = StatusIfWorking("interrupted")
          \/ batch' = [batch EXCEPT !.completed = n]
        BY DEF Drain
    <2> HIDE DEF n
    <2> QED
        BY <1>1, <2>1, <2>2 DEF Batches
<1>6. lane' \in [Runs -> [LaneIds -> LaneStates]]
    BY <1>1, <1>2, InitialValuesTyped
<1>7. CellAtHand'
    BY <1>1, <1>2, InitialValuesTyped DEF Typed, CellAtHand
<1> QED
    BY <1>2, <1>4, <1>5, <1>6, <1>7 DEF Typed, TypeOK

LEMMA RequestTyped ==
    ASSUME Typed, NEW q \in Calls, Request(q)
    PROVE  Typed'
<1>1. /\ run \in [Runs -> RunStates] /\ batch \in Batches /\ rows \in [Cells -> Nat]
      /\ call \in [Calls -> CallStates] /\ call[q] \in CallStates
      /\ booting \in BOOLEAN /\ faults \in Faults
      /\ batch.completed \in Nat /\ Aborted \in [Runs -> RunStates]
    <2>1. 1 \in Runs
        BY BatchAssumption DEF Runs
    <2> QED
        BY <2>1, RunValuesTyped DEF Typed, TypeOK, Batches
<1>2. UNCHANGED <<rows, lane, deaths>>
    BY DEF Request, Stop, Abort, Recover, Reconcile, CleanupStale, Count, Save, ResumeRead,
           ResumeSave
<1>3. faults' \in Faults /\ booting' \in BOOLEAN
    BY <1>1 DEF Request, Stop, Abort, AbortPass, Recover, Reconcile, CleanupStale, Count, Save,
                ResumeRead, ResumeSave, Faults, Orderly, Overlap
<1>4. run' \in [Runs -> RunStates]
    BY <1>1, InitialValuesTyped
       DEF Request, Stop, Abort, AbortPass, Recover, Reconcile, CleanupStale, Count, Save,
           ResumeRead, ResumeSave
<1>5. call' \in [Calls -> CallStates]
    <2>1. ASSUME NEW new \in CallStates, call' = [call EXCEPT ![q] = new]
          PROVE  call' \in [Calls -> CallStates]
        BY <1>1, <2>1
    <2>2. ASSUME NEW op \in {"abort", "count"}, NEW for \in {"stop", "recover", "reconcile", "cleanup"},
                 NEW status \in Terminal \cup {"none", "running"}, Loads(q, op, for, status)
          PROVE  call' \in [Calls -> CallStates]
        <3>1. [NoCall EXCEPT !.op = op, !.for = for, !.status = status,
                             !.completed = batch.completed] \in CallStates
            BY <1>1, InitialValuesTyped DEF CallStates
        <3> QED
            BY <2>1, <2>2, <3>1 DEF Loads
    <2>3. CASE Stop(q) \/ Recover(q) \/ Reconcile(q) \/ CleanupStale(q)
        BY <2>2, <2>3 DEF Stop, Recover, Reconcile, CleanupStale, Terminal
    <2>4. CASE Abort(q)
        <3>1. [call[q] EXCEPT !.op = "count"] \in CallStates
            BY <1>1 DEF CallStates
        <3> QED
            BY <2>1, <2>4, <3>1 DEF Abort
    <2>5. CASE Count(q)
        <3> DEFINE n == RowCount
        <3>1. n \in Nat /\ call' = [call EXCEPT ![q].op = "save", ![q].counts = n]
            BY <1>1, <2>5, RowCountNat DEF Count
        <3> HIDE DEF n
        <3>2. [[call[q] EXCEPT !.op = "save"] EXCEPT !.counts = n] \in CallStates
            BY <1>1, <3>1 DEF CallStates
        <3> QED
            BY <1>1, <3>1, <3>2
    <2>6. CASE Save(q) \/ ResumeSave(q)
        BY <2>1, <2>6, InitialValuesTyped DEF Save, ResumeSave, Ends
    <2>7. CASE ResumeRead(q)
        <3>1. batch.locked \in BOOLEAN
            BY <1>1 DEF Batches
        <3>2. [NoCall EXCEPT !.op = "resume", !.locked = batch.locked] \in CallStates
            BY <3>1, InitialValuesTyped DEF CallStates
        <3> QED
            BY <2>1, <2>7, <3>2 DEF ResumeRead
    <2> QED
        BY <2>3, <2>4, <2>5, <2>6, <2>7 DEF Request
<1>6. batch' \in Batches
    <2>1. CASE Stop(q)
        BY <1>1, <2>1 DEF Stop, Batches, Terminal
    <2>2. CASE Save(q)
        <3>1. PICK target \in Targets(q) : batch' = [batch EXCEPT
                 !.status = IF target # call[q].status THEN target ELSE @,
                 !.completed = IF call[q].counts # call[q].completed THEN call[q].counts ELSE @]
            BY <2>2 DEF Save
        <3>2. target \in Terminal \cup {"none", "running"}
            BY <1>1 DEF Targets, CallStates, Terminal
        <3> DEFINE s == IF target # call[q].status THEN target ELSE batch.status
                   n == IF call[q].counts # call[q].completed THEN call[q].counts
                        ELSE batch.completed
        <3>3. s \in Terminal \cup {"none", "running"} /\ n \in Nat
            BY <1>1, <3>2 DEF Batches, CallStates
        <3>4. batch' = [[batch EXCEPT !.status = s] EXCEPT !.completed = n]
            BY <1>1, <3>1 DEF Batches
        <3> HIDE DEF s, n
        <3> QED
            BY <1>1, <3>3, <3>4 DEF Batches
    <2>3. CASE ResumeSave(q)
        <3> DEFINE k == batch.locked /\ ~call[q].locked
        <3>1. k \in BOOLEAN
            OBVIOUS
        <3>2. batch' = [[batch EXCEPT !.status = "running"] EXCEPT !.locked = k]
            BY <1>1, <2>3, <3>1 DEF ResumeSave, Batches
        <3> HIDE DEF k
        <3> QED
            BY <1>1, <3>1, <3>2 DEF Batches
    <2>4. CASE batch' = batch
        BY <1>1, <2>4
    <2> QED
        BY <2>1, <2>2, <2>3, <2>4
           DEF Request, Abort, Recover, Reconcile, CleanupStale, Count, ResumeRead
<1> QED
    BY <1>2, <1>3, <1>4, <1>5, <1>6 DEF Typed, TypeOK, CellAtHand

LEMMA OthersTyped ==
    ASSUME Typed, StartBatch \/ StopAgain \/ Die \/ GhostStopped
    PROVE  Typed'
<1>1. /\ run \in [Runs -> RunStates] /\ batch \in Batches /\ faults \in Faults
      /\ 1 \in Runs /\ Aborted \in [Runs -> RunStates]
      /\ MaxDeaths \in Nat /\ deaths \in 0 .. MaxDeaths
    <2>1. 1 \in Runs /\ MaxDeaths \in Nat
        BY BatchAssumption DEF Runs
    <2> QED
        BY <2>1, RunValuesTyped DEF Typed, TypeOK
<1>2. CASE StartBatch
    <2>1. batch' \in Batches /\ run' \in [Runs -> RunStates]
        BY <1>1, <1>2, InitialValuesTyped DEF StartBatch, Batches
    <2> QED
        BY <1>2, <2>1 DEF StartBatch, Typed, TypeOK, CellAtHand
<1>3. CASE StopAgain
    BY <1>1, <1>3 DEF StopAgain, Typed, TypeOK, CellAtHand
<1>4. CASE GhostStopped
    <2>1. batch' \in Batches
        BY <1>1, <1>4, MarkTyped DEF GhostStopped, Terminal
    <2> QED
        BY <1>4, <2>1 DEF GhostStopped, Typed, TypeOK, CellAtHand
<1>5. CASE Die
    <2>1. batch' \in Batches
        BY <1>1, <1>5, MarkTyped DEF Die, Terminal
    <2>2. /\ run' \in [Runs -> RunStates] /\ lane' \in [Runs -> [LaneIds -> LaneStates]]
          /\ call' \in [Calls -> CallStates]
        BY <1>1, <1>5, InitialValuesTyped DEF Die
    <2>3. deaths' \in 0 .. MaxDeaths
        BY <1>1, <1>5 DEF Die
    <2>4. faults' \in Faults /\ booting' \in BOOLEAN /\ rows' = rows
        BY <1>5 DEF Die, Faults, Orderly
    <2>5. CellAtHand'
        BY <1>5, InitialValuesTyped DEF Die, CellAtHand
    <2> QED
        BY <2>1, <2>2, <2>3, <2>4, <2>5 DEF Typed, TypeOK
<1> QED
    BY <1>2, <1>3, <1>4, <1>5

LEMMA NextTyped == Typed /\ [Next]_vars => Typed'
<1> SUFFICES ASSUME Typed, [Next]_vars PROVE Typed'
    OBVIOUS
<1>1. ASSUME NEW r \in Runs, RunStep(r) \/ LoseAuthority(r) PROVE Typed'
    BY <1>1, RunTyped, LaneTyped, DrainTyped DEF RunStep
<1>2. CASE UNCHANGED vars
    BY <1>2 DEF vars, Typed, TypeOK, CellAtHand
<1> QED
    BY <1>1, <1>2, RequestTyped, OthersTyped DEF Next

\* Every variable keeps its type, in any number of cells, lanes, runs and
\* requests: the counters are numbers, and a checkpoint names planned cells.
THEOREM BatchTyped == Spec => []TypeOK
<1>1. Typed => TypeOK
    BY DEF Typed
<1> QED
    BY <1>1, InitTyped, NextTyped, PTL DEF Spec

-----------------------------------------------------------------------------
(***************************************************************************)
(* Terminal statuses.                                                      *)
(***************************************************************************)
\* The document keeps its fields, and each request its record.
Shaped ==
    /\ batch = [status |-> batch.status, completed |-> batch.completed,
                locked |-> batch.locked, checkpoint |-> batch.checkpoint]
    /\ call = [q \in Calls |-> call[q]]

LEMMA InitShaped == Init => Shaped
BY DEF Init, Shaped

\* What a run and the process do to the status.
LEMMA RunKeepsTerminal ==
    ASSUME Shaped, NEW r \in Runs, RunStep(r) \/ LoseAuthority(r)
    PROVE  /\ Shaped'
           /\ batch.status \in Terminal => batch'.status = batch.status
<1>1. call' = call
    BY DEF RunStep, LoseAuthority, Lock, AdmissionRefused, Load, PrepareFails, LaneStep, Begin,
           Skip, LaneEnds, Answer, Queue, Invalidate, FlushLands, FlushInDoubt, Checkpoint,
           Drain, Judge, FinalRead, Finalize, CrashPath
<1>2. ASSUME NEW l \in LaneIds, LaneStep(r, l)
      PROVE  \/ batch' = batch
             \/ \E n : batch' = [batch EXCEPT !.completed = n]
             \/ \E k : batch' = [batch EXCEPT !.checkpoint = k]
             \/ \E n : batch' = [StatusIfWorking("interrupted") EXCEPT !.completed = n]
    BY <1>2 DEF LaneStep, Begin, Skip, LaneEnds, Answer, Queue, Invalidate, FlushLands,
                FlushInDoubt, Checkpoint
<1>3. CASE Drain(r)
    <2>1. \/ batch' = batch \/ batch' = StatusIfWorking("interrupted")
          \/ \E n : batch' = [batch EXCEPT !.completed = n]
        BY <1>3 DEF Drain
    <2> QED
        BY <1>1, <2>1 DEF Shaped, StatusIfWorking, Terminal
<1>4. CASE CrashPath(r)
    <2>1. batch' = batch \/ \E n : batch' = [StatusIfWorking("failed") EXCEPT !.completed = n]
        BY <1>4 DEF CrashPath
    <2> QED
        BY <1>1, <2>1 DEF Shaped, StatusIfWorking, Terminal
<1>5. CASE Lock(r)
    BY <1>1, <1>5 DEF Lock, Shaped
<1>6. CASE Finalize(r)
    BY <1>1, <1>6 DEF Finalize, Shaped, StatusIfWorking, Terminal
<1>7. CASE batch' = batch
    BY <1>1, <1>7 DEF Shaped
<1>8. CASE \E l \in LaneIds : LaneStep(r, l)
    BY <1>1, <1>2, <1>8 DEF Shaped, StatusIfWorking, Terminal
<1>9. \/ \E l \in LaneIds : LaneStep(r, l)
      \/ Drain(r) \/ CrashPath(r) \/ Lock(r) \/ Finalize(r) \/ batch' = batch
    BY DEF RunStep, LoseAuthority, AdmissionRefused, Load, PrepareFails, Judge, FinalRead
<1> QED
    BY <1>3, <1>4, <1>5, <1>6, <1>7, <1>8, <1>9

LEMMA RequestKeepsTerminal ==
    ASSUME Shaped, NEW q \in Calls, Request(q)
    PROVE  /\ Shaped'
           /\ batch.status \in Terminal /\ batch'.status # batch.status
              => call[q].op \in {"save", "resume"} /\ call'[q].op = "idle"
<1>1. call' = [p \in Calls |-> call'[p]]
    BY DEF Shaped, Request, Stop, Abort, Recover, Reconcile, CleanupStale, Count, Save,
           ResumeRead, ResumeSave, Loads, Ends
<1>2. CASE Save(q)
    <2>1. \E s, n : batch' = [batch EXCEPT !.status = s, !.completed = n]
        BY <1>2 DEF Save
    <2>2. call[q].op = "save" /\ call'[q].op = "idle"
        BY <1>2 DEF Save, Ends, NoCall, Shaped
    <2> QED
        BY <1>1, <2>1, <2>2 DEF Shaped
<1>3. CASE ResumeSave(q)
    <2>1. \E s, k : batch' = [batch EXCEPT !.status = s, !.locked = k]
        BY <1>3 DEF ResumeSave
    <2>2. call[q].op = "resume" /\ call'[q].op = "idle"
        BY <1>3 DEF ResumeSave, Ends, NoCall, Shaped
    <2> QED
        BY <1>1, <2>1, <2>2 DEF Shaped
<1>4. CASE Stop(q)
    BY <1>1, <1>4 DEF Stop, Shaped, Terminal
<1>5. CASE batch' = batch
    BY <1>1, <1>5 DEF Shaped
<1> QED
    BY <1>2, <1>3, <1>4, <1>5
       DEF Request, Abort, Recover, Reconcile, CleanupStale, Count, ResumeRead

LEMMA OthersKeepTerminal ==
    ASSUME Shaped, StartBatch \/ StopAgain \/ Die \/ GhostStopped \/ UNCHANGED vars
    PROVE  /\ Shaped'
           /\ batch.status \in Terminal => batch'.status = batch.status
<1>1. CASE StartBatch
    BY <1>1 DEF StartBatch, Shaped, Terminal
<1>2. CASE StopAgain \/ UNCHANGED vars
    BY <1>2 DEF StopAgain, Shaped, vars
<1>3. CASE Die
    <2>1. batch' = batch \/ batch' = StatusIfWorking("interrupted")
        BY <1>3 DEF Die
    <2>2. call' = [q \in Calls |-> call'[q]]
        BY <1>3 DEF Die
    <2> QED
        BY <2>1, <2>2 DEF Shaped, StatusIfWorking, Terminal
<1>4. CASE GhostStopped
    BY <1>4 DEF GhostStopped, Shaped, StatusIfWorking, Terminal
<1> QED
    BY <1>1, <1>2, <1>3, <1>4

\* A terminal status is replaced by nobody but a request that saves a document
\* it has loaded, in any number of lanes, runs and requests.
THEOREM TerminalsStay == Spec => TerminalIsFinal
<1> DEFINE Kept == batch.status \in Terminal /\ batch'.status # batch.status =>
                      \E q \in Calls : call[q].op \in {"save", "resume"} /\ call'[q].op = "idle"
<1>1. ASSUME Shaped, [Next]_vars
      PROVE  Shaped' /\ Kept
    <2>1. CASE \E q \in Calls : Request(q)
        BY <1>1, <2>1, RequestKeepsTerminal
    <2>2. CASE \E r \in Runs : RunStep(r) \/ LoseAuthority(r)
        BY <1>1, <2>2, RunKeepsTerminal
    <2>3. CASE StartBatch \/ StopAgain \/ Die \/ GhostStopped \/ UNCHANGED vars
        BY <1>1, <2>3, OthersKeepTerminal
    <2> QED
        BY <1>1, <2>1, <2>2, <2>3 DEF Next
<1>2. Shaped /\ [Next]_vars => Shaped' /\ [Kept]_vars
    BY <1>1
<1> QED
    BY <1>2, InitShaped, PTL DEF Spec, TerminalIsFinal

-----------------------------------------------------------------------------
(***************************************************************************)
(* A batch in latency mode (one lane) that nothing has disturbed.          *)
(***************************************************************************)
QuietBatches == [status : {"none", "running", "completed", "failed"}, completed : Nat,
                 locked : BOOLEAN, checkpoint : SUBSET Cells]
QuietRuns == [phase : Alive \cup {"unused", "done"}, stopped : {FALSE}, aborted : {FALSE},
              lost : {FALSE}, pending : Nat, due : BOOLEAN, done : SUBSET Cells,
              outcome : {"completed", "failed"}]
QuietLanes == [pc : {"idle", "request", "saved", "flushing", "persisted", "out"},
               cell : Cells \cup {0}, taken : Nat]

QuietTypes ==
    /\ batch \in QuietBatches
    /\ rows \in [Cells -> {0, 1}]
    /\ run \in [Runs -> QuietRuns]
    /\ lane \in [Runs -> [LaneIds -> QuietLanes]]
    /\ ~booting
    /\ call = [q \in Calls |-> call[q]]
    /\ \A q \in Calls : call[q].op \in {"idle", "resume"}

\* Runs come one after the other, and none before the batch has started.
OneRun ==
    /\ \A r, s \in Running : r = s
    /\ batch.status = "none" => Running = {} /\ \A q \in Calls : call[q].op = "idle"

Resting ==
    \A r \in Runs : run[r].phase # "tasks" => lane[r] = NewLanes /\ run[r].pending = 0

\* The cell whose row is written and whose checkpoint is not.
HasRow(pc) == pc \in {"saved", "flushing", "persisted"}
InHand(c) ==
    \E r \in Runs : run[r].phase = "tasks" /\ HasRow(lane[r][0].pc) /\ lane[r][0].cell = c

\* The lane walks through the cells its run has found missing, in order.
Ordered(r) ==
    /\ run[r].done \subseteq batch.checkpoint
    /\ lane[r][0].pc \notin {"idle", "out"} => lane[r][0].cell \in Cells \ batch.checkpoint
    /\ \A c \in batch.checkpoint : c \in run[r].done \/ c <= lane[r][0].cell

\* The counter and what is queued for it count the checkpointed cells, and the
\* one at hand once it is queued.
Queued(pc) == IF pc \in {"flushing", "persisted"} THEN 1 ELSE 0
Counted(r) ==
    /\ lane[r][0].pc = "flushing" => lane[r][0].taken = run[r].pending
    /\ batch.completed + run[r].pending = Cardinality(batch.checkpoint) + Queued(lane[r][0].pc)

Tasks == \A r \in Runs : run[r].phase = "tasks" => Ordered(r) /\ Counted(r)
NoTasks == (\A r \in Runs : run[r].phase # "tasks") => batch.completed = Cardinality(batch.checkpoint)

RowsCheckpointed ==
    \A c \in Cells : rows[c] = IF c \in batch.checkpoint \/ InHand(c) THEN 1 ELSE 0

CompletedHasAll ==
    /\ batch.status = "completed" => batch.checkpoint = Cells
    /\ \A r \in Runs : run[r].phase = "finalize" /\ run[r].outcome = "completed"
                       => batch.checkpoint = Cells

Quiet ==
    /\ QuietTypes /\ OneRun /\ Resting
    /\ Tasks /\ NoTasks
    /\ RowsCheckpointed /\ CompletedHasAll

LEMMA Checkpoints ==
    ASSUME NEW S \in SUBSET Cells
    PROVE  /\ Cardinality(S) \in Nat
           /\ Cardinality(S) >= NumCells => S = Cells
           /\ \A c \in Cells \ S : Cardinality(S \cup {c}) = Cardinality(S) + 1
<1>1. IsFiniteSet(S) /\ Cardinality(S) <= NumCells /\ (Cardinality(S) = NumCells => S = Cells)
    BY CellsFinite, FS_Subset
<1>2. Cardinality(S) \in Nat
    BY <1>1, FS_CardinalityType
<1>3. NumCells \in Nat
    BY BatchAssumption
<1> QED
    BY <1>1, <1>2, <1>3, FS_AddElement

LEMMA NewTyped ==
    /\ NewRun \in QuietRuns /\ NewRun.phase = "lock" /\ NewRun.pending = 0
    /\ Over \in QuietRuns /\ Over.phase = "done" /\ Over.pending = 0
    /\ NewLanes \in [LaneIds -> QuietLanes]
BY DEF NewRun, Over, QuietRuns, NewLanes, QuietLanes, Alive

LEMMA InitQuiet == Init => Quiet
<1> SUFFICES ASSUME Init PROVE Quiet
    OBVIOUS
<1>1. /\ batch = [status |-> "none", completed |-> 0, locked |-> FALSE, checkpoint |-> {}]
      /\ \A r \in Runs : run[r].phase = "unused" /\ run[r].pending = 0 /\ lane[r] = NewLanes
      /\ \A c \in Cells : rows[c] = 0
      /\ \A q \in Calls : call[q].op = "idle"
    BY DEF Init, NewRun, NoCall
<1>2. QuietTypes
    <2>1. [NewRun EXCEPT !.phase = "unused"] \in QuietRuns
        BY DEF NewRun, QuietRuns
    <2> QED
        BY <1>1, <2>1, NewTyped DEF Init, QuietTypes, QuietBatches
<1>3. Running = {} /\ \A c \in Cells : ~InHand(c)
    BY <1>1 DEF Running, InHand, Alive
<1>4. Cardinality(batch.checkpoint) = 0
    BY <1>1, FS_EmptySet
<1> QED
    BY <1>1, <1>2, <1>3, <1>4
       DEF Quiet, OneRun, Resting, Tasks, NoTasks, RowsCheckpointed, CompletedHasAll

\* A run that is not at its tasks goes on.
LEMMA MoveQuiet ==
    ASSUME Quiet, NEW r \in Runs, run[r].phase \in Alive \ {"tasks"},
           NEW new \in QuietRuns, new.phase \in (Alive \ {"tasks"}) \cup {"done"}, new.pending = 0,
           run' = [run EXCEPT ![r] = new], UNCHANGED <<rows, lane, booting, call>>,
           batch' \in QuietBatches, UNCHANGED <<batch.completed, batch.checkpoint>>,
           batch'.status = "none" => batch.status = "none",
           batch'.status = "completed" => batch.checkpoint = Cells,
           new.phase = "finalize" /\ new.outcome = "completed" => batch.checkpoint = Cells
    PROVE  Quiet'
<1>1. QuietTypes'
    BY DEF Quiet, QuietTypes
<1>2. run'[r] = new /\ \A s \in Runs : s # r => run'[s] = run[s]
    BY DEF Quiet, QuietTypes
<1>3. r \in Running /\ \A s \in Running : s = r
    BY DEF Quiet, OneRun, Running
<1>4. OneRun'
    BY <1>2, <1>3 DEF Quiet, OneRun, Running
<1>5. \A s \in Runs : run[s].phase # "tasks" /\ run'[s].phase # "tasks"
    BY <1>2, <1>3, NewTyped DEF Running, Alive
<1>6. Resting'
    BY <1>2, <1>5 DEF Quiet, Resting
<1>7. Tasks' /\ NoTasks'
    BY <1>5 DEF Quiet, Tasks, NoTasks
<1>8. RowsCheckpointed'
    BY <1>5 DEF Quiet, RowsCheckpointed, InHand
<1>9. CompletedHasAll'
    BY <1>2 DEF Quiet, CompletedHasAll
<1> QED
    BY <1>1, <1>4, <1>6, <1>7, <1>8, <1>9 DEF Quiet

\* A run starts where none is under way.
LEMMA StartQuiet ==
    ASSUME Quiet, Running = {}, NEW x, run' = [run EXCEPT ![x] = NewRun],
           UNCHANGED <<rows, lane>>, ~booting', call' = [q \in Calls |-> call'[q]],
           \A q \in Calls : call'[q].op \in {"idle", "resume"},
           batch' \in QuietBatches, UNCHANGED <<batch.completed, batch.checkpoint>>,
           batch'.status = "running"
    PROVE  Quiet'
<1>1. QuietTypes'
    BY NewTyped DEF Quiet, QuietTypes
<1>2. \A s \in Runs : run'[s] = IF s = x THEN NewRun ELSE run[s]
    BY DEF Quiet, QuietTypes
<1>3. OneRun'
    BY <1>2 DEF Quiet, OneRun, Running
<1>4. \A s \in Runs : run[s].phase # "tasks" /\ run'[s].phase # "tasks"
    BY <1>2, NewTyped DEF Running, Alive
<1>5. Resting'
    BY <1>2, <1>4, NewTyped DEF Quiet, Resting
<1>6. Tasks' /\ NoTasks'
    BY <1>4 DEF Quiet, Tasks, NoTasks
<1>7. RowsCheckpointed'
    BY <1>4 DEF Quiet, RowsCheckpointed, InHand
<1>8. CompletedHasAll'
    BY <1>2, NewTyped DEF Quiet, CompletedHasAll
<1> QED
    BY <1>1, <1>3, <1>5, <1>6, <1>7, <1>8 DEF Quiet

\* Only the lane of the run at its tasks has a cell at hand.
LEMMA HandIs ==
    ASSUME Quiet, NEW r \in Runs, run[r].phase = "tasks"
    PROVE  /\ \A s \in Runs : s # r => run[s].phase \notin Alive
           /\ \A c : InHand(c) <=> HasRow(lane[r][0].pc) /\ lane[r][0].cell = c
<1>1. \A s \in Runs : s # r => run[s].phase \notin Alive
    BY DEF Quiet, OneRun, Running, Alive
<1>2. "tasks" \in Alive
    BY DEF Alive
<1> QED
    BY <1>1, <1>2 DEF InHand

\* A step of the lane takes the run to nr and the lane to nl, and the document
\* and the rows follow.
Follow(r, nr, nl) ==
    /\ nr \in QuietRuns /\ nr.phase = "tasks" /\ run' = [run EXCEPT ![r] = nr]
    /\ nl \in QuietLanes /\ lane' = [lane EXCEPT ![r] = [lane[r] EXCEPT ![0] = nl]]
    /\ batch' \in QuietBatches /\ batch'.status = batch.status
    /\ batch.checkpoint \subseteq batch'.checkpoint
    /\ rows' \in [Cells -> {0, 1}] /\ UNCHANGED <<booting, call>>
    /\ nr.done \subseteq batch'.checkpoint
    /\ nl.pc \notin {"idle", "out"} => nl.cell \in Cells \ batch'.checkpoint
    /\ \A c \in batch'.checkpoint : c \in nr.done \/ c <= nl.cell
    /\ nl.pc = "flushing" => nl.taken = nr.pending
    /\ batch'.completed + nr.pending = Cardinality(batch'.checkpoint) + Queued(nl.pc)
    /\ \A c \in Cells : rows'[c] = IF c \in batch'.checkpoint \/ (HasRow(nl.pc) /\ nl.cell = c)
                                   THEN 1 ELSE 0

LEMMA TaskQuiet ==
    ASSUME Quiet, Lanes = 1, NEW r \in Runs, run[r].phase = "tasks", NEW nr, NEW nl,
           Follow(r, nr, nl)
    PROVE  Quiet'
<1>1. 0 \in LaneIds
    BY DEF LaneIds
<1>2. lane'[r][0] = nl /\ \A s \in Runs : s # r => lane'[s] = lane[s]
    BY <1>1 DEF Quiet, QuietTypes, Follow
<1>3. run'[r] = nr /\ nr.phase = "tasks" /\ \A s \in Runs : s # r => run'[s] = run[s]
    BY DEF Quiet, QuietTypes, Follow
<1>4. QuietTypes'
    BY <1>1 DEF Quiet, QuietTypes, Follow
<1>5. \A s \in Runs : s # r => run[s].phase \notin Alive /\ run'[s].phase \notin Alive
    BY <1>3, HandIs
<1>6. "tasks" \in Alive
    BY DEF Alive
<1>7. OneRun'
    BY <1>3, <1>5, <1>6 DEF Quiet, OneRun, Running, Follow
<1>8. Resting'
    BY <1>2, <1>3 DEF Quiet, Resting
<1>9. Tasks'
    BY <1>2, <1>3, <1>5, <1>6 DEF Tasks, Ordered, Counted, Follow
<1>10. NoTasks'
    BY <1>3 DEF NoTasks
<1>11. \A c : InHand(c)' <=> HasRow(nl.pc) /\ nl.cell = c
    BY <1>2, <1>3, <1>5, <1>6 DEF InHand
<1>12. RowsCheckpointed'
    BY <1>11 DEF RowsCheckpointed, Follow
<1>13. batch'.checkpoint \subseteq Cells
    BY DEF QuietBatches, Follow
<1>14. CompletedHasAll'
    BY <1>3, <1>13 DEF Quiet, CompletedHasAll, Follow
<1> QED
    BY <1>4, <1>7, <1>8, <1>9, <1>10, <1>12, <1>14 DEF Quiet

\* A quiet run is neither stopped nor aborted, and has its claim.
LEMMA QuietRunIs ==
    ASSUME Quiet, NEW r \in Runs
    PROVE  /\ run[r] \in QuietRuns /\ ~run[r].stopped /\ ~run[r].aborted /\ ~run[r].lost
           /\ ~Unwinding(r) /\ batch \in QuietBatches
           /\ batch.status # "stopped" /\ batch.checkpoint \subseteq Cells
BY DEF Quiet, QuietTypes, QuietRuns, QuietBatches, Unwinding

\* The steps of a run before and after its tasks.
LEMMA BesideTasksQuiet ==
    ASSUME Quiet, NEW r \in Runs,
           Lock(r) \/ PrepareFails(r) \/ Judge(r) \/ FinalRead(r) \/ Finalize(r) \/ CrashPath(r)
    PROVE  Quiet'
<1> DEFINE Moved(ph) == [run[r] EXCEPT !.phase = ph]
<1>1. /\ run[r] \in QuietRuns /\ ~run[r].aborted /\ ~run[r].lost /\ ~Unwinding(r)
      /\ batch \in QuietBatches /\ batch.completed \in Nat
    BY QuietRunIs DEF QuietBatches
<1>2. run[r].phase \in Alive \ {"tasks"} /\ run[r].pending = 0 /\ UNCHANGED <<rows, lane, booting, call>>
    BY DEF Quiet, Resting, Alive, Lock, PrepareFails, Judge, FinalRead, Finalize, CrashPath
<1>3. ASSUME NEW ph \in {"load", "crash", "final"}
      PROVE  /\ Moved(ph) \in QuietRuns /\ Moved(ph).phase = ph /\ Moved(ph).pending = 0
             /\ ph \in Alive \ {"tasks"}
    BY <1>1, <1>2, <1>3 DEF QuietRuns, Alive
<1>4. /\ batch.status # "none"
      /\ batch.status = "completed" => batch.checkpoint = Cells
      /\ batch.completed = Cardinality(batch.checkpoint)
    <2>1. r \in Running
        BY <1>2 DEF Running
    <2>2. \A s \in Runs : run[s].phase # "tasks"
        BY <1>2, <2>1 DEF Quiet, OneRun, Running, Alive
    <2> QED
        BY <2>1, <2>2 DEF Quiet, OneRun, NoTasks, CompletedHasAll
<1>5. CASE Lock(r)
    <2>1. batch' = [batch EXCEPT !.locked = TRUE]
          /\ (run' = [run EXCEPT ![r] = Over] \/ run' = [run EXCEPT ![r] = Moved("load")])
        BY <1>5 DEF Lock, To, At
    <2>2. batch' \in QuietBatches /\ UNCHANGED <<batch.status, batch.completed, batch.checkpoint>>
        BY <1>1, <2>1 DEF QuietBatches
    <2> QED
        BY <1>2, <1>3, <1>4, <2>1, <2>2, NewTyped, MoveQuiet
<1>6. CASE PrepareFails(r) \/ Judge(r)
    <2>1. batch' = batch
          /\ \/ run' = [run EXCEPT ![r] = Over]
             \/ \E ph \in {"crash", "final"} : run' = [run EXCEPT ![r] = Moved(ph)]
        BY <1>1, <1>6 DEF PrepareFails, Judge, To, At
    <2>2. UNCHANGED <<batch.status, batch.completed, batch.checkpoint>> /\ batch' \in QuietBatches
        BY <1>1, <2>1
    <2>3. CASE run' = [run EXCEPT ![r] = Over]
        BY <1>2, <1>4, <2>2, <2>3, NewTyped, MoveQuiet
    <2>4. ASSUME NEW ph \in {"crash", "final"}, run' = [run EXCEPT ![r] = Moved(ph)]
          PROVE  Quiet'
        <3>1. Moved(ph) \in QuietRuns /\ Moved(ph).pending = 0 /\ Moved(ph).phase = ph
              /\ ph \in Alive \ {"tasks"}
            BY <1>3
        <3> HIDE DEF Moved
        <3> QED
            BY <1>2, <1>4, <2>2, <2>4, <3>1, MoveQuiet
    <2> QED
        BY <2>1, <2>3, <2>4
<1>7. CASE FinalRead(r)
    <2>1. PICK outcome \in Outcomes(batch.completed) :
              run' = [run EXCEPT ![r].phase = "finalize", ![r].outcome = outcome]
        BY <1>7 DEF FinalRead
    <2> DEFINE new == [[run[r] EXCEPT !.phase = "finalize"] EXCEPT !.outcome = outcome]
    <2>2. outcome \in {"completed", "failed"} /\ (outcome = "completed" => batch.completed >= NumCells)
        BY <1>1, BatchAssumption DEF Outcomes
    <2>3. new \in QuietRuns /\ new.phase = "finalize" /\ new.outcome = outcome /\ new.pending = 0
        BY <1>1, <1>2, <2>2 DEF QuietRuns, Alive
    <2>4. run' = [run EXCEPT ![r] = new]
        BY <2>1 DEF Quiet, QuietTypes
    <2>5. outcome = "completed" => batch.checkpoint = Cells
        BY <1>4, <2>2, Checkpoints, QuietRunIs
    <2>6. batch' = batch /\ "finalize" \in Alive \ {"tasks"}
        BY <1>7 DEF FinalRead, Alive
    <2> HIDE DEF new
    <2> QED
        BY <1>1, <1>2, <1>4, <2>3, <2>4, <2>5, <2>6, MoveQuiet
<1>8. CASE Finalize(r)
    <2>1. batch' = StatusIfWorking(run[r].outcome) /\ run' = [run EXCEPT ![r] = Over]
          /\ run[r].outcome \in {"completed", "failed"}
        BY <1>1, <1>8 DEF Finalize, To, At, QuietRuns
    <2>2. batch' \in QuietBatches /\ UNCHANGED <<batch.completed, batch.checkpoint>>
          /\ (batch'.status = batch.status \/ batch'.status = run[r].outcome)
        BY <1>1, <2>1 DEF QuietBatches, StatusIfWorking
    <2>3. run[r].outcome = "completed" => batch.checkpoint = Cells
        BY <1>8 DEF Finalize, Quiet, CompletedHasAll
    <2> QED
        BY <1>2, <1>4, <2>1, <2>2, <2>3, NewTyped, MoveQuiet
<1>9. CASE CrashPath(r)
    <2>1. batch' = [StatusIfWorking("failed") EXCEPT !.completed = @ + run[r].pending]
          /\ run' = [run EXCEPT ![r] = Over]
        BY <1>1, <1>9 DEF CrashPath, To, At
    <2>2. StatusIfWorking("failed") \in QuietBatches
          /\ StatusIfWorking("failed").completed = batch.completed
          /\ StatusIfWorking("failed").checkpoint = batch.checkpoint
          /\ StatusIfWorking("failed").status \in {batch.status, "failed"}
        BY <1>1 DEF QuietBatches, StatusIfWorking
    <2>3. batch.completed + run[r].pending = batch.completed
        BY <1>1, <1>2
    <2>4. batch' \in QuietBatches /\ UNCHANGED <<batch.completed, batch.checkpoint>>
          /\ (batch'.status = batch.status \/ batch'.status = "failed")
        BY <1>1, <2>1, <2>2, <2>3 DEF QuietBatches
    <2> QED
        BY <1>2, <1>4, <2>1, <2>4, NewTyped, MoveQuiet
<1> QED
    BY <1>5, <1>6, <1>7, <1>8, <1>9

LEMMA LoadQuiet ==
    ASSUME Quiet, Lanes = 1, NEW r \in Runs, Load(r)
    PROVE  Quiet'
<1>1. /\ run[r].phase = "load" /\ UNCHANGED <<batch, rows, lane, booting, call>>
      /\ run' = [run EXCEPT ![r].phase = "tasks", ![r].done = batch.checkpoint]
    BY DEF Load
<1>2. r \in Running /\ \A s \in Runs : s # r => run[s].phase \notin Alive
    BY <1>1 DEF Quiet, OneRun, Running, Alive
<1>3. /\ run'[r].phase = "tasks" /\ run'[r].done = batch.checkpoint /\ run'[r].pending = run[r].pending
      /\ \A s \in Runs : s # r => run'[s] = run[s]
    BY <1>1 DEF Quiet, QuietTypes, QuietRuns
<1>4. run' \in [Runs -> QuietRuns]
    <2>1. [[run[r] EXCEPT !.phase = "tasks"] EXCEPT !.done = batch.checkpoint] \in QuietRuns
        BY QuietRunIs DEF QuietRuns, Alive
    <2>2. run' = [run EXCEPT ![r] = [[run[r] EXCEPT !.phase = "tasks"] EXCEPT !.done = batch.checkpoint]]
        BY <1>1 DEF Quiet, QuietTypes
    <2> QED
        BY <2>1, <2>2 DEF Quiet, QuietTypes
<1>5. QuietTypes'
    BY <1>1, <1>4 DEF Quiet, QuietTypes
<1>6. OneRun'
    BY <1>1, <1>2, <1>3 DEF Quiet, OneRun, Running
<1>7. Resting'
    BY <1>1, <1>3 DEF Quiet, Resting
<1>8. lane[r][0].pc = "idle" /\ run[r].pending = 0
    BY <1>1 DEF Quiet, Resting, NewLanes, LaneIds
<1>9. \A s \in Runs : run[s].phase # "tasks"
    BY <1>1, <1>2 DEF Alive
<1>10. batch.completed = Cardinality(batch.checkpoint) /\ batch.completed \in Nat
    BY <1>9, QuietRunIs DEF Quiet, NoTasks, QuietBatches
<1>11. Tasks'
    <2>1. \A s \in Runs : run'[s].phase = "tasks" => s = r
        BY <1>3, <1>9
    <2>2. Ordered(r)'
        BY <1>1, <1>3, <1>8 DEF Ordered
    <2>3. Counted(r)'
        BY <1>1, <1>3, <1>8, <1>10 DEF Counted, Queued
    <2> QED
        BY <2>1, <2>2, <2>3 DEF Tasks
<1>12. NoTasks'
    BY <1>3 DEF NoTasks
<1>13. \A c : ~InHand(c) /\ ~InHand(c)'
    BY <1>1, <1>3, <1>8, <1>9 DEF InHand, HasRow
<1>14. RowsCheckpointed'
    BY <1>1, <1>13 DEF Quiet, RowsCheckpointed
<1>15. CompletedHasAll'
    BY <1>1, <1>3 DEF Quiet, CompletedHasAll
<1> QED
    BY <1>5, <1>6, <1>7, <1>11, <1>12, <1>14, <1>15 DEF Quiet

LEMMA DrainQuiet ==
    ASSUME Quiet, Lanes = 1, NEW r \in Runs, Drain(r)
    PROVE  Quiet'
<1>1. /\ run[r].phase = "tasks" /\ lane[r][0].pc = "out" /\ ~run[r].lost /\ ~run[r].aborted
      /\ ~run[r].stopped /\ batch.status # "stopped"
    <2>1. 0 \in LaneIds
        BY DEF LaneIds
    <2>2. run[r].phase = "tasks" /\ lane[r][0].pc = "out"
        BY <2>1 DEF Drain
    <2> QED
        BY <2>2, QuietRunIs
<1>2. /\ batch' = [batch EXCEPT !.completed = @ + run[r].pending]
      /\ run' = [run EXCEPT ![r] = [At(r, "judge") EXCEPT !.pending = 0, !.due = FALSE, !.done = {}]]
      /\ lane' = [lane EXCEPT ![r] = NewLanes]
      /\ UNCHANGED <<rows, booting, call>>
    BY <1>1 DEF Drain
<1> DEFINE new == [At(r, "judge") EXCEPT !.pending = 0, !.due = FALSE, !.done = {}]
<1>3. new \in QuietRuns /\ new.phase = "judge" /\ new.pending = 0
    <2>1. At(r, "judge") \in QuietRuns /\ At(r, "judge").phase = "judge"
        BY QuietRunIs DEF At, QuietRuns, Alive
    <2> QED
        BY <2>1 DEF QuietRuns
<1> HIDE DEF new
<1>4. run'[r] = new /\ \A s \in Runs : s # r => run'[s] = run[s]
    BY <1>2 DEF Quiet, QuietTypes, new
<1>5. lane'[r] = NewLanes /\ \A s \in Runs : s # r => lane'[s] = lane[s]
    BY <1>2 DEF Quiet, QuietTypes
<1>6. run[r].pending \in Nat /\ batch.completed \in Nat /\ batch \in QuietBatches
    BY QuietRunIs DEF QuietRuns, QuietBatches
<1>7. /\ batch' \in QuietBatches /\ batch'.completed = batch.completed + run[r].pending
      /\ UNCHANGED <<batch.status, batch.checkpoint>>
    BY <1>2, <1>6 DEF QuietBatches
<1>8. batch'.completed = Cardinality(batch'.checkpoint)
    <2>1. Cardinality(batch.checkpoint) \in Nat
        BY QuietRunIs, Checkpoints
    <2> QED
        BY <1>1, <1>6, <1>7, <2>1 DEF Quiet, Tasks, Counted, Queued
<1>9. QuietTypes'
    <2>1. run' \in [Runs -> QuietRuns]
        BY <1>2, <1>3 DEF Quiet, QuietTypes, new
    <2>2. lane' \in [Runs -> [LaneIds -> QuietLanes]]
        BY <1>2, NewTyped DEF Quiet, QuietTypes
    <2> QED
        BY <1>2, <1>7, <2>1, <2>2 DEF Quiet, QuietTypes
<1>10. \A s \in Runs : s # r => run[s].phase \notin Alive
    BY <1>1, HandIs
<1>11. "judge" \in Alive /\ "tasks" \in Alive
    BY DEF Alive
<1>12. OneRun'
    BY <1>1, <1>2, <1>3, <1>4, <1>7, <1>10, <1>11 DEF Quiet, OneRun, Running
<1>13. Resting'
    BY <1>3, <1>4, <1>5 DEF Quiet, Resting
<1>14. \A s \in Runs : run'[s].phase # "tasks"
    BY <1>3, <1>4, <1>10, <1>11
<1>15. Tasks' /\ NoTasks'
    BY <1>8, <1>14 DEF Tasks, NoTasks
<1>16. \A c : ~InHand(c) /\ ~InHand(c)'
    BY <1>1, <1>14, HandIs DEF InHand, HasRow
<1>17. RowsCheckpointed'
    BY <1>2, <1>7, <1>16 DEF Quiet, RowsCheckpointed
<1>18. CompletedHasAll'
    BY <1>3, <1>4, <1>7 DEF Quiet, CompletedHasAll
<1> QED
    BY <1>9, <1>12, <1>13, <1>15, <1>17, <1>18 DEF Quiet

\* What a run at its tasks knows of its lane.
LEMMA TasksAre ==
    ASSUME Quiet, Lanes = 1, NEW r \in Runs, run[r].phase = "tasks"
    PROVE  /\ run[r] \in QuietRuns /\ run[r].pending \in Nat /\ run[r].done \subseteq Cells
           /\ lane[r] \in [LaneIds -> QuietLanes] /\ LaneIds = {0}
           /\ lane[r][0] \in QuietLanes /\ lane[r][0].cell \in Nat
           /\ batch \in QuietBatches /\ batch.completed \in Nat /\ batch.checkpoint \subseteq Cells
           /\ run = [run EXCEPT ![r] = run[r]] /\ rows \in [Cells -> {0, 1}]
           /\ Ordered(r) /\ Counted(r) /\ Cardinality(batch.checkpoint) \in Nat
           /\ \A c \in Cells : rows[c] = IF \/ c \in batch.checkpoint
                                            \/ HasRow(lane[r][0].pc) /\ lane[r][0].cell = c
                                         THEN 1 ELSE 0
<1>1. LaneIds = {0}
    BY DEF LaneIds
<1>2. /\ run[r] \in QuietRuns /\ lane[r] \in [LaneIds -> QuietLanes] /\ batch \in QuietBatches
      /\ run = [run EXCEPT ![r] = run[r]] /\ rows \in [Cells -> {0, 1}]
    BY DEF Quiet, QuietTypes
<1>3. lane[r][0] \in QuietLanes /\ lane[r][0].cell \in Nat
    BY <1>1, <1>2, CellsFinite DEF QuietLanes
<1>4. /\ run[r].pending \in Nat /\ run[r].done \subseteq Cells
      /\ batch.completed \in Nat /\ batch.checkpoint \subseteq Cells
    BY <1>2 DEF QuietRuns, QuietBatches
<1>5. Ordered(r) /\ Counted(r) /\ Cardinality(batch.checkpoint) \in Nat
    BY <1>4, Checkpoints DEF Quiet, Tasks
<1>6. \A c \in Cells : rows[c] = IF \/ c \in batch.checkpoint
                                    \/ HasRow(lane[r][0].pc) /\ lane[r][0].cell = c
                                 THEN 1 ELSE 0
    BY HandIs DEF Quiet, RowsCheckpointed
<1> QED
    BY <1>1, <1>2, <1>3, <1>4, <1>5, <1>6

\* The lane looks for its next cell, and takes it up or passes it over.
LEMMA NextCellQuiet ==
    ASSUME Quiet, Lanes = 1, NEW r \in Runs, Begin(r, 0) \/ Skip(r, 0) \/ LaneEnds(r, 0)
    PROVE  Quiet'
<1>1. run[r].phase = "tasks" /\ lane[r][0].pc = "idle" /\ UNCHANGED <<batch, rows, run, booting, call>>
    BY QuietRunIs DEF Begin, Skip, LaneEnds, In
<1>2. /\ run[r] \in QuietRuns /\ LaneIds = {0} /\ lane[r] \in [LaneIds -> QuietLanes]
      /\ lane[r][0] \in QuietLanes /\ lane[r][0].cell \in Nat /\ batch \in QuietBatches
      /\ run = [run EXCEPT ![r] = run[r]] /\ rows \in [Cells -> {0, 1}]
      /\ Ordered(r) /\ Counted(r) /\ batch.checkpoint \subseteq Cells
      /\ \A c \in Cells : rows[c] = IF c \in batch.checkpoint THEN 1 ELSE 0
    BY <1>1, TasksAre DEF HasRow
<1>3. CASE LaneEnds(r, 0)
    <2> DEFINE nl == [lane[r][0] EXCEPT !.pc = "out"]
    <2>1. lane' = [lane EXCEPT ![r] = [lane[r] EXCEPT ![0] = nl]]
        BY <1>3 DEF LaneEnds, Moves
    <2>2. nl \in QuietLanes /\ nl.pc = "out" /\ nl.cell = lane[r][0].cell
        BY <1>2 DEF QuietLanes
    <2> HIDE DEF nl
    <2>9. Follow(r, run[r], nl)
        BY <1>1, <1>2, <2>1, <2>2 DEF Ordered, Counted, HasRow, Queued, Follow
    <2> QED
        BY <1>1, <2>9, TaskQuiet
<1>4. CASE Begin(r, 0) \/ Skip(r, 0)
    <2> DEFINE c == Min(Ahead(r, 0))
    <2>1. c \in Ahead(r, 0)
        BY <1>4, CellsFinite, MinIs DEF Begin, Skip, Ahead
    <2>2. /\ c \in Cells \ run[r].done /\ c > lane[r][0].cell /\ c \in Nat
        BY <2>1, CellsFinite DEF Ahead
    <2> HIDE DEF c
    <2>3. c \notin batch.checkpoint /\ \A d \in batch.checkpoint : d \in run[r].done \/ d <= c
        BY <1>2, <2>2, CellsFinite DEF Ordered
    <2>4. \E pc \in {"idle", "request"} :
              lane' = [lane EXCEPT ![r] = [lane[r] EXCEPT ![0] =
                          [[lane[r][0] EXCEPT !.pc = pc] EXCEPT !.cell = c]]]
        <3>1. CASE Begin(r, 0)
            <4>1. lane' = [lane EXCEPT ![r][0].pc = "request", ![r][0].cell = c]
                BY <3>1, QuietRunIs DEF Begin, c
            <4> QED
                BY <1>2, <4>1 DEF Quiet, QuietTypes
        <3>2. CASE Skip(r, 0)
            <4>1. lane' = [lane EXCEPT ![r][0].cell = c]
                BY <3>2 DEF Skip, c
            <4>2. [[lane[r][0] EXCEPT !.pc = "idle"] EXCEPT !.cell = c] = [lane[r][0] EXCEPT !.cell = c]
                BY <1>1, <1>2 DEF QuietLanes
            <4> QED
                BY <4>1, <4>2
        <3> QED
            BY <1>4, <3>1, <3>2
    <2>5. PICK pc \in {"idle", "request"} :
              lane' = [lane EXCEPT ![r] = [lane[r] EXCEPT ![0] =
                          [[lane[r][0] EXCEPT !.pc = pc] EXCEPT !.cell = c]]]
        BY <2>4
    <2> DEFINE nl == [[lane[r][0] EXCEPT !.pc = pc] EXCEPT !.cell = c]
    <2>6. nl \in QuietLanes /\ nl.pc = pc /\ nl.cell = c
        BY <1>2, <2>2 DEF QuietLanes
    <2>7. lane' = [lane EXCEPT ![r] = [lane[r] EXCEPT ![0] = nl]]
        BY <2>5
    <2> HIDE DEF nl
    <2>9. Follow(r, run[r], nl)
        BY <1>1, <1>2, <2>2, <2>3, <2>6, <2>7 DEF Ordered, Counted, HasRow, Queued, Follow
    <2> QED
        BY <1>1, <2>9, TaskQuiet
<1> QED
    BY <1>3, <1>4

LEMMA AnswerQuiet ==
    ASSUME Quiet, Lanes = 1, NEW r \in Runs, Answer(r, 0)
    PROVE  Quiet'
<1> DEFINE nl == [lane[r][0] EXCEPT !.pc = "saved"]
<1>1. /\ run[r].phase = "tasks" /\ lane[r][0].pc = "request" /\ UNCHANGED <<batch, run, booting, call>>
      /\ lane' = [lane EXCEPT ![r] = [lane[r] EXCEPT ![0] = nl]]
      /\ rows' = [rows EXCEPT ![lane[r][0].cell] = @ + 1]
    BY QuietRunIs DEF Answer, In, Moves
<1>2. /\ run[r] \in QuietRuns /\ LaneIds = {0} /\ lane[r] \in [LaneIds -> QuietLanes]
      /\ lane[r][0] \in QuietLanes /\ lane[r][0].cell \in Nat /\ batch \in QuietBatches
      /\ run = [run EXCEPT ![r] = run[r]] /\ rows \in [Cells -> {0, 1}]
      /\ Ordered(r) /\ Counted(r) /\ batch.checkpoint \subseteq Cells
      /\ \A c \in Cells : rows[c] = IF c \in batch.checkpoint THEN 1 ELSE 0
    BY <1>1, TasksAre DEF HasRow
<1>3. nl \in QuietLanes /\ nl.pc = "saved" /\ nl.cell = lane[r][0].cell
    BY <1>2 DEF QuietLanes
<1>4. nl.cell \in Cells \ batch.checkpoint
    BY <1>1, <1>2, <1>3 DEF Ordered
<1> HIDE DEF nl
<1>5. \A c \in Cells : rows'[c] = IF c \in batch.checkpoint \/ nl.cell = c THEN 1 ELSE 0
    BY <1>1, <1>2, <1>3, <1>4
<1>6. rows' \in [Cells -> {0, 1}]
    BY <1>1, <1>2, <1>5
<1>7. /\ run[r].done \subseteq batch'.checkpoint
      /\ \A c \in batch'.checkpoint : c \in run[r].done \/ c <= nl.cell
      /\ batch'.completed + run[r].pending = Cardinality(batch'.checkpoint) + Queued(nl.pc)
      /\ HasRow(nl.pc)
    BY <1>1, <1>2, <1>3 DEF Ordered, Counted, HasRow, Queued
<1>10. Follow(r, run[r], nl)
    BY <1>1, <1>2, <1>3, <1>4, <1>5, <1>6, <1>7 DEF Follow
<1> QED
    BY <1>1, <1>10, TaskQuiet

LEMMA QueueQuiet ==
    ASSUME Quiet, Lanes = 1, NEW r \in Runs, Queue(r, 0)
    PROVE  Quiet'
<1>1. /\ run[r].phase = "tasks" /\ lane[r][0].pc = "saved" /\ UNCHANGED <<batch, rows, booting, call>>
    BY DEF Queue, In
<1>2. /\ run[r] \in QuietRuns /\ run[r].pending \in Nat /\ LaneIds = {0}
      /\ lane[r] \in [LaneIds -> QuietLanes]
      /\ lane[r][0] \in QuietLanes /\ lane[r][0].cell \in Nat /\ batch \in QuietBatches
      /\ rows \in [Cells -> {0, 1}] /\ batch.completed \in Nat
      /\ Ordered(r) /\ Counted(r) /\ batch.checkpoint \subseteq Cells
      /\ Cardinality(batch.checkpoint) \in Nat
      /\ \A c \in Cells : rows[c] = IF c \in batch.checkpoint \/ lane[r][0].cell = c THEN 1 ELSE 0
    BY <1>1, TasksAre DEF HasRow
<1>3. lane[r][0].cell \in Cells \ batch.checkpoint
      /\ batch.completed + (run[r].pending + 1) = Cardinality(batch.checkpoint) + 1
      /\ run[r].pending + 1 \in Nat
    BY <1>1, <1>2 DEF Ordered, Counted, Queued
<1> DEFINE n == run[r].pending + 1
<1> HIDE DEF n
<1>6. ASSUME NEW nr, NEW nl, nr.done = run[r].done, nr.pending = n, nl.cell = lane[r][0].cell,
             nl.pc \in {"flushing", "persisted"}
      PROVE  /\ nr.done \subseteq batch'.checkpoint
             /\ nl.cell \in Cells \ batch'.checkpoint
             /\ \A c \in batch'.checkpoint : c \in nr.done \/ c <= nl.cell
             /\ batch'.completed + nr.pending = Cardinality(batch'.checkpoint) + Queued(nl.pc)
             /\ \A c \in Cells : rows'[c] = IF c \in batch'.checkpoint \/ (HasRow(nl.pc) /\ nl.cell = c)
                                           THEN 1 ELSE 0
    BY <1>1, <1>2, <1>3, <1>6 DEF Ordered, HasRow, Queued, n
<1>7. n \in Nat
    BY <1>3 DEF n
<1>4. CASE run' = [run EXCEPT ![r].pending = run[r].pending + 1, ![r].due = TRUE]
           /\ lane' = [lane EXCEPT ![r][0].pc = "flushing", ![r][0].taken = run[r].pending + 1]
    <2> DEFINE nr == [[run[r] EXCEPT !.pending = n] EXCEPT !.due = TRUE]
               nl == [[lane[r][0] EXCEPT !.pc = "flushing"] EXCEPT !.taken = n]
    <2>1. nr \in QuietRuns /\ nr.phase = "tasks" /\ nr.pending = n /\ nr.done = run[r].done
        BY <1>1, <1>2, <1>7 DEF QuietRuns
    <2>2. nl \in QuietLanes /\ nl.pc = "flushing" /\ nl.taken = n
          /\ nl.cell = lane[r][0].cell
        BY <1>2, <1>7 DEF QuietLanes
    <2>3. run' = [run EXCEPT ![r] = nr]
        BY <1>4 DEF Quiet, QuietTypes, n
    <2>4. lane' = [lane EXCEPT ![r] = [lane[r] EXCEPT ![0] = nl]]
        BY <1>2, <1>4 DEF Quiet, QuietTypes, n
    <2> HIDE DEF nr, nl
    <2>9. Follow(r, nr, nl)
        BY <1>1, <1>2, <1>6, <2>1, <2>2, <2>3, <2>4 DEF Follow
    <2> QED
        BY <1>1, <2>9, TaskQuiet
<1>5. CASE run' = [run EXCEPT ![r].pending = run[r].pending + 1] /\ Moves(r, 0, "persisted")
    <2> DEFINE nr == [run[r] EXCEPT !.pending = n]
               nl == [lane[r][0] EXCEPT !.pc = "persisted"]
    <2>1. nr \in QuietRuns /\ nr.phase = "tasks" /\ nr.pending = n /\ nr.done = run[r].done
        BY <1>1, <1>2, <1>7 DEF QuietRuns
    <2>2. nl \in QuietLanes /\ nl.pc = "persisted" /\ nl.cell = lane[r][0].cell
        BY <1>2, <1>7 DEF QuietLanes
    <2>3. run' = [run EXCEPT ![r] = nr]
        BY <1>5 DEF n
    <2>4. lane' = [lane EXCEPT ![r] = [lane[r] EXCEPT ![0] = nl]]
        BY <1>5 DEF Moves
    <2> HIDE DEF nr, nl
    <2>9. Follow(r, nr, nl)
        BY <1>1, <1>2, <1>6, <2>1, <2>2, <2>3, <2>4 DEF Follow
    <2> QED
        BY <1>1, <2>9, TaskQuiet
<1> QED
    BY <1>4, <1>5 DEF Queue

LEMMA FlushLandsQuiet ==
    ASSUME Quiet, Lanes = 1, NEW r \in Runs, FlushLands(r, 0)
    PROVE  Quiet'
<1> DEFINE nr == [[run[r] EXCEPT !.pending = 0] EXCEPT !.due = FALSE]
           nl == [[lane[r][0] EXCEPT !.pc = "persisted"] EXCEPT !.taken = 0]
<1>1. /\ run[r].phase = "tasks" /\ lane[r][0].pc = "flushing" /\ UNCHANGED <<rows, booting, call>>
      /\ batch' = [batch EXCEPT !.completed = @ + lane[r][0].taken]
      /\ run' = [run EXCEPT ![r].pending = 0, ![r].due = FALSE]
      /\ lane' = [lane EXCEPT ![r][0].pc = "persisted", ![r][0].taken = 0]
    BY DEF FlushLands, In
<1>2. /\ run[r] \in QuietRuns /\ run[r].pending \in Nat /\ LaneIds = {0}
      /\ lane[r] \in [LaneIds -> QuietLanes]
      /\ lane[r][0] \in QuietLanes /\ lane[r][0].cell \in Nat /\ batch \in QuietBatches
      /\ rows \in [Cells -> {0, 1}] /\ batch.completed \in Nat
      /\ Ordered(r) /\ Counted(r) /\ batch.checkpoint \subseteq Cells
      /\ Cardinality(batch.checkpoint) \in Nat
      /\ \A c \in Cells : rows[c] = IF c \in batch.checkpoint \/ lane[r][0].cell = c THEN 1 ELSE 0
    BY <1>1, TasksAre DEF HasRow
<1>3. lane[r][0].cell \in Cells \ batch.checkpoint /\ lane[r][0].taken = run[r].pending
      /\ batch.completed + run[r].pending = Cardinality(batch.checkpoint) + 1
    BY <1>1, <1>2 DEF Ordered, Counted, Queued
<1>4. nr \in QuietRuns /\ nr.phase = "tasks" /\ nr.pending = 0 /\ nr.done = run[r].done
    BY <1>1, <1>2 DEF QuietRuns
<1>5. nl \in QuietLanes /\ nl.pc = "persisted" /\ nl.cell = lane[r][0].cell
    BY <1>2 DEF QuietLanes
<1>6. run' = [run EXCEPT ![r] = nr]
    BY <1>1 DEF Quiet, QuietTypes
<1>7. lane' = [lane EXCEPT ![r] = [lane[r] EXCEPT ![0] = nl]]
    BY <1>1, <1>2 DEF Quiet, QuietTypes
<1>8. /\ batch' \in QuietBatches /\ batch'.completed = Cardinality(batch.checkpoint) + 1
      /\ UNCHANGED <<batch.status, batch.checkpoint>>
    <2>1. batch.completed + lane[r][0].taken \in Nat
        BY <1>2, <1>3
    <2> QED
        BY <1>1, <1>2, <1>3, <2>1 DEF QuietBatches
<1> HIDE DEF nr, nl
<1>9. /\ nr.done \subseteq batch'.checkpoint
      /\ nl.cell \in Cells \ batch'.checkpoint
      /\ \A c \in batch'.checkpoint : c \in nr.done \/ c <= nl.cell
      /\ batch'.completed + nr.pending = Cardinality(batch'.checkpoint) + Queued(nl.pc)
      /\ \A c \in Cells : rows'[c] = IF c \in batch'.checkpoint \/ (HasRow(nl.pc) /\ nl.cell = c)
                                    THEN 1 ELSE 0
    BY <1>1, <1>2, <1>3, <1>4, <1>5, <1>8 DEF Ordered, HasRow, Queued
<1>10. Follow(r, nr, nl)
    BY <1>1, <1>2, <1>4, <1>5, <1>6, <1>7, <1>8, <1>9 DEF Follow
<1> QED
    BY <1>1, <1>10, TaskQuiet

LEMMA CheckpointQuiet ==
    ASSUME Quiet, Lanes = 1, NEW r \in Runs, Checkpoint(r, 0)
    PROVE  Quiet'
<1> DEFINE nl == [lane[r][0] EXCEPT !.pc = "idle"]
           c == lane[r][0].cell
<1>1. /\ run[r].phase = "tasks" /\ lane[r][0].pc = "persisted" /\ UNCHANGED <<run, rows, booting, call>>
      /\ batch' = [batch EXCEPT !.checkpoint = @ \cup {c}]
      /\ lane' = [lane EXCEPT ![r] = [lane[r] EXCEPT ![0] = nl]]
    BY QuietRunIs DEF Checkpoint, In, Moves
<1>2. /\ run[r] \in QuietRuns /\ run[r].pending \in Nat /\ run = [run EXCEPT ![r] = run[r]]
      /\ lane[r][0] \in QuietLanes /\ c \in Nat /\ batch \in QuietBatches
      /\ rows \in [Cells -> {0, 1}] /\ batch.completed \in Nat
      /\ Ordered(r) /\ Counted(r) /\ batch.checkpoint \subseteq Cells
      /\ \A d \in Cells : rows[d] = IF d \in batch.checkpoint \/ c = d THEN 1 ELSE 0
    BY <1>1, TasksAre DEF HasRow
<1>3. c \in Cells \ batch.checkpoint
      /\ batch.completed + run[r].pending = Cardinality(batch.checkpoint) + 1
    BY <1>1, <1>2 DEF Ordered, Counted, Queued
<1>4. nl \in QuietLanes /\ nl.pc = "idle" /\ nl.cell = c
    BY <1>2 DEF QuietLanes
<1> HIDE DEF nl, c
<1>5. /\ batch' \in QuietBatches /\ batch'.checkpoint = batch.checkpoint \cup {c}
      /\ UNCHANGED <<batch.status, batch.completed>>
    BY <1>1, <1>2, <1>3 DEF QuietBatches
<1>6. Cardinality(batch'.checkpoint) = Cardinality(batch.checkpoint) + 1
      /\ Cardinality(batch.checkpoint) \in Nat
    BY <1>2, <1>3, <1>5, Checkpoints
<1>7. \A d \in batch'.checkpoint : d \in run[r].done \/ d <= c
    BY <1>2, <1>5 DEF Ordered, c
<1>8. /\ run[r].done \subseteq batch'.checkpoint
      /\ batch'.completed + run[r].pending = Cardinality(batch'.checkpoint) + Queued(nl.pc)
      /\ \A d \in Cells : rows'[d] = IF d \in batch'.checkpoint \/ (HasRow(nl.pc) /\ nl.cell = d)
                                    THEN 1 ELSE 0
    BY <1>1, <1>2, <1>3, <1>4, <1>5, <1>6 DEF Ordered, HasRow, Queued
<1>10. Follow(r, run[r], nl)
    BY <1>1, <1>2, <1>4, <1>5, <1>7, <1>8 DEF Follow
<1> QED
    BY <1>1, <1>10, TaskQuiet

LEMMA LaneQuiet ==
    ASSUME Quiet, Lanes = 1, NEW r \in Runs, NEW l \in LaneIds, LaneStep(r, l)
    PROVE  Quiet'
<1>1. l = 0
    BY DEF LaneIds
<1>2. ~Invalidate(r, 0) /\ ~FlushInDoubt(r, 0)
    BY QuietRunIs DEF Invalidate, FlushInDoubt
<1> QED
    BY <1>1, <1>2, NextCellQuiet, AnswerQuiet, QueueQuiet, FlushLandsQuiet, CheckpointQuiet
       DEF LaneStep

\* Of the requests, only a resume leaves a batch undisturbed, and only while
\* no run of it is under way.
LEMMA RequestQuiet ==
    ASSUME Quiet, NEW q \in Calls, Request(q), faults' = "none"
    PROVE  Quiet'
<1>1. batch \in QuietBatches /\ ~booting /\ call[q].op \in {"idle", "resume"}
      /\ call = [p \in Calls |-> call[p]]
    BY DEF Quiet, QuietTypes
<1>2. Orderly # "none"
    BY DEF Orderly
<1>3. ResumeRead(q) \/ ResumeSave(q)
    BY <1>1, <1>2 DEF Request, Stop, Abort, Recover, Reconcile, CleanupStale, Count, Save
<1>4. Running = {}
    BY <1>3 DEF ResumeRead, ResumeSave, Overlap
<1>5. CASE ResumeRead(q)
    <2>1. UNCHANGED <<batch, rows, run, lane, booting>> /\ batch.status # "none"
        BY <1>5 DEF ResumeRead, Terminal
    <2>2. call' = [p \in Calls |-> call'[p]] /\ \A p \in Calls : call'[p].op \in {"idle", "resume"}
        BY <1>1, <1>5 DEF ResumeRead, NoCall, Quiet, QuietTypes
    <2>3. QuietTypes' /\ OneRun'
        BY <2>1, <2>2 DEF Quiet, QuietTypes, OneRun, Running
    <2> QED
        BY <2>1, <2>3 DEF Quiet, Resting, Tasks, Ordered, Counted, NoTasks, RowsCheckpointed,
                          InHand, CompletedHasAll
<1>6. CASE ResumeSave(q)
    <2>1. /\ run' = [run EXCEPT ![Min(Unused)] = NewRun] /\ UNCHANGED <<rows, lane>> /\ ~booting'
          /\ batch' = [batch EXCEPT !.status = "running", !.locked = @ /\ ~call[q].locked]
        BY <1>6 DEF ResumeSave
    <2>2. call' = [p \in Calls |-> call'[p]] /\ \A p \in Calls : call'[p].op \in {"idle", "resume"}
        BY <1>1, <1>6 DEF ResumeSave, Ends, NoCall, Quiet, QuietTypes
    <2>3. (batch.locked /\ ~call[q].locked) \in BOOLEAN
        OBVIOUS
    <2> DEFINE k == batch.locked /\ ~call[q].locked
    <2>4. k \in BOOLEAN /\ batch' = [[batch EXCEPT !.status = "running"] EXCEPT !.locked = k]
        BY <1>1, <2>1, <2>3 DEF QuietBatches
    <2> HIDE DEF k
    <2>5. /\ batch' \in QuietBatches /\ UNCHANGED <<batch.completed, batch.checkpoint>>
          /\ batch'.status = "running"
        BY <1>1, <2>4 DEF QuietBatches
    <2> QED
        BY <1>4, <2>1, <2>2, <2>5, StartQuiet
<1> QED
    BY <1>3, <1>5, <1>6

LEMMA NextQuiet ==
    ASSUME Quiet, Lanes = 1, [Next]_vars, faults' = "none"
    PROVE  Quiet'
<1>1. batch \in QuietBatches /\ ~booting /\ call = [q \in Calls |-> call[q]]
    BY DEF Quiet, QuietTypes
<1>2. CASE StartBatch
    <2>1. Running = {} /\ \A q \in Calls : call[q].op = "idle"
        BY <1>2 DEF StartBatch, Quiet, OneRun
    <2>2. /\ batch' \in QuietBatches /\ UNCHANGED <<batch.completed, batch.checkpoint>>
          /\ batch'.status = "running"
        BY <1>1, <1>2 DEF StartBatch, QuietBatches
    <2> QED
        BY <1>1, <1>2, <2>1, <2>2, StartQuiet DEF StartBatch
<1>3. ~StopAgain /\ ~Die /\ ~GhostStopped
    <2>1. Orderly # "none" /\ batch.status # "stopped"
        BY <1>1 DEF Orderly, QuietBatches
    <2> QED
        BY <1>1, <2>1 DEF StopAgain, Die, GhostStopped
<1>4. ASSUME NEW r \in Runs, RunStep(r) \/ LoseAuthority(r) PROVE Quiet'
    <2>1. ~AdmissionRefused(r) /\ ~LoseAuthority(r)
        BY DEF AdmissionRefused, LoseAuthority
    <2> QED
        BY <1>4, <2>1, BesideTasksQuiet, LoadQuiet, DrainQuiet, LaneQuiet DEF RunStep
<1>5. CASE UNCHANGED vars
    BY <1>5 DEF vars, Quiet, QuietTypes, OneRun, Running, Resting, Tasks, Ordered, Counted,
                NoTasks, RowsCheckpointed, InHand, CompletedHasAll
<1> QED
    BY <1>2, <1>3, <1>4, <1>5, RequestQuiet DEF Next

\* What has disturbed a batch stays on record.
LEMMA FaultsStay ==
    ASSUME [Next]_vars, faults' = "none"
    PROVE  faults = "none"
<1>1. Orderly # "none" /\ (Overlap = "none" => faults = "none")
    BY DEF Orderly, Overlap
<1>2. ASSUME NEW r \in Runs, RunStep(r) \/ LoseAuthority(r) PROVE faults = "none"
    BY <1>2 DEF RunStep, LoseAuthority, Lock, AdmissionRefused, Load, PrepareFails, LaneStep, Begin,
           Skip, LaneEnds, Answer, Queue, Invalidate, FlushLands, FlushInDoubt, Checkpoint,
           Drain, Judge, FinalRead, Finalize, CrashPath
<1>3. ASSUME NEW q \in Calls, Request(q) PROVE faults = "none"
    BY <1>1, <1>3 DEF Request, Stop, Abort, AbortPass, Recover, Reconcile, CleanupStale, Count, Save,
                      ResumeRead, ResumeSave
<1>4. CASE StartBatch \/ StopAgain \/ Die \/ GhostStopped \/ UNCHANGED vars
    BY <1>1, <1>4 DEF StartBatch, StopAgain, Die, GhostStopped, vars
<1> QED
    BY <1>2, <1>3, <1>4 DEF Next

\* In latency mode, a batch that nothing has disturbed, however often it was
\* resumed, is completed only if each planned cell has its one row: the
\* counter counts exactly the checkpointed cells.
THEOREM LatencyCompletedIsWhole ==
    ASSUME Lanes = 1
    PROVE  Spec => []CompletedIsWhole
<1> DEFINE Inv == faults = "none" => Quiet
<1>1. Init => Inv
    BY InitQuiet
<1>2. Inv /\ [Next]_vars => Inv'
    BY NextQuiet, FaultsStay
<1>3. Inv => CompletedIsWhole
    BY DEF Quiet, CompletedHasAll, RowsCheckpointed, CompletedIsWhole
<1> HIDE DEF Inv
<1> QED
    BY <1>1, <1>2, <1>3, PTL DEF Spec


-----------------------------------------------------------------------------
(***************************************************************************)
(* A running batch has a run.                                              *)
(***************************************************************************)
\* Runs come one after the other, each with its claim.
OneAlive ==
    /\ \A r, s \in Running : r = s
    /\ \A r \in Running : ~run[r].lost

\* The document is unlocked only for a run that is about to lock it, so a
\* resume that found the batch at rest found it locked.
LockAwaited ==
    /\ batch.status = "none" => ~batch.locked /\ Running = {}
    /\ batch.status # "none" => ((\E r \in Runs : run[r].phase = "lock") <=> ~batch.locked)
RequestsLater ==
    \A q \in Calls : /\ call[q].op # "idle" => batch.status # "none"
                     /\ call[q].op = "resume" => call[q].locked

\* Nothing has told the run of a running batch to leave.
Unhindered ==
    batch.status = "running" =>
        Running # {} /\ \A r \in Running : ~run[r].aborted /\ ~run[r].stopped

Attended == OneAlive /\ LockAwaited /\ RequestsLater /\ Unhindered

LEMMA InitAttended == Init => Attended
<1> SUFFICES ASSUME Init PROVE Attended
    OBVIOUS
<1>1. \A r \in Runs : run[r].phase = "unused"
    BY DEF Init, NewRun
<1>2. Running = {}
    BY <1>1 DEF Running, Alive
<1>3. batch.status = "none" /\ batch.locked = FALSE /\ \A q \in Calls : call[q].op = "idle"
    BY DEF Init, NoCall
<1> QED
    BY <1>2, <1>3 DEF Attended, OneAlive, LockAwaited, RequestsLater, Unhindered

\* A run that has the lock goes on: it leaves only a batch that is not running.
LEMMA GoesOn ==
    ASSUME Typed, Attended, NEW r \in Runs, run[r].phase \in Alive \ {"lock"},
           NEW new \in RunStates, run' = [run EXCEPT ![r] = new],
           new.phase \in (Alive \ {"lock"}) \cup {"done"}, ~new.lost, call' = call,
           batch'.locked = batch.locked, batch'.status # "none",
           batch'.status = "running" =>
               batch.status = "running" /\ new.phase # "done" /\ ~new.aborted /\ ~new.stopped
    PROVE  Attended'
<1>1. run'[r] = new /\ \A s \in Runs : s # r => run'[s] = run[s]
    BY DEF Typed, TypeOK
<1>2. r \in Running /\ \A s \in Running : s = r
    BY DEF Attended, OneAlive, Running
<1>3. \A s \in Running' : s = r
    BY <1>1, <1>2 DEF Running
<1>4. r \in Running' <=> new.phase \in Alive
    BY <1>1 DEF Running
<1>5. OneAlive'
    BY <1>1, <1>3 DEF OneAlive
<1>6. batch.status # "none"
    BY <1>2 DEF Attended, LockAwaited
<1>7. \A s \in Runs : run'[s].phase = "lock" <=> run[s].phase = "lock"
    BY <1>1
<1>8. LockAwaited'
    BY <1>6, <1>7 DEF Attended, LockAwaited
<1>9. Unhindered'
    BY <1>1, <1>3, <1>4 DEF Unhindered
<1> QED
    BY <1>5, <1>8, <1>9 DEF Attended, RequestsLater

\* A run starts in a batch at rest.
LEMMA StartsAttended ==
    ASSUME Typed, Attended, Running = {}, NEW x \in Runs, run' = [run EXCEPT ![x] = NewRun],
           RequestsLater', batch'.status = "running", ~batch'.locked
    PROVE  Attended'
<1>1. run'[x] = NewRun /\ \A s \in Runs : s # x => run'[s] = run[s]
    BY DEF Typed, TypeOK
<1>2. "lock" \in Alive
    BY DEF Alive
<1>3. Running' = {x}
    BY <1>1, <1>2, InitialValuesTyped DEF Running
<1> QED
    BY <1>1, <1>3, InitialValuesTyped
       DEF Attended, OneAlive, LockAwaited, Unhindered

\* The runs stay where they are; at most, those of a batch that does not run
\* are aborted.
LEMMA StaysAttended ==
    ASSUME Attended, \A s \in Runs : run'[s].phase = run[s].phase /\ run'[s].lost = run[s].lost,
           RequestsLater', batch'.locked = batch.locked,
           batch'.status = "none" <=> batch.status = "none",
           batch'.status = "running" => batch.status = "running" /\ run' = run
    PROVE  Attended'
<1>1. Running' = Running
    BY DEF Running
<1> QED
    BY <1>1 DEF Attended, OneAlive, LockAwaited, Unhindered, Running

LEMMA AttendedRunIs ==
    ASSUME Typed, Attended, NEW r \in Runs, run[r].phase \in Alive
    PROVE  /\ run[r] \in RunStates /\ run \in [Runs -> RunStates] /\ batch \in Batches
           /\ ~run[r].lost /\ batch.status # "none"
           /\ batch.status = "running" => ~run[r].aborted /\ ~run[r].stopped
           /\ Unwinding(r) => run[r].aborted
<1>1. r \in Running
    BY DEF Running
<1> QED
    BY <1>1 DEF Typed, TypeOK, Attended, OneAlive, LockAwaited, Unhindered, Unwinding

\* The steps of a run outside its lanes.
LEMMA RunAttended ==
    ASSUME Typed, Attended, NEW r \in Runs, run[r].phase \in Alive,
           \/ Lock(r) \/ Load(r) \/ PrepareFails(r)
           \/ Judge(r) \/ FinalRead(r) \/ Finalize(r) \/ CrashPath(r)
    PROVE  Attended'
<1>1. /\ run[r] \in RunStates /\ run \in [Runs -> RunStates] /\ batch \in Batches
      /\ ~run[r].lost /\ batch.status # "none"
      /\ batch.status = "running" => ~run[r].aborted /\ ~run[r].stopped
      /\ Unwinding(r) => run[r].aborted
    BY AttendedRunIs
<1>2. call' = call
    BY DEF Lock, Load, PrepareFails, Judge, FinalRead, Finalize, CrashPath
\* Where a run that is not over goes.
<1>3. ASSUME NEW phase \in {"load", "crash", "final"}
      PROVE  /\ At(r, phase) \in RunStates /\ At(r, phase).phase = phase
             /\ ~At(r, phase).lost /\ At(r, phase).aborted = run[r].aborted
             /\ At(r, phase).stopped = run[r].stopped
    BY <1>1 DEF At, RunStates, Alive
<1>4. Over \in RunStates /\ Over.phase = "done" /\ ~Over.lost /\ At(r, "done") = Over
    BY DEF Over, NewRun, RunStates, At
<1>5. {"load", "crash", "final", "tasks", "finalize"} \subseteq Alive \ {"lock"}
    BY DEF Alive
<1>6. CASE Lock(r)
    <2>1. ~batch.locked
        BY <1>1, <1>6 DEF Lock, Attended, LockAwaited
    <2>2. run' = [run EXCEPT ![r] = At(r, "load")] /\ batch' = [batch EXCEPT !.locked = TRUE]
        BY <1>6, <2>1 DEF Lock, To
    <2>3. batch'.locked /\ batch'.status = batch.status
        BY <1>1, <2>2 DEF Batches
    <2>4. run'[r] = At(r, "load") /\ \A s \in Runs : s # r => run'[s] = run[s]
        BY <1>1, <2>2
    <2>5. r \in Running /\ \A s \in Running : s = r
        BY DEF Attended, OneAlive, Running
    <2>6. Running' = {r}
        BY <1>3, <1>5, <2>4, <2>5 DEF Running
    <2>7. \A s \in Runs : run'[s].phase # "lock"
        <3>1. "lock" \in Alive
            BY DEF Alive
        <3> QED
            BY <1>3, <2>4, <2>5, <3>1 DEF Running
    <2> QED
        BY <1>1, <1>2, <1>3, <2>3, <2>4, <2>6, <2>7
           DEF Attended, OneAlive, LockAwaited, RequestsLater, Unhindered
<1>7. CASE Load(r)
    <2> DEFINE new == [[run[r] EXCEPT !.phase = "tasks"] EXCEPT !.done = batch.checkpoint]
    <2>1. /\ new \in RunStates /\ new.phase = "tasks" /\ ~new.lost
          /\ new.aborted = run[r].aborted /\ new.stopped = run[r].stopped
        BY <1>1 DEF RunStates, Batches, Alive
    <2>2. run' = [run EXCEPT ![r] = new] /\ batch' = batch /\ run[r].phase = "load"
        BY <1>1, <1>7 DEF Load
    <2> HIDE DEF new
    <2> QED
        BY <1>1, <1>2, <1>5, <2>1, <2>2, GoesOn
<1>8. CASE PrepareFails(r)
    <2>1. run' = [run EXCEPT ![r] = At(r, "crash")] /\ batch' = batch /\ run[r].phase = "load"
        BY <1>8 DEF PrepareFails, To
    <2> QED
        BY <1>1, <1>2, <1>3, <1>5, <2>1, GoesOn
<1>9. CASE Judge(r)
    <2>1. batch' = batch /\ run[r].phase \in Alive \ {"lock"}
        BY <1>9 DEF Judge, Alive
    <2>2. CASE \E phase \in {"crash", "final"} : run' = [run EXCEPT ![r] = At(r, phase)]
        BY <1>1, <1>2, <1>3, <1>5, <2>1, <2>2, GoesOn
    <2>3. CASE run[r].aborted /\ run' = [run EXCEPT ![r] = Over]
        BY <1>1, <1>2, <1>4, <2>1, <2>3, GoesOn
    <2> QED
        BY <1>1, <1>4, <1>9, <2>2, <2>3 DEF Judge, To
<1>10. CASE FinalRead(r)
    <2>1. PICK o \in Outcomes(batch.completed) :
             run' = [run EXCEPT ![r].phase = "finalize", ![r].outcome = o]
        BY <1>10 DEF FinalRead
    <2>2. o \in {"completed", "failed"} /\ batch' = batch /\ run[r].phase = "final"
        BY <1>10 DEF Outcomes, FinalRead
    <2> DEFINE new == [[run[r] EXCEPT !.phase = "finalize"] EXCEPT !.outcome = o]
    <2>3. /\ new \in RunStates /\ new.phase = "finalize" /\ ~new.lost
          /\ new.aborted = run[r].aborted /\ new.stopped = run[r].stopped
        BY <1>1, <2>2 DEF RunStates, Alive
    <2>4. run' = [run EXCEPT ![r] = new]
        BY <1>1, <2>1
    <2> HIDE DEF new
    <2> QED
        BY <1>1, <1>2, <1>5, <2>2, <2>3, <2>4, GoesOn
\* The two ways out that mark the batch.
<1>11. CASE Finalize(r) \/ CrashPath(r)
    <2>1. run' = [run EXCEPT ![r] = Over] /\ run[r].phase \in Alive \ {"lock"}
        BY <1>4, <1>11 DEF Finalize, CrashPath, To, Alive
    <2>2. /\ batch'.locked = batch.locked
          /\ batch'.status \notin {"none", "running"}
        <3>1. run[r].outcome \in {"completed", "failed"}
            BY <1>1 DEF RunStates
        <3> QED
            BY <1>1, <1>11, <3>1 DEF Finalize, CrashPath, StatusIfWorking, Batches
    <2> QED
        BY <1>1, <1>2, <1>4, <2>1, <2>2, GoesOn
<1> QED
    BY <1>6, <1>7, <1>8, <1>9, <1>10, <1>11

\* The steps of a lane: they stop a run only in a batch that is stopped.
LEMMA LaneAttended ==
    ASSUME Typed, Attended, NEW r \in Runs, NEW l \in LaneIds, LaneStep(r, l)
    PROVE  Attended'
<1>1. run[r].phase = "tasks"
    BY DEF LaneStep, Begin, Skip, LaneEnds, Answer, Queue, Invalidate, FlushLands, FlushInDoubt,
           Checkpoint, In
<1>2. "tasks" \in Alive \ {"lock"}
    BY DEF Alive
<1>3. /\ run[r] \in RunStates /\ run \in [Runs -> RunStates] /\ batch \in Batches
      /\ ~run[r].lost /\ batch.status # "none"
      /\ batch.status = "running" => ~run[r].aborted /\ ~run[r].stopped
      /\ Unwinding(r) => run[r].aborted
    BY <1>1, <1>2, AttendedRunIs
<1>4. call' = call
    BY DEF LaneStep, Begin, Skip, LaneEnds, Answer, Queue, Invalidate, FlushLands, FlushInDoubt,
           Checkpoint
<1>5. batch'.locked = batch.locked /\ batch'.status = batch.status
    BY <1>3 DEF LaneStep, Begin, Skip, LaneEnds, Answer, Queue, Invalidate, FlushLands,
                FlushInDoubt, Checkpoint, Batches
<1>6. CASE run' = run
    <2>1. RequestsLater'
        BY <1>3, <1>4, <1>5 DEF Attended, RequestsLater
    <2> QED
        BY <1>5, <1>6, <2>1, StaysAttended
<1>7. CASE SeesStop(r, l) /\ batch.status # "running"
    <2> DEFINE new == [run[r] EXCEPT !.stopped = run[r].stopped \/ ~run[r].lost]
    <2>1. new \in RunStates /\ new.phase = "tasks" /\ ~new.lost
        BY <1>1, <1>3 DEF RunStates
    <2>2. run' = [run EXCEPT ![r] = new]
        BY <1>3, <1>7 DEF SeesStop
    <2> HIDE DEF new
    <2> QED
        BY <1>1, <1>2, <1>3, <1>4, <1>5, <1>7, <2>1, <2>2, GoesOn
<1>8. CASE Queue(r, l) \/ FlushLands(r, l)
    <2>1. \E n \in Nat, d \in BOOLEAN :
             run' = [run EXCEPT ![r] = [[run[r] EXCEPT !.pending = n] EXCEPT !.due = d]]
        <3>1. run[r].pending + 1 \in Nat /\ run[r].due \in BOOLEAN
            BY <1>3 DEF RunStates
        <3> DEFINE p == run[r].pending + 1
        <3>2. CASE Queue(r, l)
            <4>1. \/ run' = [run EXCEPT ![r].pending = p, ![r].due = TRUE]
                  \/ run' = [run EXCEPT ![r].pending = p]
                BY <3>2 DEF Queue
            <4> HIDE DEF p
            <4>2. CASE run' = [run EXCEPT ![r].pending = p, ![r].due = TRUE]
                BY <1>3, <3>1, <4>2 DEF p
            <4>3. CASE run' = [run EXCEPT ![r].pending = p]
                <5>1. [run[r] EXCEPT !.pending = p]
                         = [[run[r] EXCEPT !.pending = p] EXCEPT !.due = run[r].due]
                    BY <1>3 DEF RunStates
                <5> QED
                    BY <1>3, <3>1, <4>3, <5>1 DEF p
            <4> QED
                BY <4>1, <4>2, <4>3
        <3>3. CASE FlushLands(r, l)
            BY <1>3, <3>3 DEF FlushLands
        <3> QED
            BY <1>8, <3>2, <3>3
    <2>2. PICK n \in Nat, d \in BOOLEAN :
             run' = [run EXCEPT ![r] = [[run[r] EXCEPT !.pending = n] EXCEPT !.due = d]]
        BY <2>1
    <2> DEFINE new == [[run[r] EXCEPT !.pending = n] EXCEPT !.due = d]
    <2>3. /\ new \in RunStates /\ new.phase = "tasks" /\ ~new.lost
          /\ new.aborted = run[r].aborted /\ new.stopped = run[r].stopped
        BY <1>1, <1>3 DEF RunStates
    <2>4. run' = [run EXCEPT ![r] = new]
        BY <2>2
    <2> HIDE DEF new
    <2> QED
        BY <1>1, <1>2, <1>3, <1>4, <1>5, <2>3, <2>4, GoesOn
<1> QED
    BY <1>3, <1>6, <1>7, <1>8
       DEF LaneStep, Begin, Skip, LaneEnds, Answer, Invalidate, FlushInDoubt, Checkpoint

\* A run ends after its tasks only because the batch is stopped.
LEMMA DrainAttended ==
    ASSUME Typed, Attended, NEW r \in Runs, Drain(r)
    PROVE  Attended'
<1>1. run[r].phase = "tasks" /\ "tasks" \in Alive \ {"lock"} /\ call' = call
    BY DEF Drain, Alive
<1>2. /\ run[r] \in RunStates /\ run \in [Runs -> RunStates] /\ batch \in Batches
      /\ ~run[r].lost /\ batch.status # "none"
      /\ batch.status = "running" => ~run[r].aborted /\ ~run[r].stopped
    BY <1>1, AttendedRunIs
<1>3. PICK phase \in {"done", "crash", "judge"} :
         /\ run' = [run EXCEPT ![r] = [At(r, phase) EXCEPT !.pending = 0, !.due = FALSE,
                                                           !.done = {}]]
         /\ batch.status = "running" => phase = "judge"
    BY <1>2 DEF Drain
<1> DEFINE new == [At(r, phase) EXCEPT !.pending = 0, !.due = FALSE, !.done = {}]
<1>4. /\ new \in RunStates /\ new.phase = phase /\ ~new.lost
      /\ phase # "done" => new.aborted = run[r].aborted /\ new.stopped = run[r].stopped
    <2>1. CASE phase = "done"
        BY <2>1 DEF At, Over, NewRun, RunStates
    <2>2. CASE phase # "done"
        BY <1>2, <2>2 DEF At, RunStates, Alive
    <2> QED
        BY <2>1, <2>2
<1>5. phase \in (Alive \ {"lock"}) \cup {"done"}
    BY <1>3 DEF Alive
<1>6. batch'.locked = batch.locked /\ batch'.status = batch.status
    BY <1>2 DEF Drain, Batches
<1>7. run' = [run EXCEPT ![r] = new]
    BY <1>3
<1> HIDE DEF new
<1> QED
    BY <1>1, <1>2, <1>3, <1>4, <1>5, <1>6, <1>7, GoesOn

LEMMA AbortedIs ==
    ASSUME Typed
    PROVE  \A s \in Runs : Aborted[s].phase = run[s].phase /\ Aborted[s].lost = run[s].lost
BY DEF Typed, TypeOK, Aborted, RunStates

LEMMA RequestAttended ==
    ASSUME Typed, Attended, NEW q \in Calls, Request(q), faults' # "hard"
    PROVE  Attended'
<1>1. /\ run \in [Runs -> RunStates] /\ batch \in Batches
      /\ call \in [Calls -> CallStates] /\ call[q] \in CallStates
    BY DEF Typed, TypeOK
<1>2. ASSUME NEW new, call' = [call EXCEPT ![q] = new], new.op = "resume" => new.locked,
             batch'.status # "none"
      PROVE  RequestsLater'
    BY <1>1, <1>2 DEF Attended, RequestsLater
<1>3. ASSUME NEW op, NEW for, NEW status, op # "resume", Loads(q, op, for, status),
             batch'.status # "none"
      PROVE  RequestsLater'
    <2> DEFINE new == [NoCall EXCEPT !.op = op, !.for = for, !.status = status,
                                     !.completed = batch.completed]
    <2>1. new.op = op
        BY DEF NoCall
    <2> HIDE DEF new
    <2> QED
        BY <1>2, <1>3, <2>1 DEF Loads, new
<1>4. Ends(q) /\ batch'.status # "none" => RequestsLater'
    BY <1>2, InitialValuesTyped DEF Ends
<1>5. CASE Stop(q) \/ Recover(q) \/ Reconcile(q) \/ CleanupStale(q)
    <2>1. /\ run' = run /\ batch'.locked = batch.locked /\ batch.status # "none"
          /\ \/ batch' = batch
             \/ batch.status = "running" /\ batch'.status = "stopped"
        BY <1>1, <1>5 DEF Stop, Recover, Reconcile, CleanupStale, Batches, Terminal
    <2>2. RequestsLater'
        BY <1>3, <1>5, <2>1 DEF Stop, Recover, Reconcile, CleanupStale
    <2> QED
        BY <2>1, <2>2, StaysAttended
<1>6. CASE Abort(q)
    <2>1. [call[q] EXCEPT !.op = "count"].op = "count"
        BY <1>1 DEF CallStates
    <2>2. batch.status # "none"
        BY <1>6 DEF Abort, Attended, RequestsLater
    <2>3. batch' = batch /\ run' = Aborted /\ (batch.status = "running" => Aborted = run)
        BY <1>6 DEF Abort, AbortPass
    <2>4. RequestsLater'
        BY <1>2, <1>6, <2>1, <2>2, <2>3 DEF Abort
    <2> QED
        BY <2>3, <2>4, AbortedIs, StaysAttended
<1>7. CASE Count(q)
    <2> DEFINE n == RowCount
               new == [[call[q] EXCEPT !.op = "save"] EXCEPT !.counts = n]
    <2>1. call' = [call EXCEPT ![q].op = "save", ![q].counts = n]
        BY <1>7 DEF Count
    <2> HIDE DEF n
    <2>2. call' = [call EXCEPT ![q] = new] /\ new.op = "save"
        BY <1>1, <2>1 DEF CallStates
    <2>3. RequestsLater' /\ batch' = batch /\ run' = run
        BY <1>2, <1>7, <2>2 DEF Count, Attended, RequestsLater
    <2> QED
        BY <2>3, StaysAttended
<1>8. CASE Save(q)
    <2>1. batch.status # "none"
        BY <1>8 DEF Save, Attended, RequestsLater
    <2>2. PICK target \in Targets(q) : batch' = [batch EXCEPT
             !.status = IF target # call[q].status THEN target ELSE @,
             !.completed = IF call[q].counts # call[q].completed THEN call[q].counts ELSE @]
        BY <1>8 DEF Save
    <2>3. target # call[q].status => target \notin {"none", "running"}
        BY DEF Targets
    <2>4. /\ batch'.locked = batch.locked
          /\ batch'.status = batch.status \/ batch'.status \notin {"none", "running"}
        BY <1>1, <2>2, <2>3 DEF Batches
    <2>5. \/ run' = run
          \/ run' = Aborted /\ (batch.status = "running" => Aborted = run)
        BY <1>8 DEF Save, AbortPass
    <2>6. RequestsLater'
        BY <1>4, <1>8, <2>1, <2>4 DEF Save
    <2> QED
        BY <2>1, <2>4, <2>5, <2>6, AbortedIs, StaysAttended
<1>9. CASE ResumeRead(q)
    <2>1. Running = {} /\ batch.status # "none"
        BY <1>9 DEF ResumeRead, Overlap, Terminal
    <2>2. batch.locked
        <3>1. "lock" \in Alive
            BY DEF Alive
        <3> QED
            BY <2>1, <3>1 DEF Attended, LockAwaited, Running
    <2>3. [NoCall EXCEPT !.op = "resume", !.locked = batch.locked].locked
        BY <2>2 DEF NoCall
    <2>4. RequestsLater' /\ batch' = batch /\ run' = run
        BY <1>2, <1>9, <2>1, <2>3 DEF ResumeRead
    <2> QED
        BY <2>4, StaysAttended
<1>10. CASE ResumeSave(q)
    <2>1. Running = {} /\ call[q].locked
        BY <1>10 DEF ResumeSave, Overlap, Attended, RequestsLater
    <2>2. Min(Unused) \in Runs
        <3>1. Unused \subseteq Nat /\ Unused # {} /\ Unused \subseteq Runs
            BY <1>10, BatchAssumption DEF ResumeSave, Unused, Runs
        <3> QED
            BY <3>1, MinIs
    <2>3. batch'.status = "running" /\ ~batch'.locked
        BY <1>1, <1>10, <2>1 DEF ResumeSave, Batches
    <2>4. RequestsLater' /\ run' = [run EXCEPT ![Min(Unused)] = NewRun]
        BY <1>4, <1>10, <2>3 DEF ResumeSave
    <2> QED
        BY <2>1, <2>2, <2>3, <2>4, StartsAttended
<1> QED
    BY <1>5, <1>6, <1>7, <1>8, <1>9, <1>10 DEF Request

LEMMA OthersAttended ==
    ASSUME Typed, Attended, StartBatch \/ StopAgain \/ Die \/ GhostStopped, faults' # "hard"
    PROVE  Attended'
<1>1. run \in [Runs -> RunStates] /\ batch \in Batches
    BY DEF Typed, TypeOK
<1>2. CASE StartBatch
    <2>1. Running = {} /\ ~batch.locked
        BY <1>2 DEF StartBatch, Attended, LockAwaited
    <2>2. batch'.status = "running" /\ ~batch'.locked
        BY <1>1, <1>2, <2>1 DEF StartBatch, Batches
    <2>3. 1 \in Runs
        BY BatchAssumption DEF Runs
    <2>4. RequestsLater' /\ run' = [run EXCEPT ![1] = NewRun]
        BY <1>2 DEF StartBatch, Attended, RequestsLater
    <2> QED
        BY <2>1, <2>2, <2>3, <2>4, StartsAttended
<1>3. CASE StopAgain
    <2>1. RequestsLater' /\ batch' = batch /\ run' = Aborted /\ batch.status # "running"
        BY <1>3 DEF StopAgain, Attended, RequestsLater
    <2> QED
        BY <2>1, AbortedIs, StaysAttended
<1>4. CASE GhostStopped
    <2>1. /\ RequestsLater' /\ run' = run /\ batch'.locked = batch.locked
          /\ batch.status = "running" /\ batch'.status = "stopped"
        BY <1>1, <1>4 DEF GhostStopped, StatusIfWorking, Batches, Attended, RequestsLater
    <2> QED
        BY <2>1, StaysAttended
<1>5. CASE Die
    <2>1. /\ batch' = StatusIfWorking("interrupted") /\ batch.status # "none"
          /\ \E r \in Running : run[r].phase # "lock"
        BY <1>5 DEF Die
    <2>2. \A r \in Runs : run[r].phase # "lock"
        <3>1. "lock" \in Alive
            BY DEF Alive
        <3> QED
            BY <2>1, <3>1 DEF Attended, OneAlive, Running
    <2>3. batch.locked
        BY <2>1, <2>2 DEF Attended, LockAwaited
    <2>4. /\ batch'.locked /\ batch'.status \notin {"none", "running"}
        BY <1>1, <2>1, <2>3 DEF StatusIfWorking, Batches
    <2>5. \A r \in Runs : run'[r] = IF r \in Running THEN Over ELSE run[r]
        BY <1>5 DEF Die
    <2>6. Over.phase = "done" /\ "done" \notin Alive
        BY InitialValuesTyped DEF Alive
    <2>7. Running' = {} /\ \A r \in Runs : run'[r].phase # "lock"
        BY <2>2, <2>5, <2>6 DEF Running
    <2>8. RequestsLater'
        BY <1>5, InitialValuesTyped DEF Die, RequestsLater
    <2> QED
        BY <2>4, <2>7, <2>8 DEF Attended, OneAlive, LockAwaited, Unhindered
<1> QED
    BY <1>2, <1>3, <1>4, <1>5

\* What is hard on a batch stays on record.
LEMMA HardStays ==
    ASSUME [Next]_vars, faults' # "hard"
    PROVE  faults # "hard"
<1>1. ASSUME NEW r \in Runs, RunStep(r) \/ LoseAuthority(r) PROVE faults # "hard"
    BY <1>1 DEF RunStep, LoseAuthority, Lock, AdmissionRefused, Load, PrepareFails, LaneStep, Begin,
           Skip, LaneEnds, Answer, Queue, Invalidate, FlushLands, FlushInDoubt, Checkpoint,
           Drain, Judge, FinalRead, Finalize, CrashPath
<1>2. ASSUME NEW q \in Calls, Request(q) PROVE faults # "hard"
    BY <1>2 DEF Request, Stop, Abort, AbortPass, Recover, Reconcile, CleanupStale, Count, Save,
                ResumeRead, ResumeSave, Orderly, Overlap
<1>3. CASE StartBatch \/ StopAgain \/ Die \/ GhostStopped \/ UNCHANGED vars
    BY <1>3 DEF StartBatch, StopAgain, Die, GhostStopped, vars, Orderly
<1> QED
    BY <1>1, <1>2, <1>3 DEF Next

LEMMA NextAttended ==
    ASSUME Typed, Attended, [Next]_vars, faults' # "hard"
    PROVE  Attended'
<1>1. ASSUME NEW r \in Runs, RunStep(r) \/ LoseAuthority(r) PROVE Attended'
    <2>1. ~AdmissionRefused(r) /\ ~LoseAuthority(r)
        BY DEF AdmissionRefused, LoseAuthority
    <2>2. CASE \E l \in LaneIds : LaneStep(r, l)
        BY <2>2, LaneAttended
    <2>3. CASE Drain(r)
        BY <2>3, DrainAttended
    <2>4. CASE \/ Lock(r) \/ Load(r) \/ PrepareFails(r)
               \/ Judge(r) \/ FinalRead(r) \/ Finalize(r) \/ CrashPath(r)
        <3>1. run[r].phase \in Alive
            BY <2>4 DEF Lock, Load, PrepareFails, Judge, FinalRead, Finalize, CrashPath, Alive
        <3> QED
            BY <2>4, <3>1, RunAttended
    <2> QED
        BY <1>1, <2>1, <2>2, <2>3, <2>4 DEF RunStep
<1>2. CASE UNCHANGED vars
    BY <1>2 DEF vars, Attended, OneAlive, LockAwaited, RequestsLater, Unhindered, Running
<1> QED
    BY <1>1, <1>2, RequestAttended, OthersAttended DEF Next

\* A running batch is never left alone: unless something hard has happened to
\* it, one run is under way, with its lock to take or taken, and nothing has
\* told it to leave.  Its ways out write a terminal status, so what is left of
\* BatchEnds to the scheduling is that the run takes its steps.
THEOREM RunningBatchIsAttended == Spec => []RunningIsAttended
<1> DEFINE Inv == Typed /\ (faults # "hard" => Attended)
<1>1. Init => Inv
    BY InitTyped, InitAttended
<1>2. Inv /\ [Next]_vars => Inv'
    BY NextTyped, NextAttended, HardStays
<1>3. Inv => RunningIsAttended
    <2> SUFFICES ASSUME Inv, batch.status = "running", faults # "hard"
                 PROVE  \E r \in Running :
                           /\ Running = {r}
                           /\ run[r].phase = "lock" <=> ~batch.locked
                           /\ ~run[r].stopped /\ ~Unwinding(r)
        BY DEF RunningIsAttended
    <2>1. Attended
        OBVIOUS
    <2>2. PICK r \in Running : TRUE
        BY <2>1 DEF Attended, Unhindered
    <2>3. Running = {r}
        BY <2>1, <2>2 DEF Attended, OneAlive
    <2>4. \A s \in Runs : run[s].phase = "lock" => s \in Running
        BY DEF Running, Alive
    <2>5. run[r].phase = "lock" <=> ~batch.locked
        BY <2>1, <2>2, <2>3, <2>4 DEF Attended, LockAwaited, Running
    <2>6. ~run[r].stopped /\ ~Unwinding(r)
        BY <2>1, <2>2 DEF Attended, OneAlive, Unhindered, Unwinding
    <2> QED
        BY <2>2, <2>3, <2>5, <2>6
<1> HIDE DEF Inv
<1> QED
    BY <1>1, <1>2, <1>3, PTL DEF Spec
=============================================================================
