-------------------------- MODULE MemoryRunner_proofs --------------------------
(***************************************************************************)
(* Theorems about the polling engine for every set of cases, every bound   *)
(* on tasks, concurrency and crashes, and every set of API requests.       *)
(***************************************************************************)
EXTENDS MemoryRunner, CaseExecution_proofs, FunctionTheorems

USE DEF NoAggregates, NoAverages, api, execution, runner

-----------------------------------------------------------------------------
(* What a step of each part of the engine can touch.                       *)

LEMMA SlotsType == Slots \in Nat \ {0}
BY RunnerAssumption DEF Slots

LEMMA RunTaskMoves ==
  ASSUME TypeOK, NEW k \in Tasks, RunTask(k)
  PROVE  /\ Active(k)
         /\ UNCHANGED <<api, tick, crashes>>
         /\ \/ /\ \E to \in ActiveSteps : MoveTask(k, to)
               /\ UNCHANGED running
            \/ /\ \E to \in {"done", "lost"} : MoveTask(k, to)
               /\ running' = FALSE
BY DEF RunTask, MarkStarted, PrepareFails, ListCases, GatherReturns, Finalize, TaskRaises,
       HandleException, TaskEnds, Active, ActiveSteps, MoveTask

LEMMA RunTaskKeepsAttempts ==
  ASSUME NEW k \in Tasks, RunTask(k), ~ListCases(k)
  PROVE  UNCHANGED execution
BY DEF RunTask, MarkStarted, PrepareFails, ListCases, GatherReturns, Finalize, TaskRaises,
       HandleException, TaskEnds

(* The coroutine of a case holds a slot from start to end.                 *)
HoldingSteps == InnerSteps \cup {"scored", "raised"}

LEMMA ExecuteMoves ==
  ASSUME NEW a \in Attempts, ExecuteAndScoreCase(a)
  PROVE  /\ pc[a] \in InnerSteps
         /\ \E to \in HoldingSteps : Goto(a, to)
BY DEF ExecuteAndScoreCase, MarkCaseRunning, AgentFails, WriteCaseResult, ClearMetrics,
       InsertMetric, EmitCaseEvent, ExecutionRaises, HoldingSteps, InnerSteps

LEMMA RunCaseKeepsTasks ==
  ASSUME NEW a \in Attempts, RunCase(a)
  PROVE  /\ UNCHANGED <<api, tick, running, task, tally, scored, crashes>>
         /\ pc[a] \in HoldingSteps \cup {"setup"}
<1>1. CASE AcquireSlot(a) \/ CaseReturns(a) \/ CaseErrorWritten(a)
  BY <1>1 DEF AcquireSlot, CaseReturns, CaseErrorWritten, Leave, HoldingSteps
<1>2. CASE ExecuteAndScoreCase(a) /\ UNCHANGED runner
  <2>1. UNCHANGED api
    BY <1>2 DEF ExecuteAndScoreCase, MarkCaseRunning, AgentFails, WriteCaseResult,
                ClearMetrics, InsertMetric, EmitCaseEvent, ExecutionRaises
  <2>2. QED
    BY <1>2, <2>1, ExecuteMoves DEF HoldingSteps
<1>3. QED
  BY <1>1, <1>2 DEF RunCase

-----------------------------------------------------------------------------
(* One task at a time.                                                     *)

(* A task that is going on is in _running, and all tasks before any task   *)
(* that was created are over.                                              *)
TaskInv ==
  /\ \A k \in Tasks : Active(k) => running
  /\ \A j, k \in Tasks : j < k /\ task[k] # "none" => task[j] \in EndedSteps \ {"none"}

LEMMA TaskKept ==
  ASSUME TaskInv, UNCHANGED <<running, task>>
  PROVE  TaskInv'
BY DEF TaskInv, Active

LEMMA TaskStep ==
  ASSUME TypeOK, TaskInv, [Next]_vars
  PROVE  TaskInv'
<1> USE DEF Tasks
<1>1. CASE ApiStep /\ UNCHANGED <<execution, runner>>
  BY <1>1, TaskKept
<1>2. CASE Tick
  <2>1. CASE UNCHANGED <<running, task>>
    BY <2>1, TaskKept
  <2>2. CASE CreateTask /\ ~UNCHANGED <<running, task>>
    <3>1. ~running
      BY <2>2 DEF CreateTask
    <3>2. PICK k \in Tasks : /\ task[k] = "none"
                             /\ \A j \in Tasks : j < k => task[j] # "none"
                             /\ MoveTask(k, "state")
                             /\ running'
      BY <2>2 DEF CreateTask
    <3>3. \A j \in Tasks : ~Active(j)
      BY <3>1 DEF TaskInv
    <3>4. \A j \in Tasks : j # k => task'[j] = task[j] /\ task[j] \in EndedSteps
      BY <3>2, <3>3 DEF MoveTask, Active, TypeOK
    <3>5. \A l \in Tasks : k < l => task[l] = "none"
      BY <3>2 DEF TaskInv
    <3>6. \A i, j \in Tasks : i < j /\ task'[j] # "none" => task'[i] \in EndedSteps \ {"none"}
      <4> SUFFICES ASSUME NEW i \in Tasks, NEW j \in Tasks, i < j, task'[j] # "none"
                   PROVE  task'[i] \in EndedSteps \ {"none"}
        OBVIOUS
      <4>1. j = k \/ j < k
        BY <3>4, <3>5, ExecutionAssumption
      <4>2. i < k /\ i # k
        BY <4>1, ExecutionAssumption
      <4>3. task[i] # "none"
        BY <3>2, <4>2
      <4>4. QED
        BY <3>4, <4>2, <4>3
    <3>7. QED
      BY <3>2, <3>6 DEF TaskInv, Active
  <2>3. QED
    BY <1>2, <2>1, <2>2 DEF Tick, ListPendingRuns
<1>3. CASE \E k \in Tasks : RunTask(k)
  <2>1. PICK k \in Tasks : RunTask(k)
    BY <1>3
  <2>2. Active(k)
    BY <2>1, RunTaskMoves
  <2>3. PICK to \in ActiveSteps \cup {"done", "lost"} :
          /\ MoveTask(k, to)
          /\ to \in ActiveSteps => UNCHANGED running
    BY <2>1, RunTaskMoves DEF ActiveSteps
  <2>4. \A j \in Tasks : j # k => task'[j] = task[j]
    BY <2>3 DEF MoveTask, TypeOK
  <2>5. task'[k] = to
    BY <2>3 DEF MoveTask, TypeOK
  <2>6. \A l \in Tasks : k < l => task[l] = "none"
    BY <2>2 DEF TaskInv, Active, ActiveSteps, EndedSteps
  <2>7. \A j \in Tasks : j < k => task[j] \in EndedSteps \ {"none"}
    BY <2>2 DEF TaskInv, Active, ActiveSteps
  <2>8. \A i, j \in Tasks : i < j /\ task'[j] # "none" => task'[i] \in EndedSteps \ {"none"}
    <3> SUFFICES ASSUME NEW i \in Tasks, NEW j \in Tasks, i < j, task'[j] # "none"
                 PROVE  task'[i] \in EndedSteps \ {"none"}
      OBVIOUS
    <3>1. i # k
      BY <2>4, <2>6, ExecutionAssumption
    <3>2. CASE j = k
      BY <2>4, <2>7, <3>1, <3>2
    <3>3. CASE j # k
      BY <2>4, <3>1, <3>3 DEF TaskInv
    <3>4. QED  BY <3>2, <3>3
  <2>9. \A j \in Tasks : Active(j)' => running'
    <3> SUFFICES ASSUME NEW j \in Tasks, Active(j)' PROVE running'
      OBVIOUS
    <3>1. CASE j = k
      BY <2>2, <2>3, <2>5, <3>1 DEF TaskInv, Active, ActiveSteps
    <3>2. CASE j # k
      <4>1. Active(j)
        BY <2>4, <3>2 DEF Active
      <4>2. j < k \/ k < j
        BY <3>2, ExecutionAssumption
      <4>3. QED
        BY <2>6, <2>7, <4>1, <4>2 DEF Active, ActiveSteps, EndedSteps
    <3>3. QED  BY <3>1, <3>2
  <2>10. QED
    BY <2>8, <2>9 DEF TaskInv
<1>4. CASE \E a \in Attempts : RunCase(a)
  BY <1>4, RunCaseKeepsTasks, TaskKept
<1>5. CASE Crash
  BY <1>5 DEF Crash, TaskInv, Active, ActiveSteps, EndedSteps, TypeOK
<1>6. CASE UNCHANGED vars
  BY <1>6, TaskKept DEF vars
<1>7. QED
  BY <1>1, <1>2, <1>3, <1>4, <1>5, <1>6 DEF Next

LEMMA OnlyOneActive ==
  ASSUME TaskInv, NEW j \in Tasks, NEW k \in Tasks, Active(j), Active(k)
  PROVE  j = k
BY ExecutionAssumption DEF TaskInv, Active, ActiveSteps, EndedSteps, Tasks

-----------------------------------------------------------------------------
(* The coroutines of a task, and the slots they hold.                      *)

(* A coroutine that is neither over nor dead belongs to a task that waits  *)
(* for it in its gather, and there is none before the gather.              *)
FreshSteps == {"none", "state", "event_started", "prepare"}

PcInv ==
  \A a \in Attempts : /\ pc[a] \notin {"idle", "done", "dead"} => task[a[2]] = "gather"
                      /\ task[a[2]] \in FreshSteps => pc[a] = "idle"

Holding(k) == {a \in Attempts : a[2] = k /\ pc[a] \in HoldingSteps}

(* Free slots and held slots of a gather add up to its slots.              *)
SlotInv == \A k \in Tasks : task[k] = "gather" => permits[k] + Cardinality(Holding(k)) = Slots

LEMMA HoldingFinite ==
  ASSUME NEW k
  PROVE  IsFiniteSet(Holding(k)) /\ Cardinality(Holding(k)) \in Nat
<1>1. IsFiniteSet(Attempts)
  <2>1. IsFiniteSet(1..CaseAttempts)
    BY ExecutionAssumption, FS_Interval
  <2>2. QED
    BY <2>1, CasesAssumption, FS_Product DEF Attempts
<1>2. QED
  BY <1>1, FS_Subset, FS_CardinalityType DEF Holding

LEMMA PcKept ==
  ASSUME PcInv, UNCHANGED <<pc, task>>
  PROVE  PcInv'
BY DEF PcInv

LEMMA PcStep ==
  ASSUME TypeOK, TaskInv, PcInv, [Next]_vars
  PROVE  PcInv'
<1>1. CASE ApiStep /\ UNCHANGED <<execution, runner>>
  BY <1>1, PcKept
<1>2. CASE Tick
  <2>1. CASE UNCHANGED <<pc, task>>
    BY <2>1, PcKept
  <2>2. CASE CreateTask /\ ~UNCHANGED <<pc, task>>
    <3>1. PICK k \in Tasks : task[k] = "none" /\ MoveTask(k, "state")
      BY <2>2 DEF CreateTask
    <3>2. UNCHANGED pc
      BY <2>2 DEF CreateTask
    <3>3. \A a \in Attempts : a[2] = k => pc[a] = "idle"
      BY <3>1 DEF PcInv, FreshSteps
    <3>4. \A j \in Tasks : task'[j] = IF j = k THEN "state" ELSE task[j]
      BY <3>1 DEF MoveTask, TypeOK
    <3>5. QED
      BY <3>2, <3>3, <3>4 DEF PcInv, Attempts, Tasks
  <2>3. QED
    BY <1>2, <2>1, <2>2 DEF Tick, ListPendingRuns
<1>3. CASE \E k \in Tasks : RunTask(k)
  <2>1. PICK k \in Tasks : RunTask(k)
    BY <1>3
  <2>2. Active(k)
    BY <2>1, RunTaskMoves
  <2>3. PICK to \in ActiveSteps \cup {"done", "lost"} : MoveTask(k, to)
    BY <2>1, RunTaskMoves DEF ActiveSteps
  <2>4. \A j \in Tasks : task'[j] = IF j = k THEN to ELSE task[j]
    BY <2>3 DEF MoveTask, TypeOK
  <2>5. to \in FreshSteps => task[k] \in FreshSteps
    <3>1. task'[k] = to
      BY <2>4
    <3>2. task'[k] \in FreshSteps => MarkStarted(k)
      BY <2>1 DEF RunTask, PrepareFails, ListCases, GatherReturns, Finalize, TaskRaises,
                  HandleException, TaskEnds, MoveTask, TypeOK, FreshSteps
    <3>3. QED
      BY <3>1, <3>2 DEF MarkStarted, FreshSteps
  <2>6. CASE ListCases(k)
    <3>1. task'[k] = "gather"
      BY <2>6 DEF ListCases, MoveTask, TypeOK
    <3>2. \A a \in Attempts : pc'[a] = pc[a] \/ a[2] = k
      BY <2>6 DEF ListCases
    <3>3. QED
      BY <2>4, <3>1, <3>2 DEF PcInv, Attempts, Tasks, FreshSteps
  <2>7. CASE ~ListCases(k)
    <3>1. UNCHANGED pc
      BY <2>1, <2>7, RunTaskKeepsAttempts
    <3>2. task[k] = "gather" => \A a \in Attempts : a[2] = k => pc[a] \in {"idle", "done", "dead"}
      <4>1. task[k] = "gather" => GatherReturns(k)
        BY <2>1, <2>7 DEF RunTask, MarkStarted, PrepareFails, Finalize, TaskRaises,
                          HandleException, TaskEnds
      <4>2. QED
        BY <4>1 DEF GatherReturns, Attempts
    <3>3. QED
      BY <2>4, <2>5, <3>1, <3>2 DEF PcInv, Attempts, Tasks
  <2>8. QED
    BY <2>6, <2>7
<1>4. CASE \E a \in Attempts : RunCase(a)
  <2>1. PICK a \in Attempts : RunCase(a)
    BY <1>4
  <2>2. UNCHANGED task /\ pc[a] \in HoldingSteps \cup {"setup"}
    BY <2>1, RunCaseKeepsTasks
  <2>3. task[a[2]] = "gather"
    BY <2>2 DEF PcInv, HoldingSteps, InnerSteps
  <2>4. \A b \in Attempts : b # a => pc'[b] = pc[b]
    BY <2>1, ExecuteMoves
       DEF RunCase, AcquireSlot, CaseReturns, CaseErrorWritten, Leave, Goto, TypeOK,
           ExecutionTypeOK
  <2>5. QED
    BY <2>2, <2>3, <2>4 DEF PcInv, FreshSteps
<1>5. CASE Crash
  <2>1. \A a \in Attempts : /\ pc[a] = "idle" => pc'[a] = "idle"
                            /\ pc'[a] \in {"idle", "done", "dead"}
    BY <1>5 DEF Crash
  <2>2. \A k \in Tasks : task'[k] \in FreshSteps => task[k] = "none"
    BY <1>5 DEF Crash, Active, ActiveSteps, FreshSteps
  <2>3. QED
    BY <2>1, <2>2 DEF PcInv, Attempts, Tasks, FreshSteps
<1>6. CASE UNCHANGED vars
  BY <1>6, PcKept DEF vars
<1>7. QED
  BY <1>1, <1>2, <1>3, <1>4, <1>5, <1>6 DEF Next

LEMMA SlotKept ==
  ASSUME SlotInv, UNCHANGED <<pc, permits>>, \A k \in Tasks : task'[k] = "gather" => task[k] = "gather"
  PROVE  SlotInv'
BY DEF SlotInv, Holding

(* A coroutine that holds a slot leaves at least one to be given back.     *)
LEMMA HeldSlot ==
  ASSUME TypeOK, PcInv, SlotInv, NEW a \in Attempts, pc[a] \in HoldingSteps
  PROVE  /\ a[2] \in Tasks
         /\ a \in Holding(a[2])
         /\ permits[a[2]] + Cardinality(Holding(a[2])) = Slots
         /\ permits[a[2]] + 1 \in 0..Slots
<1>1. a[2] \in Tasks /\ a \in Holding(a[2])
  BY DEF Attempts, Tasks, Holding
<1>2. permits[a[2]] + Cardinality(Holding(a[2])) = Slots
  BY <1>1 DEF PcInv, SlotInv, HoldingSteps, InnerSteps
<1>3. Cardinality(Holding(a[2])) # 0
  BY <1>1, HoldingFinite, FS_EmptySet
<1>4. permits[a[2]] \in Nat
  BY <1>1, SlotsType DEF TypeOK
<1>5. QED
  BY <1>1, <1>2, <1>3, <1>4, HoldingFinite, SlotsType

LEMMA LeaveConserves ==
  ASSUME TypeOK, PcInv, SlotInv, NEW a \in Attempts, pc[a] \in {"scored", "raised"},
         NEW how \in {"done", "dead"}, Leave(a, how)
  PROVE  SlotInv'
<1>0. PICK k \in Tasks : k = a[2] /\ a \in Holding(k)
  BY HeldSlot DEF HoldingSteps
<1>1. Holding(k)' = Holding(k) \ {a}
  BY <1>0 DEF Leave, Goto, Holding, HoldingSteps, InnerSteps, TypeOK, ExecutionTypeOK
<1>2. \A j \in Tasks : j # k => Holding(j)' = Holding(j)
  BY <1>0 DEF Leave, Goto, Holding, HoldingSteps, InnerSteps, TypeOK, ExecutionTypeOK
<1>3. Cardinality(Holding(k) \ {a}) = Cardinality(Holding(k)) - 1
  <2>1. IsFiniteSet(Holding(k))
    BY HoldingFinite
  <2>2. QED
    BY <1>0, <2>1, FS_RemoveElement
<1>4. \A j \in Tasks : permits'[j] = IF j = k THEN permits[j] + 1 ELSE permits[j]
  BY <1>0 DEF Leave, TypeOK
<1>5. permits[k] \in Nat /\ UNCHANGED task
  BY <1>0, SlotsType DEF Leave, TypeOK
<1>6. task[k] = "gather" => permits'[k] + Cardinality(Holding(k)') = Slots
  <2>1. task[k] = "gather" => permits[k] + Cardinality(Holding(k)) = Slots
    BY <1>0 DEF SlotInv
  <2>2. permits'[k] = permits[k] + 1
    BY <1>0, <1>4
  <2>3. Cardinality(Holding(k)) \in Nat
    BY HoldingFinite
  <2>4. Cardinality(Holding(k)') = Cardinality(Holding(k)) - 1
    BY <1>1, <1>3
  <2>5. QED
    BY <1>5, <2>1, <2>2, <2>3, <2>4, SlotsType
<1>7. QED
  BY <1>2, <1>4, <1>5, <1>6 DEF SlotInv

LEMMA SlotStep ==
  ASSUME TypeOK, PcInv, SlotInv, [Next]_vars
  PROVE  SlotInv'
<1>1. CASE ApiStep /\ UNCHANGED <<execution, runner>>
  BY <1>1, SlotKept
<1>2. CASE Tick
  <2>1. UNCHANGED <<pc, permits>>
    BY <1>2 DEF Tick, ListPendingRuns, CreateTask
  <2>2. \A k \in Tasks : task'[k] = "gather" => task[k] = "gather"
    BY <1>2 DEF Tick, ListPendingRuns, CreateTask, MoveTask, TypeOK
  <2>3. QED  BY <2>1, <2>2, SlotKept
<1>3. CASE \E k \in Tasks : RunTask(k)
  <2>1. PICK k \in Tasks : RunTask(k)
    BY <1>3
  <2>2. CASE ListCases(k)
    <3>1. \A a \in Attempts : a[2] = k => pc[a] \in {"idle", "done", "dead"}
      BY <2>2 DEF ListCases, PcInv
    <3>2. Holding(k)' = {}
      BY <2>2, <3>1 DEF ListCases, Holding, HoldingSteps, InnerSteps
    <3>3. \A j \in Tasks : j # k => /\ Holding(j)' = Holding(j)
                                    /\ permits'[j] = permits[j]
                                    /\ task'[j] = task[j]
      BY <2>2 DEF ListCases, Holding, MoveTask, TypeOK
    <3>4. permits'[k] = Slots
      BY <2>2 DEF ListCases, TypeOK
    <3>5. QED
      BY <3>2, <3>3, <3>4, FS_EmptySet, SlotsType DEF SlotInv
  <2>3. CASE TaskEnds(k)
    <3>1. UNCHANGED pc
      BY <2>3 DEF TaskEnds
    <3>2. \A j \in Tasks : task'[j] = "gather" =>
            task[j] = "gather" /\ permits'[j] = permits[j]
      BY <2>3 DEF TaskEnds, MoveTask, Forget, TypeOK
    <3>3. QED
      BY <3>1, <3>2 DEF SlotInv, Holding
  <2>4. CASE ~ListCases(k) /\ ~TaskEnds(k)
    <3>1. UNCHANGED <<pc, permits>>
      BY <2>1, <2>4 DEF RunTask, MarkStarted, PrepareFails, GatherReturns, Finalize,
                        TaskRaises, HandleException
    <3>2. \A j \in Tasks : task'[j] = "gather" => task[j] = "gather"
      BY <2>1, <2>4 DEF RunTask, MarkStarted, PrepareFails, GatherReturns, Finalize,
                        TaskRaises, HandleException, MoveTask, TypeOK
    <3>3. QED  BY <3>1, <3>2, SlotKept
  <2>5. QED  BY <2>2, <2>3, <2>4
<1>4. CASE \E a \in Attempts : RunCase(a)
  <2>1. PICK a \in Attempts : RunCase(a)
    BY <1>4
  <2>2. CASE AcquireSlot(a)
    <3>1. a[2] \in Tasks /\ permits[a[2]] \in Nat
      BY SlotsType DEF Attempts, Tasks, TypeOK
    <3>2. /\ Holding(a[2])' = Holding(a[2]) \cup {a}
          /\ a \notin Holding(a[2])
          /\ \A k \in Tasks : k # a[2] => Holding(k)' = Holding(k)
      BY <2>2 DEF AcquireSlot, Goto, Holding, HoldingSteps, InnerSteps, TypeOK, ExecutionTypeOK
    <3>3. Cardinality(Holding(a[2])') = Cardinality(Holding(a[2])) + 1
      BY <3>2, HoldingFinite, FS_AddElement
    <3>4. \A k \in Tasks : permits'[k] = IF k = a[2] THEN permits[k] - 1 ELSE permits[k]
      BY <2>2 DEF AcquireSlot, TypeOK
    <3>5. UNCHANGED task
      BY <2>2 DEF AcquireSlot
    <3>6. QED
      BY <3>1, <3>2, <3>3, <3>4, <3>5, HoldingFinite, SlotsType DEF SlotInv
  <2>3. CASE ExecuteAndScoreCase(a) /\ UNCHANGED runner
    <3>1. PICK to \in HoldingSteps : Goto(a, to)
      BY <2>3, ExecuteMoves
    <3>2. pc[a] \in HoldingSteps
      BY <2>3, ExecuteMoves DEF HoldingSteps
    <3>3. \A k \in Tasks : Holding(k)' = Holding(k)
      BY <3>1, <3>2 DEF Goto, Holding, TypeOK, ExecutionTypeOK
    <3>4. QED
      BY <2>3, <3>3 DEF SlotInv
  <2>4. CASE CaseReturns(a) \/ CaseErrorWritten(a)
    BY <2>4, LeaveConserves DEF CaseReturns, CaseErrorWritten
  <2>5. QED
    BY <2>1, <2>2, <2>3, <2>4 DEF RunCase
<1>5. CASE Crash
  BY <1>5 DEF Crash, SlotInv, Active, ActiveSteps
<1>6. CASE UNCHANGED vars
  BY <1>6, SlotKept DEF vars
<1>7. QED
  BY <1>1, <1>2, <1>3, <1>4, <1>5, <1>6 DEF Next

-----------------------------------------------------------------------------
(* Type correctness.                                                       *)

RunnerTypeOK ==
  /\ tick \in {"idle", "listed"}
  /\ running \in BOOLEAN
  /\ task \in [Tasks -> ActiveSteps \cup EndedSteps]
  /\ tally \in [Tasks -> CaseAggregates]
  /\ scored \in [Tasks -> [Cases -> Nat]]
  /\ permits \in [Tasks -> 0..Slots]
  /\ crashes \in 0..MaxCrashes

LEMMA TypeParts ==
  /\ TypeOK <=> StoreTypeOK /\ ApiTypeOK /\ ExecutionTypeOK /\ RunnerTypeOK
  /\ TypeOK' <=> StoreTypeOK' /\ ApiTypeOK' /\ ExecutionTypeOK' /\ RunnerTypeOK'
BY DEF TypeOK, RunnerTypeOK

LEMMA MemoryInitType == Init => TypeOK
<1> SUFFICES ASSUME Init PROVE TypeOK
  OBVIOUS
<1>1. StoreTypeOK
  BY NewRowsType DEF Init, InitStore, StoreTypeOK
<1>2. ApiTypeOK
  BY DEF Init, InitApi, ApiTypeOK, LaunchStates, RequestStates
<1>3. ExecutionTypeOK
  BY ExecutionAssumption
     DEF Init, InitExecution, ExecutionTypeOK, InnerSteps, EngineSteps
<1>4. RunnerTypeOK
  <2>1. NoAggregates \in CaseAggregates /\ NoAverages \in [Cases -> Nat]
    BY DEF CaseAggregates
  <2>2. tally \in [Tasks -> CaseAggregates] /\ scored \in [Tasks -> [Cases -> Nat]]
    BY <2>1 DEF Init
  <2>3. permits \in [Tasks -> 0..Slots] /\ crashes \in 0..MaxCrashes
    BY SlotsType, RunnerAssumption DEF Init
  <2>4. QED
    BY <2>2, <2>3 DEF Init, RunnerTypeOK, EndedSteps
<1>5. QED
  BY <1>1, <1>2, <1>3, <1>4, TypeParts

LEMMA ForgetType ==
  ASSUME TypeOK, NEW K, Forget(K)
  PROVE  /\ tally' \in [Tasks -> CaseAggregates]
         /\ scored' \in [Tasks -> [Cases -> Nat]]
         /\ permits' \in [Tasks -> 0..Slots]
<1>1. NoAggregates \in CaseAggregates /\ NoAverages \in [Cases -> Nat]
  BY DEF CaseAggregates
<1>2. QED
  BY <1>1, SlotsType DEF Forget, TypeOK

LEMMA MoveTaskType ==
  ASSUME TypeOK, NEW k \in Tasks, NEW to \in ActiveSteps \cup EndedSteps, MoveTask(k, to)
  PROVE  task' \in [Tasks -> ActiveSteps \cup EndedSteps]
BY DEF MoveTask, TypeOK

LEMMA RunTaskStoreType ==
  ASSUME TypeOK, NEW k \in Tasks, RunTask(k)
  PROVE  StoreTypeOK'
<1>0. StoreTypeOK
  BY DEF TypeOK
<1>1. CASE UNCHANGED db
  BY <1>0, <1>1, StoreUnchangedType
<1>2. CASE MarkStarted(k)
  BY <1>0, <1>2, UpdateRunStateType, CreateRunEventType DEF MarkStarted, RunStates
<1>3. CASE PrepareFails(k)
  <2>1. [NoAggregates EXCEPT !.execution_errors = TotalCases] \in CaseAggregates
    BY CasesAssumption, FS_CardinalityType DEF TotalCases, CaseAggregates
  <2>2. QED
    BY <1>0, <1>1, <1>3, <2>1, UpdateRunAggregatesType
       DEF PrepareFails, RunStates, RunVerdicts
<1>4. CASE Finalize(k)
  <2>1. tally[k] \in CaseAggregates /\ scored[k] \in [Cases -> Nat]
    BY DEF TypeOK
  <2>2. \/ UNCHANGED db
        \/ UpdateRunAggregates(tally[k], FinalVerdict(tally[k]), "completed", scored[k])
        \/ CreateRunEvent("run_completed")
    BY <1>4 DEF Finalize, db
  <2>3. QED
    BY <1>0, <1>1, <2>1, <2>2, FinalVerdictType, UpdateRunAggregatesType, CreateRunEventType
       DEF RunStates
<1>5. CASE HandleException(k)
  <2>1. NoAggregates \in CaseAggregates /\ NoAverages \in [Cases -> Nat]
    BY DEF CaseAggregates
  <2>2. \/ UNCHANGED db
        \/ UpdateRunAggregates(NoAggregates, "failed", "error", NoAverages)
    BY <1>5 DEF HandleException
  <2>3. QED
    BY <1>0, <1>1, <2>1, <2>2, UpdateRunAggregatesType DEF RunStates, RunVerdicts
<1>6. QED
  BY <1>1, <1>2, <1>3, <1>4, <1>5
     DEF RunTask, ListCases, GatherReturns, TaskRaises, TaskEnds

LEMMA RunTaskType ==
  ASSUME TypeOK, NEW k \in Tasks, RunTask(k)
  PROVE  TypeOK'
<1>1. StoreTypeOK' /\ ApiTypeOK'
  BY RunTaskStoreType, RunTaskMoves DEF TypeOK, ApiTypeOK
<1>2. ExecutionTypeOK'
  <2>1. CASE ListCases(k)
    BY <2>1 DEF ListCases, TypeOK, ExecutionTypeOK, EngineSteps
  <2>2. CASE ~ListCases(k)
    BY <2>2, RunTaskKeepsAttempts DEF TypeOK, ExecutionTypeOK
  <2>3. QED  BY <2>1, <2>2
<1>3. tick' \in {"idle", "listed"} /\ running' \in BOOLEAN /\ crashes' \in 0..MaxCrashes
  BY RunTaskMoves DEF TypeOK
<1>4. task' \in [Tasks -> ActiveSteps \cup EndedSteps]
  BY RunTaskMoves, MoveTaskType DEF EndedSteps
<1>5. /\ tally' \in [Tasks -> CaseAggregates]
      /\ scored' \in [Tasks -> [Cases -> Nat]]
      /\ permits' \in [Tasks -> 0..Slots]
  <2>1. CASE TaskEnds(k)
    BY <2>1, ForgetType DEF TaskEnds
  <2>2. CASE ListCases(k)
    BY <2>2, SlotsType DEF ListCases, TypeOK
  <2>3. CASE Finalize(k)
    <3>1. SummarizeCases(cases) \in CaseAggregates /\ metrics \in [Cases -> Nat]
      BY SummarizeCasesType DEF TypeOK, StoreTypeOK
    <3>2. /\ tally' = tally \/ tally' = [tally EXCEPT ![k] = SummarizeCases(cases)]
          /\ scored' = scored \/ scored' = [scored EXCEPT ![k] = metrics]
          /\ UNCHANGED permits
      BY <2>3 DEF Finalize
    <3>3. QED
      BY <3>1, <3>2 DEF TypeOK
  <2>4. CASE UNCHANGED <<tally, scored, permits>>
    BY <2>4 DEF TypeOK
  <2>5. QED
    BY <2>1, <2>2, <2>3, <2>4
       DEF RunTask, MarkStarted, PrepareFails, GatherReturns, TaskRaises, HandleException
<1>6. QED
  BY <1>1, <1>2, <1>3, <1>4, <1>5, TypeParts DEF RunnerTypeOK

LEMMA RunCaseType ==
  ASSUME TypeOK, PcInv, SlotInv, NEW a \in Attempts, RunCase(a)
  PROVE  TypeOK'
<1>0. /\ StoreTypeOK /\ ApiTypeOK /\ ExecutionTypeOK
      /\ a[1] \in Cases /\ a[2] \in Tasks
  BY DEF TypeOK, Attempts, Tasks
<1>1. CASE AcquireSlot(a)
  <2>1. StoreTypeOK' /\ ApiTypeOK'
    BY <1>0, <1>1, StoreUnchangedType DEF AcquireSlot, ApiTypeOK
  <2>2. ExecutionTypeOK'
    BY <1>0, <1>1, GotoType DEF AcquireSlot, InnerSteps
  <2>3. permits' \in [Tasks -> 0..Slots]
    <3>1. permits[a[2]] \in 0..Slots /\ permits[a[2]] > 0
      BY <1>0, <1>1 DEF AcquireSlot, TypeOK
    <3>2. permits[a[2]] - 1 \in 0..Slots
      BY <3>1, SlotsType
    <3>3. QED
      BY <1>1, <3>2 DEF AcquireSlot, TypeOK
  <2>4. QED
    BY <1>1, <2>1, <2>2, <2>3 DEF AcquireSlot, TypeOK
<1>2. CASE ExecuteAndScoreCase(a) /\ UNCHANGED runner
  BY <1>0, <1>2, ExecuteAndScoreCaseType DEF TypeOK
<1>3. CASE CaseReturns(a) \/ CaseErrorWritten(a)
  <2>1. pc[a] \in {"scored", "raised"}
    BY <1>3 DEF CaseReturns, CaseErrorWritten
  <2>2. PICK how \in {"done", "dead"} : Leave(a, how)
    BY <1>3 DEF CaseReturns, CaseErrorWritten
  <2>3. UNCHANGED db \/ UpdateCaseResult(a[1], ErrorRow)
    BY <1>3 DEF CaseReturns, CaseErrorWritten
  <2>4. StoreTypeOK' /\ ApiTypeOK'
    BY <1>0, <2>2, <2>3, NewRowsType, StoreUnchangedType, UpdateCaseResultType
       DEF Leave, ApiTypeOK
  <2>5. ExecutionTypeOK'
    BY <1>0, <2>2, GotoType DEF Leave, EngineSteps, InnerSteps
  <2>6. permits[a[2]] + 1 \in 0..Slots
    BY <2>1, HeldSlot DEF HoldingSteps
  <2>7. permits' \in [Tasks -> 0..Slots]
    BY <2>2, <2>6 DEF Leave, TypeOK
  <2>8. QED
    BY <2>2, <2>4, <2>5, <2>7 DEF Leave, TypeOK
<1>4. QED
  BY <1>1, <1>2, <1>3 DEF RunCase

LEMMA MemoryTypeStep ==
  ASSUME TypeOK, PcInv, SlotInv, [Next]_vars
  PROVE  TypeOK'
<1>1. CASE ApiStep /\ UNCHANGED <<execution, runner>>
  BY <1>1, ApiRowsType DEF TypeOK, ExecutionTypeOK
<1>2. CASE Tick
  <2>1. StoreTypeOK' /\ ApiTypeOK' /\ ExecutionTypeOK'
    BY <1>2, StoreUnchangedType
       DEF Tick, ListPendingRuns, CreateTask, TypeOK, ApiTypeOK, ExecutionTypeOK
  <2>2. task' \in [Tasks -> ActiveSteps \cup EndedSteps]
    BY <1>2, MoveTaskType DEF Tick, ListPendingRuns, CreateTask, TypeOK, ActiveSteps
  <2>3. QED
    BY <1>2, <2>1, <2>2 DEF Tick, ListPendingRuns, CreateTask, TypeOK
<1>3. CASE \E k \in Tasks : RunTask(k)
  BY <1>3, RunTaskType
<1>4. CASE \E a \in Attempts : RunCase(a)
  BY <1>4, RunCaseType
<1>5. CASE Crash
  <2>1. StoreTypeOK' /\ ApiTypeOK'
    BY <1>5, StoreUnchangedType DEF Crash, TypeOK, ApiTypeOK
  <2>2. ExecutionTypeOK'
    BY <1>5, ExecutionAssumption DEF Crash, TypeOK, ExecutionTypeOK, EngineSteps
  <2>3. crashes' \in 0..MaxCrashes
    BY <1>5, RunnerAssumption DEF Crash, TypeOK
  <2>4. task' \in [Tasks -> ActiveSteps \cup EndedSteps]
    BY <1>5 DEF Crash, TypeOK, EndedSteps
  <2>5. tick' \in {"idle", "listed"} /\ running' \in BOOLEAN
    BY <1>5 DEF Crash
  <2>6. RunnerTypeOK'
    BY <1>5, <2>3, <2>4, <2>5, ForgetType DEF Crash, RunnerTypeOK
  <2>7. QED
    BY <2>1, <2>2, <2>6, TypeParts
<1>6. CASE UNCHANGED vars
  BY <1>6, StoreUnchangedType DEF vars, TypeOK, ApiTypeOK, ExecutionTypeOK
<1>7. QED
  BY <1>1, <1>2, <1>3, <1>4, <1>5, <1>6 DEF Next

EngineInv == TypeOK /\ TaskInv /\ PcInv /\ SlotInv

LEMMA EngineInvariant == Spec => []EngineInv
<1>1. Init => EngineInv
  <2> SUFFICES ASSUME Init PROVE EngineInv
    OBVIOUS
  <2>1. \A k \in Tasks : task[k] = "none"
    BY DEF Init
  <2>2. \A a \in Attempts : pc[a] = "idle"
    BY DEF Init, InitExecution
  <2>3. TaskInv /\ PcInv /\ SlotInv
    BY <2>1, <2>2 DEF TaskInv, PcInv, SlotInv, Active, ActiveSteps
  <2>4. QED
    BY <2>3, MemoryInitType DEF EngineInv
<1>2. EngineInv /\ [Next]_vars => EngineInv'
  BY MemoryTypeStep, TaskStep, PcStep, SlotStep DEF EngineInv
<1>3. QED
  BY <1>1, <1>2, PTL DEF Spec

(* Every column, counter and step of the polling engine stays in its       *)
(* domain; a semaphore never has more permits than it was created with,    *)
(* although each coroutine gives one back, also when it raised.            *)
THEOREM MemoryTypeCorrect == Spec => []TypeOK
<1>1. EngineInv => TypeOK
  BY DEF EngineInv
<1>2. QED
  BY <1>1, EngineInvariant, PTL

LEMMA InFlightIsHeld ==
  ASSUME EngineInv
  PROVE  \/ InFlight = {} /\ \A a \in Attempts : pc[a] \in {"idle", "done", "dead"}
         \/ \E k \in Tasks : task[k] = "gather" /\ InFlight = Holding(k)
<1>1. CASE \E k \in Tasks : task[k] = "gather"
  <2>1. PICK k \in Tasks : task[k] = "gather"
    BY <1>1
  <2>2. \A j \in Tasks : task[j] = "gather" => j = k
    BY <2>1, OnlyOneActive DEF EngineInv, Active, ActiveSteps
  <2>3. \A a \in Attempts : pc[a] \in HoldingSteps => a[2] = k
    BY <2>2 DEF EngineInv, PcInv, Attempts, Tasks, HoldingSteps, InnerSteps
  <2>4. InFlight = Holding(k)
    BY <2>3 DEF InFlight, Holding, HoldingSteps
  <2>5. QED
    BY <2>1, <2>4
<1>2. CASE \A k \in Tasks : task[k] # "gather"
  <2>1. \A a \in Attempts : pc[a] \in {"idle", "done", "dead"}
    BY <1>2 DEF EngineInv, PcInv, Attempts, Tasks
  <2>2. InFlight = {}
    BY <2>1 DEF InFlight, InnerSteps
  <2>3. QED
    BY <2>1, <2>2
<1>3. QED
  BY <1>1, <1>2

(* However late a tick acts on what it queried, a run has one task at a    *)
(* time, and never more coroutines in flight than max(1, max_concurrency). *)
THEOREM OneExecutionHolds == Spec => []OneExecution
<1>1. EngineInv => OneExecution
  <2> SUFFICES ASSUME EngineInv PROVE OneExecution
    OBVIOUS
  <2>1. \A j, k \in Tasks : Active(j) /\ Active(k) => j = k
    BY OnlyOneActive DEF EngineInv
  <2>2. Cardinality(InFlight) <= Slots
    <3>1. CASE InFlight = {}
      BY <3>1, FS_EmptySet, SlotsType
    <3>2. CASE \E k \in Tasks : task[k] = "gather" /\ InFlight = Holding(k)
      <4>1. PICK k \in Tasks : task[k] = "gather" /\ InFlight = Holding(k)
        BY <3>2
      <4>2. permits[k] + Cardinality(Holding(k)) = Slots /\ permits[k] \in 0..Slots
        BY <4>1 DEF EngineInv, SlotInv, TypeOK
      <4>3. Cardinality(Holding(k)) \in Nat
        BY HoldingFinite
      <4>4. QED
        BY <4>1, <4>2, <4>3, SlotsType
    <3>3. QED
      BY <3>1, <3>2, InFlightIsHeld
  <2>3. QED
    BY <2>1, <2>2 DEF OneExecution
<1>2. QED
  BY <1>1, EngineInvariant, PTL
-----------------------------------------------------------------------------
(* Who writes the row of the run, and when.                                *)

LEMMA ApiRunWrites ==
  ASSUME ApiStep
  PROVE  \/ UNCHANGED run
         \/ launch = "new" /\ run' = NewRun("pending") /\ UNCHANGED <<cases, metrics>>
         \/ launch # "new" /\ DeleteRun
         \/ launch # "new" /\ UpdateRunState("cancelled")
BY DEF ApiStep, StartRun, StartRunCreatesCase, StartRunFails, CancelChecks, CancelWrites,
       DeleteChecks, DeleteWrites, CreateRun, CreateCase, db

LEMMA RunCaseKeepsRun ==
  ASSUME NEW a \in Attempts, RunCase(a)
  PROVE  UNCHANGED run
BY DEF RunCase, AcquireSlot, CaseReturns, CaseErrorWritten, ExecuteAndScoreCase,
       MarkCaseRunning, AgentFails, WriteCaseResult, ClearMetrics, InsertMetric,
       EmitCaseEvent, ExecutionRaises, UpdateCaseResult, CreateCaseEvent,
       DeleteMetricsByCase, CreateMetricResult, db

LEMMA RunTaskKeepsCases ==
  ASSUME NEW k \in Tasks, RunTask(k)
  PROVE  UNCHANGED <<cases, metrics>>
BY DEF RunTask, MarkStarted, PrepareFails, ListCases, GatherReturns, Finalize, TaskRaises,
       HandleException, TaskEnds, UpdateRunState, UpdateRunAggregates, CreateRunEvent, db

(* Nothing has happened before start_run.                                  *)
NewInv ==
  launch = "new" => run.state = "none" /\ tick = "idle" /\ \A k \in Tasks : task[k] = "none"

LEMMA NewStep ==
  ASSUME TypeOK, NewInv, [Next]_vars
  PROVE  NewInv'
<1>1. CASE ApiStep /\ UNCHANGED <<execution, runner>>
  <2>1. launch' # "new" \/ UNCHANGED <<launch, run>>
    BY <1>1 DEF ApiStep, StartRun, StartRunCreatesCase, StartRunFails, CancelChecks,
                CancelWrites, DeleteChecks, DeleteWrites
  <2>2. QED
    BY <1>1, <2>1 DEF NewInv
<1>2. CASE Tick
  <2>1. launch # "new" /\ UNCHANGED launch
    BY <1>2 DEF Tick, ListPendingRuns, CreateTask, NewInv
  <2>2. QED
    BY <2>1 DEF NewInv
<1>3. CASE \E k \in Tasks : RunTask(k)
  <2>1. launch # "new" /\ UNCHANGED launch
    BY <1>3, RunTaskMoves DEF NewInv, Active, ActiveSteps
  <2>2. QED
    BY <2>1 DEF NewInv
<1>4. CASE \E a \in Attempts : RunCase(a)
  BY <1>4, RunCaseKeepsTasks, RunCaseKeepsRun DEF NewInv
<1>5. CASE Crash
  BY <1>5 DEF Crash, NewInv, db, Active, ActiveSteps
<1>6. CASE UNCHANGED vars
  BY <1>6 DEF vars, db, NewInv
<1>7. QED
  BY <1>1, <1>2, <1>3, <1>4, <1>5, <1>6 DEF Next

(* From the first write of a task to its last, the run does not read as    *)
(* ended: only the task that executes it can end it.                       *)
BusySteps == {"event_started", "prepare", "unprepared", "gather", "tally", "metrics", "write"}

BusyInv == \A k \in Tasks : task[k] \in BusySteps => run.state \notin {"completed", "error"}

LEMMA BusyStep ==
  ASSUME EngineInv, BusyInv, [Next]_vars
  PROVE  BusyInv'
<1>0. TypeOK /\ TaskInv /\ StoreTypeOK
  BY DEF EngineInv, TypeOK
<1>1. CASE ApiStep /\ UNCHANGED <<execution, runner>>
  <2>1. run'.state \in {run.state, "pending", "none", "cancelled"}
    <3>1. NewRun("pending").state = "pending" /\ NoRun.state = "none"
      BY DEF NewRun, NoRun
    <3>2. UpdateRunState("cancelled") => run'.state \in {run.state, "cancelled"}
      BY <1>0 DEF UpdateRunState, StoreTypeOK, RunRows
    <3>3. QED
      BY <1>1, <3>1, <3>2, ApiRunWrites DEF DeleteRun
  <2>2. QED
    BY <1>1, <2>1 DEF BusyInv
<1>2. CASE Tick
  BY <1>0, <1>2 DEF Tick, ListPendingRuns, CreateTask, MoveTask, BusyInv, BusySteps, TypeOK, db
<1>3. CASE \E k \in Tasks : RunTask(k)
  <2>1. PICK k \in Tasks : RunTask(k)
    BY <1>3
  <2>2. \A j \in Tasks : j # k => task'[j] = task[j] /\ task[j] \notin BusySteps
    <3>1. \A j \in Tasks : j # k => task'[j] = task[j]
      BY <1>0, <2>1, RunTaskMoves DEF MoveTask, TypeOK
    <3>2. \A j \in Tasks : j # k => ~Active(j)
      BY <1>0, <2>1, RunTaskMoves, OnlyOneActive
    <3>3. QED
      BY <3>1, <3>2 DEF Active, ActiveSteps, BusySteps
  <2>3. task'[k] \in BusySteps => run'.state \notin {"completed", "error"}
    <3> USE <1>0 DEF BusySteps, BusyInv, MoveTask, TypeOK
    <3>1. CASE MarkStarted(k)
      BY <3>1 DEF MarkStarted, UpdateRunState, CreateRunEvent, RunExists, StoreTypeOK, RunRows
    <3>2. CASE PrepareFails(k)
      BY <3>2 DEF PrepareFails, db
    <3>3. CASE ListCases(k) \/ GatherReturns(k) \/ TaskRaises(k)
      BY <3>3 DEF ListCases, GatherReturns, TaskRaises, db
    <3>4. CASE Finalize(k)
      BY <3>4 DEF Finalize, db
    <3>5. CASE HandleException(k) \/ TaskEnds(k)
      BY <3>5 DEF HandleException, TaskEnds
    <3>6. QED
      BY <2>1, <3>1, <3>2, <3>3, <3>4, <3>5 DEF RunTask
  <2>4. QED
    BY <2>2, <2>3 DEF BusyInv
<1>4. CASE \E a \in Attempts : RunCase(a)
  BY <1>4, RunCaseKeepsTasks, RunCaseKeepsRun DEF BusyInv
<1>5. CASE Crash
  BY <1>5 DEF Crash, BusyInv, db, BusySteps, Active, ActiveSteps
<1>6. CASE UNCHANGED vars
  BY <1>6 DEF vars, db, BusyInv
<1>7. QED
  BY <1>1, <1>2, <1>3, <1>4, <1>5, <1>6 DEF Next

RowInv == EngineInv /\ NewInv /\ BusyInv

LEMMA RowInvariant == Spec => []RowInv
<1>1. Init => NewInv /\ BusyInv
  BY DEF Init, InitStore, NoRun, NewRun, NewInv, BusyInv, BusySteps
<1>2. EngineInv /\ NewInv /\ BusyInv /\ [Next]_vars => NewInv' /\ BusyInv'
  BY NewStep, BusyStep DEF EngineInv
<1>3. QED
  BY <1>1, <1>2, EngineInvariant, PTL DEF Spec, RowInv

(* While a coroutine is not over, its task is in the gather and the run    *)
(* has not ended.                                                          *)
LEMMA QuietWhenEnded ==
  ASSUME RowInv, run.state \in {"completed", "error"}
  PROVE  InFlight = {} /\ \A a \in Attempts : pc[a] \in {"idle", "done", "dead"}
BY InFlightIsHeld DEF RowInv, BusyInv, BusySteps

(* No crash, failing call, request or second task makes a run read         *)
(* completed or in error while a coroutine of it is in flight.             *)
THEOREM MemoryNoEarlyEndingHolds == Spec => []NoEarlyEnding
<1>1. RowInv => NoEarlyEnding
  BY QuietWhenEnded DEF NoEarlyEnding
<1>2. QED
  BY <1>1, RowInvariant, PTL
-----------------------------------------------------------------------------
(* The figures of the run are those of its rows.                           *)

(* What stands for a case that has no row yet.                             *)
NoneInv == \A c \in Cases : cases[c].status = "none" => cases[c] = NoCase

LEMMA NoneKept ==
  ASSUME NoneInv, UNCHANGED cases
  PROVE  NoneInv'
BY DEF NoneInv

LEMMA NoneUpdated ==
  ASSUME TypeOK, NoneInv, NEW c \in Cases, NEW row, row.status # "none",
         UpdateCaseResult(c, row)
  PROVE  NoneInv'
BY DEF NoneInv, UpdateCaseResult, TypeOK, StoreTypeOK

LEMMA NoneStep ==
  ASSUME TypeOK, NoneInv, [Next]_vars
  PROVE  NoneInv'
<1>1. CASE ApiStep /\ UNCHANGED <<execution, runner>>
  <2>1. CASE \E c \in Cases : StartRunCreatesCase(c)
    BY <2>1 DEF StartRunCreatesCase, CreateCase, NoneInv, NewCase, TypeOK, StoreTypeOK
  <2>2. CASE \E r \in Deletes : DeleteWrites(r)
    BY <2>2 DEF DeleteWrites, DeleteRun, NoneInv
  <2>3. CASE UNCHANGED cases
    BY <2>3, NoneKept
  <2>4. QED
    BY <1>1, <2>1, <2>2, <2>3
       DEF ApiStep, StartRun, StartRunFails, CancelChecks, CancelWrites, DeleteChecks,
           CreateRun, UpdateRunState, db
<1>2. CASE Tick \/ Crash \/ UNCHANGED vars
  BY <1>2, NoneKept DEF Tick, ListPendingRuns, CreateTask, Crash, vars, db
<1>3. CASE \E k \in Tasks : RunTask(k)
  BY <1>3, RunTaskKeepsCases, NoneKept
<1>4. CASE \E a \in Attempts : RunCase(a)
  <2>1. PICK a \in Attempts : RunCase(a)
    BY <1>4
  <2>2. a[1] \in Cases
    BY DEF Attempts
  <2>3. \/ UNCHANGED cases
        \/ \E row \in {ErrorRow, RunningRow} \cup {CompletedRow(r) : r \in Results} :
             UpdateCaseResult(a[1], row)
    BY <2>1 DEF RunCase, AcquireSlot, CaseReturns, CaseErrorWritten, ExecuteAndScoreCase,
                MarkCaseRunning, AgentFails, WriteCaseResult, ClearMetrics, InsertMetric,
                EmitCaseEvent, ExecutionRaises, CreateCaseEvent, DeleteMetricsByCase,
                CreateMetricResult, db
  <2>4. \A row \in {ErrorRow, RunningRow} \cup {CompletedRow(r) : r \in Results} :
          row.status # "none"
    BY DEF ErrorRow, RunningRow, CompletedRow
  <2>5. QED
    BY <2>2, <2>3, <2>4, NoneKept, NoneUpdated
<1>5. QED
  BY <1>1, <1>2, <1>3, <1>4 DEF Next

(* A case row that start_run inserts late counts for nothing in a tally.   *)
LEMMA LateCaseNotCounted ==
  ASSUME TypeOK, NoneInv, NEW c \in Cases, ~CaseExists(c), CreateCase(c)
  PROVE  SummarizeCases(cases') = SummarizeCases(cases)
<1>1. \A d \in Cases : /\ cases'[d].verdict = cases[d].verdict
                       /\ cases'[d].outcome = cases[d].outcome
                       /\ cases'[d].scoring_errors = cases[d].scoring_errors
                       /\ cases'[d].status \in {"completed", "error"}
                            <=> cases[d].status \in {"completed", "error"}
  <2>1. cases[c] = NoCase
    BY DEF CaseExists, NoneInv
  <2>2. \A d \in Cases : cases'[d] = IF d = c THEN NewCase("pending") ELSE cases[d]
    BY DEF CreateCase, TypeOK, StoreTypeOK
  <2>3. /\ NewCase("pending").verdict = NoCase.verdict
        /\ NewCase("pending").outcome = NoCase.outcome
        /\ NewCase("pending").scoring_errors = NoCase.scoring_errors
        /\ NewCase("pending").status = "pending" /\ NoCase.status = "none"
    BY DEF NewCase, NoCase
  <2>4. QED
    BY <2>1, <2>2, <2>3
<1>2. \A v : {d \in Cases : cases'[d].verdict = v} = {d \in Cases : cases[d].verdict = v}
  BY <1>1
<1>3. {d \in Cases : cases'[d].outcome = "execution_error"}
        = {d \in Cases : cases[d].outcome = "execution_error"}
  BY <1>1
<1>4. {d \in Cases : cases'[d].scoring_errors} = {d \in Cases : cases[d].scoring_errors}
  BY <1>1
<1>5. {d \in Cases : cases'[d].status \in {"completed", "error"}}
        = {d \in Cases : cases[d].status \in {"completed", "error"}}
  BY <1>1
<1>6. QED
  BY <1>2, <1>3, <1>4, <1>5 DEF SummarizeCases

(* What the task that ends the run has read is still what the rows hold.   *)
FiguresInv ==
  /\ \A k \in Tasks : task[k] \in {"metrics", "write"} /\ RunExists
       => tally[k] = SummarizeCases(cases)
  /\ \A k \in Tasks : task[k] = "write" /\ RunExists => scored[k] = metrics
  /\ CompletedFiguresAreTrue

(* Only the step of the ending itself and the rows can disturb it.         *)
LEMMA FiguresKept ==
  ASSUME FiguresInv,
         SummarizeCases(cases') = SummarizeCases(cases), UNCHANGED metrics,
         RunExists' => RunExists,
         run'.state = "completed" => UNCHANGED run,
         \A k \in Tasks : task'[k] \in {"metrics", "write"} =>
           task'[k] = task[k] /\ tally'[k] = tally[k] /\ scored'[k] = scored[k]
  PROVE  FiguresInv'
<1>1. SummarizeCases(cases)' = SummarizeCases(cases)
  BY DEF SummarizeCases
<1>2. CompletedFiguresAreTrue'
  BY <1>1 DEF FiguresInv, CompletedFiguresAreTrue
<1>3. QED
  BY <1>1, <1>2 DEF FiguresInv

LEMMA ErrorWritten ==
  ASSUME StoreTypeOK, NEW agg, NEW averaged,
         UpdateRunAggregates(agg, "failed", "error", averaged)
  PROVE  /\ RunExists' => RunExists
         /\ (~RunExists /\ UNCHANGED run) \/ run'.state = "error"
<1>1. CASE RunExists
  BY <1>1, AggregatesWritten
<1>2. CASE ~RunExists
  BY <1>2 DEF UpdateRunAggregates, RunExists
<1>3. QED
  BY <1>1, <1>2

LEMMA FiguresRunTask ==
  ASSUME RowInv, FiguresInv, NEW k \in Tasks, RunTask(k)
  PROVE  FiguresInv'
<1>0. TypeOK /\ TaskInv /\ StoreTypeOK
  BY DEF RowInv, EngineInv, TypeOK
<1>1. UNCHANGED <<cases, metrics>>
  BY RunTaskKeepsCases
<1>2. \A j \in Tasks : j # k => task'[j] = task[j] /\ task[j] \notin {"metrics", "write"}
  <2>1. \A j \in Tasks : j # k => task'[j] = task[j]
    BY <1>0, RunTaskMoves DEF MoveTask, TypeOK
  <2>2. \A j \in Tasks : j # k => ~Active(j)
    BY <1>0, RunTaskMoves, OnlyOneActive
  <2>3. QED
    BY <2>1, <2>2 DEF Active, ActiveSteps
<1>3. SummarizeCases(cases') = SummarizeCases(cases)
  BY <1>1
<1>4. CASE task'[k] \notin {"metrics", "write"} /\ (run'.state = "completed" => UNCHANGED run)
           /\ (RunExists' => RunExists)
  BY <1>1, <1>2, <1>3, <1>4, FiguresKept
<1>5. CASE Finalize(k)
  <2> USE <1>0 DEF MoveTask, TypeOK
  <2>1. CASE task[k] = "tally"
    <3>1. task'[k] = "metrics" /\ tally'[k] = SummarizeCases(cases) /\ UNCHANGED run
      BY <1>5, <2>1 DEF Finalize, db
    <3>2. SummarizeCases(cases)' = SummarizeCases(cases)
      BY <1>1 DEF SummarizeCases
    <3>3. QED
      BY <1>1, <1>2, <3>1, <3>2 DEF FiguresInv, CompletedFiguresAreTrue, RunExists
  <2>2. CASE task[k] = "metrics"
    <3>1. task'[k] = "write" /\ scored'[k] = metrics /\ tally'[k] = tally[k] /\ UNCHANGED run
      BY <1>5, <2>2 DEF Finalize, db
    <3>2. SummarizeCases(cases)' = SummarizeCases(cases)
      BY <1>1 DEF SummarizeCases
    <3>3. QED
      BY <1>1, <1>2, <2>2, <3>1, <3>2 DEF FiguresInv, CompletedFiguresAreTrue, RunExists
  <2>3. CASE task[k] = "write"
    <3>1. task'[k] = "event_completed"
      BY <1>5, <2>3 DEF Finalize
    <3>2. UpdateRunAggregates(tally[k], FinalVerdict(tally[k]), "completed", scored[k])
      BY <1>5, <2>3 DEF Finalize
    <3>3. SummarizeCases(cases)' = SummarizeCases(cases)
      BY <1>1 DEF SummarizeCases
    <3>4. CASE RunExists
      <4>1. tally[k] = SummarizeCases(cases) /\ scored[k] = metrics
        BY <2>3, <3>4 DEF FiguresInv
      <4>2. /\ run'.agg = tally[k]
            /\ run'.verdict = FinalVerdict(tally[k])
            /\ run'.averaged = scored[k]
        BY <3>2, <3>4 DEF UpdateRunAggregates, StoreTypeOK, RunRows
      <4>3. CompletedFiguresAreTrue'
        BY <1>1, <3>3, <4>1, <4>2 DEF CompletedFiguresAreTrue, FinalVerdict
      <4>4. QED
        BY <1>2, <3>1, <4>3 DEF FiguresInv
    <3>5. CASE ~RunExists
      <4>1. UNCHANGED run
        BY <3>2, <3>5 DEF UpdateRunAggregates
      <4>2. QED
        BY <1>2, <3>1, <3>5, <4>1 DEF FiguresInv, CompletedFiguresAreTrue, RunExists
    <3>6. QED  BY <3>4, <3>5
  <2>4. CASE task[k] = "event_completed"
    BY <1>4, <1>5, <2>4 DEF Finalize, CreateRunEvent, RunExists
  <2>5. QED
    BY <1>5, <2>1, <2>2, <2>3, <2>4 DEF Finalize
<1>6. CASE ~Finalize(k)
  <2> USE <1>0 DEF MoveTask, TypeOK
  <2>1. CASE MarkStarted(k)
    BY <1>4, <2>1 DEF MarkStarted, UpdateRunState, CreateRunEvent, RunExists, StoreTypeOK, RunRows
  <2>2. CASE PrepareFails(k)
    <3>1. task'[k] \notin {"metrics", "write"}
      BY <2>2 DEF PrepareFails
    <3>2. \/ UNCHANGED run
          \/ UpdateRunAggregates([NoAggregates EXCEPT !.execution_errors = TotalCases],
                                 "failed", "error", NoAverages)
      BY <2>2 DEF PrepareFails, db
    <3>3. QED
      BY <1>4, <3>1, <3>2, ErrorWritten DEF RunExists
  <2>3. CASE HandleException(k)
    <3>1. task'[k] \notin {"metrics", "write"}
      BY <2>3 DEF HandleException
    <3>2. UNCHANGED run \/ UpdateRunAggregates(NoAggregates, "failed", "error", NoAverages)
      BY <2>3 DEF HandleException, db
    <3>3. QED
      BY <1>4, <3>1, <3>2, ErrorWritten DEF RunExists
  <2>4. CASE ListCases(k) \/ GatherReturns(k) \/ TaskRaises(k) \/ TaskEnds(k)
    BY <1>4, <2>4 DEF ListCases, GatherReturns, TaskRaises, TaskEnds, RunExists, db
  <2>5. QED
    BY <1>6, <2>1, <2>2, <2>3, <2>4 DEF RunTask
<1>7. QED
  BY <1>5, <1>6

LEMMA FiguresStep ==
  ASSUME RowInv, NoneInv, FiguresInv, [Next]_vars
  PROVE  FiguresInv'
<1>0. TypeOK /\ TaskInv /\ PcInv /\ StoreTypeOK
  BY DEF RowInv, EngineInv, TypeOK
<1>1. CASE ApiStep /\ UNCHANGED <<execution, runner>>
  <2>1. CASE UNCHANGED run
    <3>1. CASE UNCHANGED cases /\ UNCHANGED metrics
      <4>1. SummarizeCases(cases') = SummarizeCases(cases)
        BY <3>1
      <4>2. QED
        BY <1>1, <2>1, <3>1, <4>1, FiguresKept DEF RunExists
    <3>2. CASE \E c \in Cases : ~CaseExists(c) /\ CreateCase(c)
      <4>1. SummarizeCases(cases') = SummarizeCases(cases)
        BY <1>0, <3>2, LateCaseNotCounted
      <4>2. UNCHANGED metrics
        BY <3>2 DEF CreateCase
      <4>3. QED
        BY <1>1, <2>1, <4>1, <4>2, FiguresKept DEF RunExists
    <3>3. CASE DeleteRun
      BY <1>1, <2>1, <3>3 DEF DeleteRun, FiguresInv, CompletedFiguresAreTrue, NoRun, NewRun,
                              RunExists
    <3>4. QED
      BY <1>1, <3>1, <3>2, <3>3
         DEF ApiStep, StartRun, StartRunCreatesCase, StartRunFails, CancelChecks,
             CancelWrites, DeleteChecks, DeleteWrites, CreateRun, UpdateRunState, db
  <2>2. CASE launch = "new" /\ run' = NewRun("pending")
    <3>1. \A k \in Tasks : task'[k] = "none"
      BY <1>1, <2>2 DEF RowInv, NewInv
    <3>2. run'.state = "pending"
      BY <2>2 DEF NewRun
    <3>3. QED
      BY <3>1, <3>2 DEF FiguresInv, CompletedFiguresAreTrue
  <2>3. CASE DeleteRun
    BY <2>3 DEF DeleteRun, FiguresInv, CompletedFiguresAreTrue, NoRun, NewRun, RunExists
  <2>4. CASE UpdateRunState("cancelled")
    <3>1. UNCHANGED <<cases, metrics>>
      BY <2>4 DEF UpdateRunState
    <3>2. SummarizeCases(cases') = SummarizeCases(cases)
      BY <3>1
    <3>3. (RunExists' => RunExists) /\ (run'.state = "completed" => UNCHANGED run)
      BY <1>0, <2>4 DEF UpdateRunState, RunExists, StoreTypeOK, RunRows
    <3>4. QED
      BY <1>1, <3>1, <3>2, <3>3, FiguresKept
  <2>5. QED
    BY <1>1, <2>1, <2>2, <2>3, <2>4, ApiRunWrites
<1>2. CASE Tick \/ Crash \/ UNCHANGED vars
  <2>1. UNCHANGED db
    BY <1>2 DEF Tick, ListPendingRuns, CreateTask, Crash, vars
  <2>2. SummarizeCases(cases') = SummarizeCases(cases)
    BY <2>1 DEF db
  <2>3. \A k \in Tasks : task'[k] \in {"metrics", "write"} =>
          task'[k] = task[k] /\ tally'[k] = tally[k] /\ scored'[k] = scored[k]
    <3>1. CASE Tick
      BY <1>0, <3>1 DEF Tick, ListPendingRuns, CreateTask, MoveTask, TypeOK
    <3>2. CASE Crash
      BY <3>2 DEF Crash, Active, ActiveSteps
    <3>3. CASE UNCHANGED vars
      BY <3>3 DEF vars
    <3>4. QED  BY <1>2, <3>1, <3>2, <3>3
  <2>4. QED
    BY <2>1, <2>2, <2>3, FiguresKept DEF db, RunExists
<1>3. CASE \E k \in Tasks : RunTask(k)
  BY <1>3, FiguresRunTask
<1>4. CASE \E a \in Attempts : RunCase(a)
  <2>1. PICK a \in Attempts : RunCase(a)
    BY <1>4
  <2>2. UNCHANGED <<run, task, tally, scored>>
    BY <2>1, RunCaseKeepsTasks, RunCaseKeepsRun
  <2>3. a[2] \in Tasks /\ task[a[2]] = "gather"
    BY <1>0, <2>1, RunCaseKeepsTasks DEF PcInv, Attempts, Tasks, HoldingSteps, InnerSteps
  <2>4. \A k \in Tasks : task[k] \notin {"metrics", "write"}
    BY <1>0, <2>3, OnlyOneActive DEF Active, ActiveSteps
  <2>5. run.state # "completed"
    BY <2>3 DEF RowInv, BusyInv, BusySteps
  <2>6. QED
    BY <2>2, <2>4, <2>5 DEF FiguresInv, CompletedFiguresAreTrue
<1>5. QED
  BY <1>1, <1>2, <1>3, <1>4 DEF Next

(* The counters, the verdict and the averages of a completed run are those *)
(* of its rows and stay so: through crashes, second tasks, cancellations,  *)
(* deletes, and cases start_run inserts after the run was completed.       *)
THEOREM CompletedFiguresAreTrueHolds == Spec => []CompletedFiguresAreTrue
<1>1. Init => NoneInv /\ FiguresInv
  BY DEF Init, InitStore, NoneInv, FiguresInv, CompletedFiguresAreTrue, NoRun, NewRun
<1>2. TypeOK /\ RowInv /\ NoneInv /\ FiguresInv /\ [Next]_vars => NoneInv' /\ FiguresInv'
  BY NoneStep, FiguresStep
<1>3. FiguresInv => CompletedFiguresAreTrue
  BY DEF FiguresInv
<1>4. QED
  BY <1>1, <1>2, <1>3, RowInvariant, MemoryTypeCorrect, PTL DEF Spec
-----------------------------------------------------------------------------
(* Runs nobody executes.                                                   *)

(* A task that leaves in order leaves a run that does not read running.    *)
OrphanInv ==
  /\ OrphanedOnlyByFault
  /\ \A k \in Tasks : task[k] \in {"event_completed", "finally"} => run.state # "running"

LEMMA OrphanStep ==
  ASSUME RowInv, OrphanInv, [Next]_vars
  PROVE  OrphanInv'
<1>0. TypeOK /\ TaskInv /\ StoreTypeOK
  BY DEF RowInv, EngineInv, TypeOK
<1>1. CASE ApiStep /\ UNCHANGED <<execution, runner>>
  <2>1. run'.state \in {run.state, "pending", "none", "cancelled"}
    <3>1. NewRun("pending").state = "pending" /\ NoRun.state = "none"
      BY DEF NewRun, NoRun
    <3>2. UpdateRunState("cancelled") => run'.state \in {run.state, "cancelled"}
      BY <1>0 DEF UpdateRunState, StoreTypeOK, RunRows
    <3>3. QED
      BY <1>1, <3>1, <3>2, ApiRunWrites DEF DeleteRun
  <2>2. QED
    BY <1>1, <2>1 DEF OrphanInv, OrphanedOnlyByFault, Active
<1>2. CASE Tick
  <2>1. UNCHANGED <<run, crashes>>
    BY <1>2 DEF Tick, ListPendingRuns, CreateTask, db
  <2>2. \A k \in Tasks : \/ task'[k] = task[k]
                        \/ (task[k] = "none" /\ task'[k] = "state")
    <3>1. \/ UNCHANGED task
          \/ \E k \in Tasks : task[k] = "none" /\ MoveTask(k, "state")
      BY <1>2 DEF Tick, ListPendingRuns, CreateTask
    <3>2. QED
      BY <1>0, <3>1 DEF MoveTask, TypeOK
  <2>3. QED
    BY <2>1, <2>2 DEF OrphanInv, OrphanedOnlyByFault, Active, ActiveSteps
<1>3. CASE \E k \in Tasks : RunTask(k)
  <2>1. PICK k \in Tasks : RunTask(k)
    BY <1>3
  <2>2. Active(k) /\ UNCHANGED crashes
    BY <1>0, <2>1, RunTaskMoves
  <2>3. \A j \in Tasks : j # k => task'[j] = task[j] /\ ~Active(j)
    <3>1. \A j \in Tasks : j # k => task'[j] = task[j]
      BY <1>0, <2>1, RunTaskMoves DEF MoveTask, TypeOK
    <3>2. QED
      BY <1>0, <2>2, <3>1, OnlyOneActive
  <2>4. \/ task'[k] \in ActiveSteps \cup {"lost"}
        \/ run'.state # "running"
    <3>1. CASE TaskEnds(k)
      BY <1>0, <3>1 DEF TaskEnds, MoveTask, OrphanInv, TypeOK, db
    <3>2. CASE ~TaskEnds(k)
      BY <1>0, <2>1, <3>2
         DEF RunTask, MarkStarted, PrepareFails, ListCases, GatherReturns, Finalize,
             TaskRaises, HandleException, MoveTask, TypeOK, ActiveSteps
    <3>3. QED  BY <3>1, <3>2
  <2>5. task'[k] \in {"event_completed", "finally"} => run'.state # "running"
    <3> USE <1>0 DEF MoveTask, TypeOK
    <3>1. CASE PrepareFails(k)
      <4>1. CASE UpdateRunAggregates([NoAggregates EXCEPT !.execution_errors = TotalCases],
                                     "failed", "error", NoAverages)
        BY <1>0, <4>1, ErrorWritten DEF RunExists
      <4>2. QED
        BY <3>1, <4>1 DEF PrepareFails
    <3>2. CASE HandleException(k)
      <4>1. CASE UpdateRunAggregates(NoAggregates, "failed", "error", NoAverages)
        BY <1>0, <4>1, ErrorWritten DEF RunExists
      <4>2. QED
        BY <3>2, <4>1 DEF HandleException
    <3>3. CASE Finalize(k)
      <4>1. CASE task[k] = "write"
        <5>1. UpdateRunAggregates(tally[k], FinalVerdict(tally[k]), "completed", scored[k])
          BY <3>3, <4>1 DEF Finalize
        <5>2. CASE RunExists
          BY <5>1, <5>2, AggregatesWritten
        <5>3. CASE ~RunExists
          BY <5>1, <5>3 DEF UpdateRunAggregates, RunExists
        <5>4. QED  BY <5>2, <5>3
      <4>2. CASE task[k] = "event_completed"
        BY <3>3, <4>2 DEF Finalize, CreateRunEvent, OrphanInv
      <4>3. QED
        BY <3>3, <4>1, <4>2 DEF Finalize
    <3>4. QED
      BY <2>1, <3>1, <3>2, <3>3
         DEF RunTask, MarkStarted, ListCases, GatherReturns, TaskRaises, TaskEnds
  <2>6. \A j \in Tasks : task'[j] \in {"event_completed", "finally"} => run'.state # "running"
    BY <2>3, <2>5 DEF Active, ActiveSteps
  <2>7. OrphanedOnlyByFault'
    <3>1. CASE run'.state # "running"
      BY <3>1 DEF OrphanedOnlyByFault
    <3>2. CASE task'[k] \in ActiveSteps \cup {"lost"}
      BY <3>2 DEF OrphanedOnlyByFault, Active
    <3>3. QED  BY <2>4, <3>1, <3>2
  <2>8. QED
    BY <2>6, <2>7 DEF OrphanInv
<1>4. CASE \E a \in Attempts : RunCase(a)
  BY <1>4, RunCaseKeepsTasks, RunCaseKeepsRun DEF OrphanInv, OrphanedOnlyByFault, Active
<1>5. CASE Crash
  <2>1. crashes' > 0
    BY <1>0, <1>5, RunnerAssumption DEF Crash, TypeOK
  <2>2. \A k \in Tasks : task'[k] \notin {"event_completed", "finally"}
    BY <1>5 DEF Crash, Active, ActiveSteps
  <2>3. QED
    BY <2>1, <2>2 DEF OrphanInv, OrphanedOnlyByFault
<1>6. CASE UNCHANGED vars
  BY <1>6 DEF vars, db, OrphanInv, OrphanedOnlyByFault, Active
<1>7. QED
  BY <1>1, <1>2, <1>3, <1>4, <1>5, <1>6 DEF Next

(* A run left in running, which no tick picks up again, is the work of a   *)
(* crash or of an except clause that could not write.                      *)
THEOREM OrphanedOnlyByFaultHolds == Spec => []OrphanedOnlyByFault
<1>1. Init => OrphanInv
  BY DEF Init, InitStore, NoRun, NewRun, OrphanInv, OrphanedOnlyByFault
<1>2. RowInv /\ OrphanInv /\ [Next]_vars => OrphanInv'
  BY OrphanStep
<1>3. OrphanInv => OrphanedOnlyByFault
  BY DEF OrphanInv
<1>4. QED
  BY <1>1, <1>2, <1>3, RowInvariant, PTL DEF Spec

-----------------------------------------------------------------------------
(* The results of the cases.                                               *)

HasResult(c) == cases[c].status \in {"completed", "error"}

(* The steps after the write of a result, and those before the first write.*)
WrittenSteps == {"clear", "insert", "event_completed", "event_error", "scored"}
UntouchedSteps == {"idle", "setup", "start", "done"}

(* A coroutine exists only for a row; from its write on the row has a      *)
(* result; and so it has if the last of its coroutines that touched the    *)
(* row is done.                                                            *)
RecordOf(c) ==
  \A k \in Tasks :
    /\ pc[<<c, k>>] # "idle" => CaseExists(c)
    /\ pc[<<c, k>>] \in WrittenSteps => HasResult(c)
    /\ /\ pc[<<c, k>>] = "done"
       /\ \A j \in Tasks : j > k => pc[<<c, j>>] \in UntouchedSteps
       => HasResult(c)

RecordInv == RunExists => \A c \in Cases : RecordOf(c)

LEMMA RecordKept ==
  ASSUME RecordInv, UNCHANGED <<cases, pc>>, RunExists' => RunExists
  PROVE  RecordInv'
BY DEF RecordInv, RecordOf, HasResult, CaseExists

(* The step of a coroutine, as seen by the record of its case.             *)
LEMMA RecordOwnCase ==
  ASSUME RowInv, NEW c \in Cases, NEW k \in Tasks, RecordOf(c),
         pc[<<c, k>>] \in HoldingSteps \cup {"setup"},
         \A j \in Tasks : j # k => pc'[<<c, j>>] = pc[<<c, j>>],
         CaseExists(c) => CaseExists(c)',
         \/ HasResult(c)'
         \/ pc'[<<c, k>>] \in {"agent", "raised", "dead"}
         \/ pc[<<c, k>>] = "setup" /\ pc'[<<c, k>>] = "start" /\ UNCHANGED cases
  PROVE  RecordOf(c)'
<1>0. TaskInv /\ PcInv /\ \A j \in Tasks : <<c, j>> \in Attempts
  BY DEF RowInv, EngineInv, Attempts, Tasks
<1>1. task[k] = "gather"
  BY <1>0 DEF PcInv, HoldingSteps, InnerSteps
<1>2. \A j \in Tasks : j # k => pc[<<c, j>>] \in {"idle", "done", "dead"}
  <2>1. \A j \in Tasks : j # k => task[j] # "gather"
    BY <1>0, <1>1, OnlyOneActive DEF Active, ActiveSteps
  <2>2. QED
    BY <1>0, <2>1 DEF PcInv
<1>3. \A j \in Tasks : j > k => pc[<<c, j>>] = "idle"
  <2>1. \A j \in Tasks : k < j => task[j] = "none"
    BY <1>0, <1>1 DEF TaskInv, EndedSteps
  <2>2. QED
    BY <1>0, <2>1 DEF PcInv, FreshSteps, Tasks
<1>4. CaseExists(c)'
  BY DEF RecordOf, HoldingSteps, InnerSteps
<1>5. CASE HasResult(c)'
  BY <1>4, <1>5 DEF RecordOf
<1>6. CASE pc'[<<c, k>>] \in {"agent", "raised", "dead"}
  <2> SUFFICES ASSUME NEW j \in Tasks
               PROVE  /\ pc'[<<c, j>>] \notin WrittenSteps
                      /\ ~ /\ pc'[<<c, j>>] = "done"
                           /\ \A i \in Tasks : i > j => pc'[<<c, i>>] \in UntouchedSteps
    BY <1>4 DEF RecordOf
  <2>1. CASE j = k
    BY <1>6, <2>1 DEF WrittenSteps
  <2>2. CASE j # k
    <3>1. pc'[<<c, j>>] \notin WrittenSteps
      BY <1>2, <2>2 DEF WrittenSteps
    <3>2. pc'[<<c, j>>] = "done" => k > j
      BY <1>3, <2>2, ExecutionAssumption DEF Tasks
    <3>3. QED
      BY <1>6, <3>1, <3>2 DEF UntouchedSteps
  <2>3. QED  BY <2>1, <2>2
<1>7. CASE pc[<<c, k>>] = "setup" /\ pc'[<<c, k>>] = "start" /\ UNCHANGED cases
  <2>1. \A j \in Tasks : /\ pc'[<<c, j>>] \in UntouchedSteps <=> pc[<<c, j>>] \in UntouchedSteps
                         /\ pc'[<<c, j>>] \in WrittenSteps <=> pc[<<c, j>>] \in WrittenSteps
                         /\ pc'[<<c, j>>] = "done" <=> pc[<<c, j>>] = "done"
    BY <1>7 DEF UntouchedSteps, WrittenSteps
  <2>2. HasResult(c)' <=> HasResult(c)
    BY <1>7 DEF HasResult
  <2>3. QED
    BY <1>4, <2>1, <2>2 DEF RecordOf
<1>8. QED
  BY <1>5, <1>6, <1>7

LEMMA ResultRows ==
  /\ ErrorRow.status = "error" /\ RunningRow.status = "running"
  /\ \A r : CompletedRow(r).status = "completed"
BY DEF ErrorRow, RunningRow, CompletedRow

LEMMA ResultWritten ==
  ASSUME TypeOK, NEW c \in Cases, NEW row, UpdateCaseResult(c, row), row.status # "none"
  PROVE  /\ CaseExists(c) => CaseExists(c)' /\ cases'[c] = row
         /\ \A d \in Cases : d # c => cases'[d] = cases[d]
BY DEF UpdateCaseResult, CaseExists, TypeOK, StoreTypeOK

LEMMA RecordRunCase ==
  ASSUME RowInv, RecordInv, RunExists, NEW a \in Attempts, RunCase(a)
  PROVE  RecordInv'
<1>0. TypeOK
  BY DEF RowInv, EngineInv
<1>1. PICK c \in Cases, k \in Tasks : a = <<c, k>>
  BY DEF Attempts, Tasks
<1>2. /\ pc[a] \in HoldingSteps \cup {"setup"}
      /\ \A b \in Attempts : b # a => pc'[b] = pc[b]
  BY <1>0, RunCaseKeepsTasks, ExecuteMoves
     DEF RunCase, AcquireSlot, CaseReturns, CaseErrorWritten, Leave, Goto, TypeOK,
         ExecutionTypeOK
<1>3. CaseExists(c) /\ RecordOf(c)
  BY <1>1, <1>2 DEF RecordInv, RecordOf, HoldingSteps, InnerSteps
<1>4. \/ UNCHANGED cases
      \/ \E row : UpdateCaseResult(c, row) /\ row.status # "none"
  BY <1>1, ResultRows
     DEF RunCase, AcquireSlot, CaseReturns, CaseErrorWritten, ExecuteAndScoreCase,
         MarkCaseRunning, AgentFails, WriteCaseResult, ClearMetrics, InsertMetric,
         EmitCaseEvent, ExecutionRaises, CreateCaseEvent, DeleteMetricsByCase,
         CreateMetricResult, db
<1>5. /\ CaseExists(c)'
      /\ \A d \in Cases : d # c => cases'[d] = cases[d]
  BY <1>0, <1>3, <1>4, ResultWritten DEF CaseExists
<1>6. \/ HasResult(c)'
      \/ pc'[a] \in {"agent", "raised", "dead"}
      \/ (pc[a] = "setup" /\ pc'[a] = "start" /\ UNCHANGED cases)
  <2> USE DEF Goto, Leave, ExecutionTypeOK
  <2>0. ExecutionTypeOK
    BY <1>0 DEF TypeOK
  <2>1. CASE AcquireSlot(a)
    BY <2>0, <2>1 DEF AcquireSlot, db
  <2>2. CASE MarkCaseRunning(a) \/ ExecutionRaises(a)
    BY <2>0, <2>2 DEF MarkCaseRunning, ExecutionRaises
  <2>3. CASE AgentFails(a)
    <3>1. UpdateCaseResult(c, ErrorRow)
      BY <1>1, <2>3 DEF AgentFails
    <3>2. QED
      BY <1>0, <1>3, <3>1, ResultRows, ResultWritten DEF HasResult
  <2>4. CASE WriteCaseResult(a)
    <3>1. PICK r \in Results : UpdateCaseResult(c, CompletedRow(r))
      BY <1>1, <2>4 DEF WriteCaseResult
    <3>2. QED
      BY <1>0, <1>3, <3>1, ResultRows, ResultWritten DEF HasResult
  <2>5. CASE ClearMetrics(a) \/ InsertMetric(a) \/ EmitCaseEvent(a) \/ CaseReturns(a)
    <3>1. pc[a] \in WrittenSteps /\ UNCHANGED cases
      BY <2>5 DEF ClearMetrics, InsertMetric, EmitCaseEvent, CaseReturns, WrittenSteps,
                  DeleteMetricsByCase, CreateMetricResult, CreateCaseEvent, db
    <3>2. HasResult(c)
      BY <1>1, <1>3, <3>1 DEF RecordOf
    <3>3. QED
      BY <3>1, <3>2 DEF HasResult
  <2>6. CASE CaseErrorWritten(a)
    <3>1. CASE UpdateCaseResult(c, ErrorRow)
      BY <1>0, <1>3, <3>1, ResultRows, ResultWritten DEF HasResult
    <3>2. CASE pc' = [pc EXCEPT ![a] = "dead"]
      BY <2>0, <3>2
    <3>3. QED
      BY <1>1, <2>6, <3>1, <3>2 DEF CaseErrorWritten
  <2>7. QED
    BY <2>1, <2>2, <2>3, <2>4, <2>5, <2>6 DEF RunCase, ExecuteAndScoreCase
<1>7. RecordOf(c)'
  <2>1. \A j \in Tasks : j # k => pc'[<<c, j>>] = pc[<<c, j>>]
    BY <1>1, <1>2 DEF Attempts, Tasks
  <2>2. QED
    BY <1>1, <1>2, <1>3, <1>5, <1>6, <2>1, RecordOwnCase
<1>8. \A d \in Cases : d # c => RecordOf(d)'
  <2> SUFFICES ASSUME NEW d \in Cases, d # c PROVE RecordOf(d)'
    OBVIOUS
  <2>1. \A j \in Tasks : pc'[<<d, j>>] = pc[<<d, j>>]
    BY <1>1, <1>2 DEF Attempts, Tasks
  <2>2. RecordOf(d) /\ cases'[d] = cases[d]
    BY <1>5 DEF RecordInv
  <2>3. QED
    BY <2>1, <2>2 DEF RecordOf, HasResult, CaseExists
<1>9. QED
  BY <1>7, <1>8 DEF RecordInv

LEMMA RecordRunTask ==
  ASSUME RowInv, RecordInv, NEW k \in Tasks, RunTask(k)
  PROVE  RecordInv'
<1>0. TypeOK /\ PcInv
  BY DEF RowInv, EngineInv
<1>1. UNCHANGED cases
  BY RunTaskKeepsCases
<1>2. RunExists' => RunExists
  BY DEF RunTask, MarkStarted, PrepareFails, ListCases, GatherReturns, Finalize, TaskRaises,
         HandleException, TaskEnds, UpdateRunState, UpdateRunAggregates, CreateRunEvent,
         RunExists, db
<1>3. CASE UNCHANGED pc
  BY <1>1, <1>2, <1>3, RecordKept
<1>4. CASE ListCases(k)
  <2> SUFFICES ASSUME RunExists, NEW c \in Cases PROVE RecordOf(c)'
    BY <1>2 DEF RecordInv
  <2>1. RecordOf(c) /\ CaseExists(c)' = CaseExists(c) /\ HasResult(c)' = HasResult(c)
    BY <1>1 DEF RecordInv, CaseExists, HasResult
  <2>2. \A j \in Tasks : <<c, j>> \in Attempts
    BY DEF Attempts, Tasks
  <2>3. pc[<<c, k>>] = "idle"
    BY <1>0, <1>4, <2>2 DEF ListCases, PcInv, FreshSteps
  <2>4. \A j \in Tasks : pc'[<<c, j>>] = IF j = k /\ CaseExists(c) THEN "setup" ELSE pc[<<c, j>>]
    BY <1>4, <2>2 DEF ListCases
  <2>5. \A j \in Tasks : /\ pc'[<<c, j>>] \in UntouchedSteps <=> pc[<<c, j>>] \in UntouchedSteps
                         /\ pc'[<<c, j>>] \in WrittenSteps <=> pc[<<c, j>>] \in WrittenSteps
                         /\ pc'[<<c, j>>] = "done" <=> pc[<<c, j>>] = "done"
    BY <2>3, <2>4 DEF UntouchedSteps, WrittenSteps
  <2>6. \A j \in Tasks : pc'[<<c, j>>] # "idle" => CaseExists(c)
    BY <2>1, <2>4 DEF RecordOf
  <2>7. QED
    BY <2>1, <2>5, <2>6 DEF RecordOf
<1>5. QED
  BY <1>3, <1>4 DEF RunTask, MarkStarted, PrepareFails, GatherReturns, Finalize, TaskRaises,
                    HandleException, TaskEnds

LEMMA RecordStep ==
  ASSUME RowInv, RecordInv, [Next]_vars
  PROVE  RecordInv'
<1>0. TypeOK /\ PcInv /\ NewInv
  BY DEF RowInv, EngineInv
<1>1. CASE ApiStep /\ UNCHANGED <<execution, runner>>
  <2>1. CASE UNCHANGED cases /\ (RunExists' => RunExists)
    BY <1>1, <2>1, RecordKept
  <2>2. CASE StartRun
    <3>1. \A a \in Attempts : pc'[a] = "idle"
      BY <1>0, <1>1, <2>2 DEF StartRun, NewInv, PcInv, FreshSteps, Attempts, Tasks
    <3>2. \A c \in Cases, k \in Tasks : pc'[<<c, k>>] = "idle"
      BY <3>1 DEF Attempts, Tasks
    <3>3. QED
      BY <3>2 DEF RecordInv, RecordOf, WrittenSteps
  <2>3. ASSUME NEW c \in Cases, StartRunCreatesCase(c) PROVE RecordInv'
    <3> SUFFICES ASSUME NEW d \in Cases PROVE RecordOf(d)'
      BY DEF RecordInv
    <3>1. RunExists /\ ~CaseExists(c) /\ cases' = [cases EXCEPT ![c] = NewCase("pending")]
      BY <2>3 DEF StartRunCreatesCase, CreateCase
    <3>2. CASE d = c
      <4>1. \A k \in Tasks : pc'[<<c, k>>] = "idle"
        BY <1>1, <3>1 DEF RecordInv, RecordOf
      <4>2. QED
        BY <3>2, <4>1 DEF RecordOf, WrittenSteps
    <3>3. CASE d # c
      <4>1. cases'[d] = cases[d] /\ UNCHANGED pc /\ RecordOf(d)
        BY <1>0, <1>1, <3>1, <3>3 DEF TypeOK, StoreTypeOK, RecordInv
      <4>2. QED
        BY <4>1 DEF RecordOf, HasResult, CaseExists
    <3>4. QED  BY <3>2, <3>3
  <2>4. CASE DeleteRun
    BY <2>4 DEF DeleteRun, NoRun, NewRun, RunExists, RecordInv
  <2>5. QED
    BY <1>1, <2>1, <2>2, <2>3, <2>4
       DEF ApiStep, StartRunFails, CancelChecks, CancelWrites, DeleteChecks, DeleteWrites,
           UpdateRunState, RunExists, db
<1>2. CASE Tick \/ UNCHANGED vars
  BY <1>2, RecordKept DEF Tick, ListPendingRuns, CreateTask, vars, db, RunExists
<1>3. CASE \E k \in Tasks : RunTask(k)
  BY <1>3, RecordRunTask
<1>4. CASE \E a \in Attempts : RunCase(a)
  BY <1>4, RecordRunCase, RunCaseKeepsRun DEF RecordInv, RunExists
<1>5. CASE Crash
  <2> SUFFICES ASSUME RunExists, NEW c \in Cases PROVE RecordOf(c)'
    BY <1>5 DEF Crash, db, RunExists, RecordInv
  <2>1. /\ RecordOf(c)
        /\ CaseExists(c)' = CaseExists(c) /\ HasResult(c)' = HasResult(c)
    BY <1>5 DEF Crash, db, RecordInv, CaseExists, HasResult
  <2>2. \A k \in Tasks : pc'[<<c, k>>] = IF pc[<<c, k>>] \in {"idle", "done"}
                                         THEN pc[<<c, k>>] ELSE "dead"
    BY <1>5 DEF Crash, Attempts, Tasks
  <2>3. \A k \in Tasks : /\ pc'[<<c, k>>] \in UntouchedSteps => pc[<<c, k>>] \in UntouchedSteps
                         /\ pc'[<<c, k>>] \notin WrittenSteps
                         /\ pc'[<<c, k>>] = "done" => pc[<<c, k>>] = "done"
                         /\ pc[<<c, k>>] = "idle" => pc'[<<c, k>>] = "idle"
    BY <2>2 DEF UntouchedSteps, WrittenSteps
  <2>4. QED
    BY <2>1, <2>3 DEF RecordOf
<1>6. QED
  BY <1>1, <1>2, <1>3, <1>4, <1>5 DEF Next

(* A completed run has a result for every case whose last coroutine left   *)
(* in order, whatever the tasks before it did or lost in a crash.          *)
THEOREM CompletedRunHasResultsHolds == Spec => []CompletedRunHasResults
<1>1. Init => RecordInv
  BY DEF Init, InitStore, NoRun, NewRun, RunExists, RecordInv
<1>2. RowInv /\ RecordInv /\ [Next]_vars => RecordInv'
  BY RecordStep
<1>3. RowInv /\ RecordInv => CompletedRunHasResults
  <2> SUFFICES ASSUME RowInv, RecordInv, run.state = "completed",
                      NEW c \in Cases, NEW k \in Tasks, pc[<<c, k>>] = "done",
                      \A j \in Tasks : j > k => pc[<<c, j>>] # "dead"
               PROVE  HasResult(c)
    BY DEF CompletedRunHasResults, HasResult
  <2>1. \A j \in Tasks : pc[<<c, j>>] \in {"idle", "done", "dead"}
    BY QuietWhenEnded DEF Attempts, Tasks
  <2>2. RecordOf(c)
    BY DEF RecordInv, RunExists
  <2>3. QED
    BY <2>1, <2>2 DEF RecordOf, UntouchedSteps
<1>4. QED
  BY <1>1, <1>2, <1>3, RowInvariant, PTL DEF Spec

-----------------------------------------------------------------------------
(* The refinement of PolledLifecycle.                                      *)

(* The run is in _running only while a task executes it, and a task that   *)
(* has written an ending leaves the run with one, or gone.                 *)
ClaimInv ==
  /\ running => \E k \in Tasks : Active(k)
  /\ \A k \in Tasks : task[k] \in {"event_completed", "finally"}
                       => run.state \in {"completed", "cancelled", "error", "none"}

LEMMA ClaimedRunTask ==
  ASSUME RowInv, ClaimInv, NEW k \in Tasks, RunTask(k)
  PROVE  ClaimInv'
<1>0. TypeOK /\ TaskInv /\ StoreTypeOK
  BY DEF RowInv, EngineInv, TypeOK
<1>1. Active(k)
  BY <1>0, RunTaskMoves
<1>2. \A j \in Tasks : j # k => task'[j] = task[j] /\ ~Active(j)
  <2>1. \A j \in Tasks : j # k => task'[j] = task[j]
    BY <1>0, RunTaskMoves DEF MoveTask, TypeOK
  <2>2. QED
    BY <1>0, <1>1, <2>1, OnlyOneActive
<1>3. running' => Active(k)'
  BY <1>0, RunTaskMoves DEF MoveTask, TypeOK, Active
<1>4. task'[k] \in {"event_completed", "finally"}
        => run'.state \in {"completed", "cancelled", "error", "none"}
  <2> USE <1>0 DEF MoveTask, TypeOK
  <2>1. CASE PrepareFails(k)
    <3>1. CASE UpdateRunAggregates([NoAggregates EXCEPT !.execution_errors = TotalCases],
                                   "failed", "error", NoAverages)
      BY <1>0, <3>1, ErrorWritten DEF UpdateRunAggregates, RunExists
    <3>2. QED
      BY <2>1, <3>1 DEF PrepareFails
  <2>2. CASE HandleException(k)
    <3>1. CASE UpdateRunAggregates(NoAggregates, "failed", "error", NoAverages)
      BY <1>0, <3>1, ErrorWritten DEF UpdateRunAggregates, RunExists
    <3>2. QED
      BY <2>2, <3>1 DEF HandleException
  <2>3. CASE Finalize(k)
    <3>1. CASE task[k] = "write"
      <4>1. UpdateRunAggregates(tally[k], FinalVerdict(tally[k]), "completed", scored[k])
        BY <2>3, <3>1 DEF Finalize
      <4>2. CASE RunExists
        BY <4>1, <4>2, AggregatesWritten
      <4>3. CASE ~RunExists
        BY <4>1, <4>3 DEF UpdateRunAggregates, RunExists
      <4>4. QED  BY <4>2, <4>3
    <3>2. CASE task[k] = "event_completed"
      BY <2>3, <3>2 DEF Finalize, CreateRunEvent, ClaimInv
    <3>3. QED
      BY <2>3, <3>1, <3>2 DEF Finalize
  <2>4. QED
    BY <2>1, <2>2, <2>3
       DEF RunTask, MarkStarted, ListCases, GatherReturns, TaskRaises, TaskEnds
<1>5. QED
  BY <1>2, <1>3, <1>4 DEF ClaimInv, Active, ActiveSteps

LEMMA ClaimStep ==
  ASSUME RowInv, ClaimInv, [Next]_vars
  PROVE  ClaimInv'
<1>0. TypeOK /\ TaskInv /\ StoreTypeOK /\ NewInv
  BY DEF RowInv, EngineInv, TypeOK
<1>1. CASE ApiStep /\ UNCHANGED <<execution, runner>>
  <2>1. \A k \in Tasks : task[k] \in {"event_completed", "finally"} => launch # "new"
    BY <1>0 DEF NewInv
  <2>2. launch # "new" => run'.state \in {run.state, "none", "cancelled"}
    <3>1. NoRun.state = "none"
      BY DEF NewRun, NoRun
    <3>2. UpdateRunState("cancelled") => run'.state \in {run.state, "cancelled"}
      BY <1>0 DEF UpdateRunState, StoreTypeOK, RunRows
    <3>3. QED
      BY <1>1, <3>1, <3>2, ApiRunWrites DEF DeleteRun
  <2>3. QED
    BY <1>1, <2>1, <2>2 DEF ClaimInv, Active
<1>2. CASE Tick
  <2>1. UNCHANGED run
    BY <1>2 DEF Tick, ListPendingRuns, CreateTask, db
  <2>2. \/ UNCHANGED <<task, running>>
        \/ \E k \in Tasks : task[k] = "none" /\ MoveTask(k, "state") /\ running' = TRUE
    BY <1>2 DEF Tick, ListPendingRuns, CreateTask
  <2>3. QED
    BY <1>0, <2>1, <2>2 DEF ClaimInv, MoveTask, TypeOK, Active, ActiveSteps
<1>3. CASE \E k \in Tasks : RunTask(k)
  BY <1>3, ClaimedRunTask
<1>4. CASE \E a \in Attempts : RunCase(a)
  BY <1>4, RunCaseKeepsTasks, RunCaseKeepsRun DEF ClaimInv, Active
<1>5. CASE Crash
  BY <1>0, <1>5 DEF Crash, ClaimInv, Active, ActiveSteps
<1>6. CASE UNCHANGED vars
  BY <1>6 DEF vars, db, ClaimInv, Active
<1>7. QED
  BY <1>1, <1>2, <1>3, <1>4, <1>5, <1>6 DEF Next

LEMMA ClaimInvariant == Spec => []ClaimInv
<1>1. Init => ClaimInv
  BY DEF Init, InitStore, NoRun, NewRun, ClaimInv, Active, ActiveSteps
<1>2. RowInv /\ ClaimInv /\ [Next]_vars => ClaimInv'
  BY ClaimStep
<1>3. QED
  BY <1>1, <1>2, RowInvariant, PTL DEF Spec

(* The phase is that of the one active task.                               *)
LEMMA PhaseOfTask ==
  ASSUME TaskInv, NEW k \in Tasks, Active(k)
  PROVE  Phase = PhaseOf(task[k])
<1>1. (CHOOSE j \in Tasks : Active(j)) = k
  BY OnlyOneActive
<1>2. QED
  BY <1>1 DEF Phase

LEMMA PhaseIdle ==
  ASSUME \A k \in Tasks : ~Active(k)
  PROVE  Phase = "idle"
BY DEF Phase

LEMMA PhaseOfSteps ==
  /\ PhaseOf("state") = "starting" /\ PhaseOf("event_started") = "starting"
  /\ PhaseOf("prepare") = "starting" /\ PhaseOf("unprepared") = "failing"
  /\ PhaseOf("gather") = "executing" /\ PhaseOf("tally") = "closing"
  /\ PhaseOf("metrics") = "closing" /\ PhaseOf("write") = "closing"
  /\ PhaseOf("event_completed") = "closed" /\ PhaseOf("except") = "failing"
  /\ PhaseOf("finally") = "leaving" /\ PhaseOf("unwritten") = "lost"
BY DEF PhaseOf

(* Outside a gather no case is waiting or in flight.                       *)
LEMMA NoWork ==
  ASSUME EngineInv, \A k \in Tasks : task[k] # "gather"
  PROVE  CasesAt({"setup"}) = {} /\ CasesAt(HoldingSteps) = {}
<1>1. \A c \in Cases, k \in Tasks : pc[<<c, k>>] \in {"idle", "done", "dead"}
  BY DEF EngineInv, PcInv, Attempts, Tasks
<1>2. QED
  BY <1>1 DEF CasesAt, HoldingSteps, InnerSteps

(* In a gather they are those of its own coroutines.                       *)
LEMMA WorkOfTask ==
  ASSUME EngineInv, NEW k \in Tasks, task[k] = "gather"
  PROVE  /\ \A c \in Cases : c \in CasesAt({"setup"}) <=> pc[<<c, k>>] = "setup"
         /\ \A c \in Cases : c \in CasesAt(HoldingSteps) <=> pc[<<c, k>>] \in HoldingSteps
<1>1. \A j \in Tasks : task[j] = "gather" => j = k
  BY OnlyOneActive DEF EngineInv, Active, ActiveSteps
<1>2. \A c \in Cases, j \in Tasks : j # k => pc[<<c, j>>] \in {"idle", "done", "dead"}
  BY <1>1 DEF EngineInv, PcInv, Attempts, Tasks
<1>3. QED
  BY <1>2 DEF CasesAt, HoldingSteps, InnerSteps

(* As many cases are in flight as coroutines hold a slot.                  *)
LEMMA InFlightCounted ==
  ASSUME EngineInv, NEW k \in Tasks, task[k] = "gather"
  PROVE  Cardinality(CasesAt(HoldingSteps)) = Cardinality(Holding(k))
<1> DEFINE f == [a \in Holding(k) |-> a[1]]
<1>1. f \in Bijection(Holding(k), CasesAt(HoldingSteps))
  <2>1. \A a \in Holding(k) : a = <<a[1], k>> /\ a[1] \in Cases
    BY DEF Holding, Attempts
  <2>2. \A a \in Holding(k) : f[a] \in CasesAt(HoldingSteps)
    BY <2>1 DEF CasesAt, Holding
  <2>3. \A a, b \in Holding(k) : f[a] = f[b] => a = b
    BY <2>1
  <2>4. \A c \in CasesAt(HoldingSteps) : \E a \in Holding(k) : f[a] = c
    <3>1. SUFFICES ASSUME NEW c \in CasesAt(HoldingSteps)
                   PROVE  <<c, k>> \in Holding(k) /\ f[<<c, k>>] = c
      OBVIOUS
    <3>2. c \in Cases /\ pc[<<c, k>>] \in HoldingSteps
      BY WorkOfTask DEF CasesAt
    <3>3. <<c, k>> \in Holding(k)
      BY <3>2 DEF Holding, Attempts, Tasks
    <3>4. QED
      BY <3>3
  <2>5. QED
    BY <2>2, <2>3, <2>4, Fun_IsBij
<1>2. ExistsBijection(Holding(k), CasesAt(HoldingSteps))
  BY <1>1, Fun_ExistsBij
<1>3. QED
  BY <1>2, HoldingFinite, FS_Bijection

-----------------------------------------------------------------------------
(* The variables of the abstract run, and what leaves them alone.          *)

LEMMA WorkKept ==
  ASSUME UNCHANGED pc
  PROVE  UNCHANGED Lifecycle!work
BY DEF Lifecycle!work, CasesAt

LEMMA Stutter ==
  ASSUME UNCHANGED <<pc, task, tick>>, launch' # "new" <=> launch # "new",
         run'.state = run.state
  PROVE  UNCHANGED Lifecycle!job
<1>1. Phase' = Phase
  BY DEF Phase, Active
<1>2. QED
  BY <1>1, WorkKept DEF Lifecycle!job, Lifecycle!work

(* A write of the state shows that state, or finds no row.                 *)
LEMMA StateWritten ==
  ASSUME StoreTypeOK, NEW s,
         \/ UpdateRunState(s)
         \/ \E agg, verdict, averaged : UpdateRunAggregates(agg, verdict, s, averaged)
  PROVE  Lifecycle!Writes(s)
<1>1. CASE RunExists
  <2>1. run'.state = s /\ run.state # "none"
    BY <1>1 DEF UpdateRunState, UpdateRunAggregates, RunExists, StoreTypeOK, RunRows
  <2>2. QED
    BY <2>1 DEF Lifecycle!Writes, Lifecycle!Shows
<1>2. CASE ~RunExists
  <2>1. run' = run /\ run.state = "none"
    BY <1>2 DEF UpdateRunState, UpdateRunAggregates, RunExists
  <2>2. QED
    BY <2>1 DEF Lifecycle!Writes
<1>3. QED
  BY <1>1, <1>2

(* The phase follows the one active task.                                  *)
LEMMA PhaseMoves ==
  ASSUME TypeOK, TaskInv, NEW k \in Tasks, Active(k),
         NEW to \in ActiveSteps \cup EndedSteps, MoveTask(k, to)
  PROVE  /\ Phase = PhaseOf(task[k])
         /\ to \in ActiveSteps => Phase' = PhaseOf(to)
         /\ to \in EndedSteps => Phase' = "idle"
<1>1. \A j \in Tasks : j # k => ~Active(j)'
  BY OnlyOneActive DEF MoveTask, Active, TypeOK
<1>2. task'[k] = to
  BY DEF MoveTask, TypeOK
<1>3. ASSUME to \in ActiveSteps PROVE Phase' = PhaseOf(to)
  <2>1. Active(k)'
    BY <1>2, <1>3 DEF Active
  <2>2. (CHOOSE j \in Tasks : Active(j)') = k
    BY <1>1, <2>1
  <2>3. QED
    BY <1>2, <2>1, <2>2 DEF Phase
<1>4. ASSUME to \in EndedSteps PROVE Phase' = "idle"
  <2>1. \A j \in Tasks : ~Active(j)'
    BY <1>1, <1>2, <1>4 DEF Active, ActiveSteps, EndedSteps
  <2>2. QED
    BY <2>1 DEF Phase
<1>5. QED
  BY <1>3, <1>4, PhaseOfTask

-----------------------------------------------------------------------------
(* The API process and the tick.                                           *)

LEMMA LifecycleApiStep ==
  ASSUME TypeOK, NewInv, ApiStep, UNCHANGED <<execution, runner>>
  PROVE  Lifecycle!Next \/ UNCHANGED Lifecycle!job
<1>0. /\ StoreTypeOK /\ UNCHANGED <<pc, task, tick>>
      /\ UNCHANGED Lifecycle!work /\ Phase' = Phase
  BY WorkKept DEF TypeOK, execution, runner, Phase, Active
<1>1. CASE StartRun
  <2>1. launch = "new" /\ launch' = "creating"
    BY <1>1 DEF StartRun
  <2>2. run'.state = "pending"
    BY <1>1 DEF StartRun, CreateRun, NewRun
  <2>3. Lifecycle!Create
    BY <1>0, <2>1, <2>2 DEF Lifecycle!Create
  <2>4. QED
    BY <2>3 DEF Lifecycle!Next
<1>2. CASE ~StartRun
  <2>1. launch' # "new" <=> launch # "new"
    BY <1>2 DEF ApiStep, StartRunCreatesCase, StartRunFails, CancelChecks, CancelWrites,
                DeleteChecks, DeleteWrites
  <2>2. CASE UNCHANGED run
    BY <1>0, <2>1, <2>2, Stutter
  <2>3. CASE DeleteRun
    <3>1. run'.state = "none"
      BY <2>3 DEF DeleteRun, NoRun, NewRun
    <3>2. CASE RunExists
      BY <1>0, <2>1, <3>1, <3>2
         DEF Lifecycle!Delete, Lifecycle!Shows, Lifecycle!Next, RunExists
    <3>3. CASE ~RunExists
      BY <1>0, <2>1, <3>1, <3>3, Stutter DEF RunExists
    <3>4. QED
      BY <3>2, <3>3
  <2>4. CASE UpdateRunState("cancelled")
    <3>1. Lifecycle!Writes("cancelled")
      BY <1>0, <2>4, StateWritten
    <3>2. CASE Lifecycle!Shows("cancelled")
      BY <1>0, <2>1, <3>2 DEF Lifecycle!Cancel, Lifecycle!Next
    <3>3. CASE run'.state = run.state
      BY <1>0, <2>1, <3>3, Stutter
    <3>4. QED
      BY <3>1, <3>2, <3>3 DEF Lifecycle!Writes
  <2>5. QED
    BY <1>2, <2>1, <2>2, <2>3, <2>4
       DEF ApiStep, StartRunCreatesCase, CreateCase, StartRunFails, CancelChecks, CancelWrites,
           DeleteChecks, DeleteWrites, db
<1>3. QED
  BY <1>1, <1>2

LEMMA LifecycleTick ==
  ASSUME TypeOK, TaskInv, ClaimInv, Tick
  PROVE  Lifecycle!Next
<1>0. UNCHANGED <<launch, run, pc>> /\ UNCHANGED Lifecycle!work
  BY WorkKept DEF Tick, ListPendingRuns, CreateTask, db, api, execution
<1>1. CASE ListPendingRuns
  <2>1. Phase' = Phase
    BY <1>1 DEF ListPendingRuns, Phase, Active
  <2>2. Lifecycle!See
    BY <1>0, <1>1, <2>1 DEF ListPendingRuns, Lifecycle!See
  <2>3. QED
    BY <2>2 DEF Lifecycle!Next
<1>2. CASE tick = "listed" /\ tick' = "idle" /\ running /\ UNCHANGED <<task, running>>
  <2>1. PICK k \in Tasks : Active(k)
    BY <1>2 DEF ClaimInv
  <2>2. Phase # "idle"
    <3>1. Phase = PhaseOf(task[k]) /\ task[k] \in ActiveSteps
      BY <2>1, PhaseOfTask DEF Active
    <3>2. QED
      BY <3>1, PhaseOfSteps DEF ActiveSteps
  <2>3. Phase' = Phase
    BY <1>2 DEF Phase, Active
  <2>4. Lifecycle!PassOver
    BY <1>0, <1>2, <2>2, <2>3 DEF Lifecycle!PassOver
  <2>5. QED
    BY <2>4 DEF Lifecycle!Next
<1>3. CASE /\ tick = "listed" /\ tick' = "idle" /\ ~running
           /\ \E k \in Tasks : task[k] = "none" /\ MoveTask(k, "state")
  <2>1. \A j \in Tasks : ~Active(j)
    BY <1>3 DEF TaskInv
  <2>2. PICK k \in Tasks : task[k] = "none" /\ MoveTask(k, "state")
    BY <1>3
  <2>3. \A j \in Tasks : Active(j)' <=> j = k
    BY <2>1, <2>2 DEF MoveTask, Active, TypeOK, ActiveSteps
  <2>4. Phase = "idle"
    BY <2>1, PhaseIdle
  <2>5. Phase' = "starting"
    <3>1. (CHOOSE j \in Tasks : Active(j)') = k
      BY <2>3
    <3>2. task'[k] = "state"
      BY <2>2 DEF MoveTask, TypeOK
    <3>3. QED
      BY <2>3, <3>1, <3>2, PhaseOfSteps DEF Phase
  <2>6. Lifecycle!Claim
    BY <1>0, <1>3, <2>4, <2>5 DEF Lifecycle!Claim
  <2>7. QED
    BY <2>6 DEF Lifecycle!Next
<1>4. QED
  BY <1>1, <1>2, <1>3 DEF Tick, CreateTask

-----------------------------------------------------------------------------
(* The task.                                                               *)

(* The cases the gather starts on are those there are rows of.             *)
LEMMA LifecycleBegin ==
  ASSUME EngineInv, BusyInv, NEW k \in Tasks, ListCases(k)
  PROVE  Lifecycle!Next
<1>0. TypeOK /\ TaskInv /\ Active(k) /\ task[k] = "prepare"
  BY DEF EngineInv, ListCases, Active, ActiveSteps
<1>1. UNCHANGED <<run, launch, tick>>
  BY DEF ListCases, db, api
<1>2. MoveTask(k, "gather") /\ Phase = "starting" /\ Phase' = "executing"
  BY <1>0, PhaseMoves, PhaseOfSteps DEF ListCases, ActiveSteps
<1>3. run.state \notin {"completed", "error"}
  BY <1>0 DEF BusyInv, BusySteps
<1>4. \A c \in Cases, j \in Tasks : pc[<<c, j>>] \in {"idle", "done", "dead"}
  <2>1. \A j \in Tasks : task[j] # "gather"
    BY <1>0, OnlyOneActive DEF Active, ActiveSteps
  <2>2. QED
    BY <2>1 DEF EngineInv, PcInv, Attempts, Tasks
<1>5. \A c \in Cases, j \in Tasks :
        pc'[<<c, j>>] = IF j = k /\ CaseExists(c) THEN "setup" ELSE pc[<<c, j>>]
  BY DEF ListCases, Attempts, Tasks
<1>6. CasesAt({"setup"})' = CaseRowsOf
  BY <1>4, <1>5 DEF CasesAt, CaseRowsOf
<1>7. UNCHANGED CasesAt(HoldingSteps)
  BY <1>4, <1>5 DEF CasesAt, HoldingSteps, InnerSteps
<1>8. PICK J \in SUBSET Cases : J = CaseRowsOf
  BY DEF CaseRowsOf
<1>9. Lifecycle!Begin(J)
  BY <1>1, <1>2, <1>3, <1>6, <1>7, <1>8
     DEF Lifecycle!Begin, Lifecycle!Enters, HoldingSteps
<1>10. Lifecycle!Moves
  BY <1>1, <1>2, <1>8, <1>9 DEF Lifecycle!Moves
<1>11. QED
  BY <1>10 DEF Lifecycle!Next

LEMMA LifecycleClose ==
  ASSUME EngineInv, NEW k \in Tasks, GatherReturns(k)
  PROVE  Lifecycle!Close
<1>0. /\ TypeOK /\ TaskInv /\ Active(k) /\ task[k] = "gather" /\ MoveTask(k, "tally")
      /\ UNCHANGED <<run, pc>>
  BY DEF EngineInv, GatherReturns, Active, ActiveSteps, db, execution
<1>1. Phase = "executing" /\ Phase' = "closing"
  BY <1>0, PhaseMoves, PhaseOfSteps DEF ActiveSteps
<1>2. \A c \in Cases : pc[<<c, k>>] \in {"idle", "done", "dead"}
  BY DEF GatherReturns
<1>3. CasesAt({"setup"}) = {} /\ CasesAt(HoldingSteps) = {}
  <2>1. \A c \in Cases : c \notin CasesAt({"setup"}) /\ c \notin CasesAt(HoldingSteps)
    BY <1>0, <1>2, WorkOfTask DEF HoldingSteps, InnerSteps
  <2>2. QED
    BY <2>1 DEF CasesAt
<1>4. UNCHANGED Lifecycle!work
  BY <1>0, WorkKept
<1>5. QED
  BY <1>0, <1>1, <1>3, <1>4 DEF Lifecycle!Close, Lifecycle!Enters, HoldingSteps

LEMMA LifecycleRunTask ==
  ASSUME RowInv, ClaimInv, NEW k \in Tasks, RunTask(k)
  PROVE  Lifecycle!Next \/ UNCHANGED Lifecycle!job
<1>0. EngineInv /\ BusyInv /\ TypeOK /\ TaskInv /\ StoreTypeOK
  BY DEF RowInv, EngineInv, TypeOK
<1>1. Active(k) /\ UNCHANGED <<launch, tick>>
  BY <1>0, RunTaskMoves DEF api
<1>2. CASE ListCases(k)
  BY <1>0, <1>2, LifecycleBegin
<1>3. CASE GatherReturns(k)
  <2>1. Lifecycle!Close
    BY <1>0, <1>3, LifecycleClose
  <2>2. QED
    BY <1>1, <2>1 DEF Lifecycle!Close, Lifecycle!Enters, Lifecycle!Moves, Lifecycle!Next
<1>4. CASE ~ListCases(k) /\ ~GatherReturns(k)
  <2>1. UNCHANGED pc /\ UNCHANGED Lifecycle!work
    BY <1>4, RunTaskKeepsAttempts, WorkKept DEF execution
  <2>2. \A to \in ActiveSteps : MoveTask(k, to) =>
          Phase = PhaseOf(task[k]) /\ Phase' = PhaseOf(to)
    BY <1>0, <1>1, PhaseMoves
  <2>3. ASSUME run'.state = run.state,
               NEW to \in ActiveSteps, MoveTask(k, to), PhaseOf(to) = PhaseOf(task[k])
        PROVE  UNCHANGED Lifecycle!job
    BY <1>1, <2>1, <2>2, <2>3 DEF Lifecycle!job, Lifecycle!work
  <2>4. CASE MarkStarted(k)
    <3>1. CASE task[k] = "state"
      <4>1. MoveTask(k, "event_started") /\ UpdateRunState("running")
        BY <2>4, <3>1 DEF MarkStarted
      <4>2. Phase = "starting" /\ Phase' = "starting"
        BY <2>2, <3>1, <4>1, PhaseOfSteps DEF ActiveSteps
      <4>3. Lifecycle!Writes("running")
        BY <1>0, <4>1, StateWritten
      <4>4. Lifecycle!Works
        BY <1>1, <2>1, <4>2, <4>3 DEF Lifecycle!Works, Lifecycle!ShowRunning
      <4>5. QED
        BY <4>4 DEF Lifecycle!Next
    <3>2. CASE task[k] = "event_started"
      <4>1. MoveTask(k, "prepare") /\ UNCHANGED run
        BY <2>4, <3>2 DEF MarkStarted, CreateRunEvent
      <4>2. QED
        BY <2>3, <3>2, <4>1, PhaseOfSteps DEF ActiveSteps
    <3>3. QED
      BY <2>4, <3>1, <3>2 DEF MarkStarted
  <2>5. CASE PrepareFails(k) \/ HandleException(k)
    <3>1. CASE task[k] = "prepare"
      <4>1. MoveTask(k, "unprepared") /\ UNCHANGED run
        BY <2>5, <3>1 DEF PrepareFails, HandleException, db
      <4>2. Phase = "starting" /\ Phase' = "failing"
        BY <2>2, <3>1, <4>1, PhaseOfSteps DEF ActiveSteps
      <4>3. QED
        BY <1>1, <2>1, <4>1, <4>2
           DEF Lifecycle!Fail, Lifecycle!Enters, Lifecycle!Moves, Lifecycle!Next
    <3>2. CASE task[k] \in {"unprepared", "except"} /\ MoveTask(k, "finally")
      <4>1. \E agg : UpdateRunAggregates(agg, "failed", "error", NoAverages)
        BY <1>0, <2>5, <3>2 DEF PrepareFails, HandleException, MoveTask, TypeOK
      <4>2. Phase = "failing" /\ Phase' = "leaving"
        BY <2>2, <3>2, PhaseOfSteps DEF ActiveSteps
      <4>3. Lifecycle!Writes("error")
        BY <1>0, <4>1, StateWritten
      <4>4. QED
        BY <1>1, <2>1, <4>2, <4>3
           DEF Lifecycle!ShowError, Lifecycle!Enters, Lifecycle!Moves, Lifecycle!Next
    <3>3. CASE task[k] = "except" /\ MoveTask(k, "unwritten") /\ UNCHANGED run
      <4>1. Phase = "failing" /\ Phase' = "lost"
        BY <2>2, <3>3, PhaseOfSteps DEF ActiveSteps
      <4>2. QED
        BY <1>1, <2>1, <3>3, <4>1
           DEF Lifecycle!GiveUp, Lifecycle!Enters, Lifecycle!Moves, Lifecycle!Next
    <3>4. QED
      BY <2>5, <3>1, <3>2, <3>3 DEF PrepareFails, HandleException, db
  <2>6. CASE Finalize(k)
    <3>1. CASE task[k] \in {"tally", "metrics"}
      <4>1. UNCHANGED run /\ \E to \in {"metrics", "write"} : MoveTask(k, to)
        BY <2>6, <3>1 DEF Finalize, db
      <4>2. QED
        BY <2>3, <3>1, <4>1, PhaseOfSteps DEF ActiveSteps
    <3>2. CASE task[k] = "write"
      <4>1. /\ MoveTask(k, "event_completed")
            /\ UpdateRunAggregates(tally[k], FinalVerdict(tally[k]), "completed", scored[k])
        BY <2>6, <3>2 DEF Finalize
      <4>2. Phase = "closing" /\ Phase' = "closed"
        BY <2>2, <3>2, <4>1, PhaseOfSteps DEF ActiveSteps
      <4>3. Lifecycle!Writes("completed")
        BY <1>0, <4>1, StateWritten
      <4>4. QED
        BY <1>1, <2>1, <4>2, <4>3
           DEF Lifecycle!Complete, Lifecycle!Enters, Lifecycle!Moves, Lifecycle!Next
    <3>3. CASE task[k] = "event_completed"
      <4>1. MoveTask(k, "finally") /\ UNCHANGED run
        BY <2>6, <3>3 DEF Finalize, CreateRunEvent
      <4>2. Phase = "closed" /\ Phase' = "leaving"
        BY <2>2, <3>3, <4>1, PhaseOfSteps DEF ActiveSteps
      <4>3. QED
        BY <1>1, <2>1, <4>1, <4>2
           DEF Lifecycle!Finish, Lifecycle!Enters, Lifecycle!Moves, Lifecycle!Next
    <3>4. QED
      BY <2>6, <3>1, <3>2, <3>3 DEF Finalize
  <2>7. CASE TaskRaises(k)
    <3>1. MoveTask(k, "except") /\ UNCHANGED run
      BY <2>7 DEF TaskRaises, db
    <3>2. CASE task[k] = "unprepared"
      BY <2>3, <3>1, <3>2, PhaseOfSteps DEF ActiveSteps
    <3>3. CASE task[k] # "unprepared"
      <4>1. Phase \in {"starting", "closing", "closed"} /\ Phase' = "failing"
        BY <2>2, <2>7, <3>1, <3>3, PhaseOfSteps DEF TaskRaises, ActiveSteps
      <4>2. QED
        BY <1>1, <2>1, <3>1, <4>1
           DEF Lifecycle!Fail, Lifecycle!Enters, Lifecycle!Moves, Lifecycle!Next
    <3>4. QED
      BY <3>2, <3>3
  <2>8. CASE TaskEnds(k)
    <3>1. UNCHANGED run /\ \E to \in {"done", "lost"} : MoveTask(k, to)
      BY <2>8 DEF TaskEnds, db
    <3>2. Phase = PhaseOf(task[k]) /\ Phase' = "idle"
      BY <1>0, <1>1, <3>1, PhaseMoves DEF EndedSteps
    <3>3. CASE task[k] = "finally"
      <4>1. Phase = "leaving" /\ run.state \in {"completed", "cancelled", "error", "none"}
        BY <3>2, <3>3, PhaseOfSteps DEF ClaimInv
      <4>2. QED
        BY <1>1, <2>1, <3>1, <3>2, <4>1
           DEF Lifecycle!Leave, Lifecycle!Over, Lifecycle!Enters, Lifecycle!Moves,
               Lifecycle!Next
    <3>4. CASE task[k] = "unwritten"
      <4>1. Phase = "lost"
        BY <3>2, <3>4, PhaseOfSteps
      <4>2. QED
        BY <1>1, <2>1, <3>1, <3>2, <4>1
           DEF Lifecycle!Abandon, Lifecycle!Enters, Lifecycle!Moves, Lifecycle!Next
    <3>5. QED
      BY <2>8, <3>3, <3>4 DEF TaskEnds
  <2>9. QED
    BY <1>4, <2>4, <2>5, <2>6, <2>7, <2>8 DEF RunTask
<1>5. QED
  BY <1>2, <1>3, <1>4

-----------------------------------------------------------------------------
(* The coroutines of the cases, and the end of the process.                *)

LEMMA LifecycleRunCase ==
  ASSUME EngineInv, NEW a \in Attempts, RunCase(a)
  PROVE  Lifecycle!Next \/ UNCHANGED Lifecycle!job
<1>0. /\ TypeOK /\ TaskInv /\ PcInv /\ SlotInv
      /\ UNCHANGED <<run, launch, tick, task>> /\ pc[a] \in HoldingSteps \cup {"setup"}
  BY RunCaseKeepsRun, RunCaseKeepsTasks DEF EngineInv, api
<1>1. PICK c \in Cases, k \in Tasks : a = <<c, k>>
  BY DEF Attempts, Tasks
<1>2. task[k] = "gather" /\ Active(k)
  BY <1>0, <1>1 DEF PcInv, HoldingSteps, InnerSteps, Active, ActiveSteps
<1>3. Phase = "executing" /\ Phase' = "executing"
  <2>1. Phase = "executing"
    BY <1>0, <1>2, PhaseOfTask, PhaseOfSteps
  <2>2. Phase' = Phase
    BY <1>0 DEF Phase, Active
  <2>3. QED
    BY <2>1, <2>2
<1>4. \A d \in Cases, j \in Tasks : pc[<<d, j>>] \notin {"idle", "done", "dead"} => j = k
  BY <1>0, <1>2, OnlyOneActive DEF PcInv, Attempts, Tasks, Active, ActiveSteps
<1>5. ASSUME NEW to, Goto(a, to)
      PROVE  /\ \A d \in Cases, j \in Tasks : <<d, j>> # a => pc'[<<d, j>>] = pc[<<d, j>>]
             /\ pc'[a] = to
  BY <1>0, <1>5 DEF Goto, TypeOK, ExecutionTypeOK, Attempts, Tasks
<1>6. CASE AcquireSlot(a)
  <2>1. pc[a] = "setup" /\ Goto(a, "start") /\ permits[k] > 0
    BY <1>1, <1>6 DEF AcquireSlot
  <2>2. c \in CasesAt({"setup"})
    BY <1>1, <2>1 DEF CasesAt
  <2>3. CasesAt({"setup"})' = CasesAt({"setup"}) \ {c}
    <3>1. \A d \in Cases, j \in Tasks :
            d # c => pc'[<<d, j>>] = pc[<<d, j>>]
      BY <1>1, <1>5, <2>1
    <3>2. \A j \in Tasks : pc'[<<c, j>>] # "setup"
      <4>1. \A j \in Tasks : j # k => pc'[<<c, j>>] = pc[<<c, j>>] /\ pc[<<c, j>>] # "setup"
        BY <1>1, <1>4, <1>5, <2>1
      <4>2. pc'[<<c, k>>] = "start"
        BY <1>1, <1>5, <2>1
      <4>3. QED
        BY <4>1, <4>2
    <3>3. QED
      BY <3>1, <3>2 DEF CasesAt
  <2>4. CasesAt(HoldingSteps)' = CasesAt(HoldingSteps) \cup {c}
    BY <1>1, <1>5, <2>1 DEF CasesAt, HoldingSteps, InnerSteps
  <2>5. Cardinality(CasesAt(HoldingSteps)) < Slots
    <3>1. permits[k] + Cardinality(Holding(k)) = Slots
      BY <1>0, <1>2 DEF SlotInv
    <3>2. Cardinality(CasesAt(HoldingSteps)) = Cardinality(Holding(k))
      BY <1>2, InFlightCounted
    <3>3. permits[k] \in Nat /\ Slots \in Nat /\ Cardinality(Holding(k)) \in Nat
      BY <1>0, SlotsType, HoldingFinite DEF TypeOK
    <3>4. QED
      BY <2>1, <3>1, <3>2, <3>3
  <2>6. Lifecycle!Cardinality(CasesAt(HoldingSteps)) < Slots
    BY <2>5 DEF Cardinality, Lifecycle!Cardinality
  <2>7. Lifecycle!Take(c)
    BY <1>0, <1>3, <2>2, <2>3, <2>4, <2>6 DEF Lifecycle!Take, HoldingSteps
  <2>8. Lifecycle!Works
    BY <1>0, <1>3, <2>7 DEF Lifecycle!Works
  <2>9. QED
    BY <2>8 DEF Lifecycle!Next
<1>7. CASE ExecuteAndScoreCase(a)
  <2>1. PICK to \in HoldingSteps : Goto(a, to)
    BY <1>7, ExecuteMoves
  <2>2. pc[a] \in HoldingSteps
    BY <1>7, ExecuteMoves DEF HoldingSteps
  <2>3. UNCHANGED CasesAt({"setup"})
    BY <1>1, <1>5, <2>1, <2>2 DEF CasesAt, HoldingSteps, InnerSteps
  <2>4. UNCHANGED CasesAt(HoldingSteps)
    <3>1. \A d \in Cases, j \in Tasks :
            pc'[<<d, j>>] \in HoldingSteps <=> pc[<<d, j>>] \in HoldingSteps
      BY <1>1, <1>5, <2>1, <2>2
    <3>2. QED
      BY <3>1 DEF CasesAt
  <2>5. QED
    BY <1>0, <1>3, <2>3, <2>4 DEF Lifecycle!job, HoldingSteps
<1>8. CASE CaseReturns(a) \/ CaseErrorWritten(a)
  <2>1. PICK to \in {"done", "dead"} : Goto(a, to)
    BY <1>8 DEF CaseReturns, CaseErrorWritten, Leave
  <2>2. pc[a] \in {"scored", "raised"}
    BY <1>8 DEF CaseReturns, CaseErrorWritten
  <2>3. UNCHANGED CasesAt({"setup"})
    BY <1>1, <1>5, <2>1, <2>2 DEF CasesAt
  <2>4. c \in CasesAt(HoldingSteps)
    BY <1>1, <2>2 DEF CasesAt, HoldingSteps
  <2>5. CasesAt(HoldingSteps)' = CasesAt(HoldingSteps) \ {c}
    BY <1>1, <1>4, <1>5, <2>1, <2>2 DEF CasesAt, HoldingSteps, InnerSteps
  <2>6. Lifecycle!Settle(c)
    BY <1>0, <1>3, <2>3, <2>4, <2>5 DEF Lifecycle!Settle, HoldingSteps
  <2>7. Lifecycle!Works
    BY <1>0, <1>3, <2>6 DEF Lifecycle!Works
  <2>8. QED
    BY <2>7 DEF Lifecycle!Next
<1>9. QED
  BY <1>6, <1>7, <1>8 DEF RunCase

LEMMA LifecycleCrash ==
  ASSUME TypeOK, Crash
  PROVE  Lifecycle!Next
<1>1. \A k \in Tasks : ~Active(k)'
  BY DEF Crash, TypeOK, Active, ActiveSteps
<1>2. Phase' = "idle"
  BY <1>1 DEF Phase
<1>3. \A a \in Attempts : pc'[a] \in {"idle", "done", "dead"}
  BY DEF Crash
<1>4. CasesAt({"setup"})' = {} /\ CasesAt(HoldingSteps)' = {}
  <2>1. \A c \in Cases, k \in Tasks : pc'[<<c, k>>] \in {"idle", "done", "dead"}
    BY <1>3 DEF Attempts, Tasks
  <2>2. QED
    BY <2>1 DEF CasesAt, HoldingSteps, InnerSteps
<1>5. Lifecycle!Crash
  BY <1>2, <1>4 DEF Crash, Lifecycle!Crash, HoldingSteps, db, api
<1>6. QED
  BY <1>5 DEF Lifecycle!Next

-----------------------------------------------------------------------------
LEMMA LifecycleInit == Init => Lifecycle!Init
<1> SUFFICES ASSUME Init PROVE Lifecycle!Init
  OBVIOUS
<1>1. \A k \in Tasks : ~Active(k)
  BY DEF Init, Active, ActiveSteps
<1>2. \A c \in Cases, k \in Tasks : pc[<<c, k>>] = "idle"
  BY DEF Init, InitExecution, Attempts, Tasks
<1>3. CasesAt({"setup"}) = {} /\ CasesAt(HoldingSteps) = {}
  BY <1>2 DEF CasesAt, HoldingSteps, InnerSteps
<1>4. QED
  BY <1>1, <1>3, PhaseIdle
     DEF Init, InitStore, InitApi, NoRun, NewRun, Lifecycle!Init, HoldingSteps

LEMMA LifecycleStep ==
  ASSUME RowInv, ClaimInv, [Next]_vars
  PROVE  [Lifecycle!Next]_Lifecycle!job
<1>0. TypeOK /\ TaskInv /\ EngineInv /\ NewInv
  BY DEF RowInv, EngineInv
<1>1. CASE ApiStep /\ UNCHANGED <<execution, runner>>
  BY <1>0, <1>1, LifecycleApiStep
<1>2. CASE Tick
  BY <1>0, <1>2, LifecycleTick
<1>3. CASE \E k \in Tasks : RunTask(k)
  BY <1>3, LifecycleRunTask
<1>4. CASE \E a \in Attempts : RunCase(a)
  BY <1>0, <1>4, LifecycleRunCase
<1>5. CASE Crash
  BY <1>0, <1>5, LifecycleCrash
<1>6. CASE UNCHANGED vars
  BY <1>6, Stutter DEF vars, db, api, execution, runner
<1>7. QED
  BY <1>1, <1>2, <1>3, <1>4, <1>5, <1>6 DEF Next

(* Whatever the number of cases, slots, tasks, crashes and requests, the   *)
(* polling engine does to a run only what PolledLifecycle promises: one    *)
(* execution at a time however stale the answer its tick acts on, at most  *)
(* Slots cases in flight, completed or error shown with none of them, and  *)
(* a run left unended only by a crash or an error that cannot be written.  *)
THEOREM PolledLifecycleImplemented == Spec => ImplementsPolledLifecycle
<1>1. RowInv /\ ClaimInv /\ [Next]_vars => [Lifecycle!Next]_Lifecycle!job
  BY LifecycleStep
<1>2. QED
  BY <1>1, LifecycleInit, RowInvariant, ClaimInvariant, PTL
     DEF Spec, ImplementsPolledLifecycle, Lifecycle!Spec
=============================================================================
