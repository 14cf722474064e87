------------------------ MODULE TaskSchedulerProofs ------------------------
(***************************************************************************)
(* Proofs about TaskScheduler for every set of tasks, every cron library   *)
(* that keeps CronAssumption and every bound.                              *)
(***************************************************************************)
EXTENDS TaskScheduler, FiniteSetTheorems, TLAPS

\* The next instant of any schedule is a slot, and later than where the
\* search started: the arithmetic every other proof rests on.
LEMMA NextIsLater ==
  ASSUME NEW s \in AnySchedule, NEW t \in Times
  PROVE  /\ ParseAndNext(s, t) \in SlotSet
         /\ ParseAndNext(s, t) # NoSlot => ParseAndNext(s, t) > t
BY CronAssumption DEF ParseAndNext, AnySchedule, SlotSet

\* Moving next_run keeps the table a table.
LEMMA SetNextRunType ==
  ASSUME tasks \in [Tasks -> Row], NEW t, NEW n \in SlotSet
  PROVE  SetNextRun(t, n) \in [Tasks -> Row]
BY DEF SetNextRun, Row

\* The records that stand for an empty row and for a run that begins or is
\* over are rows and runs.
LEMMA RecordTypes ==
  /\ NoRow \in Row /\ GoneRow \in Row /\ Over \in Run
  /\ \A pc \in {"checked", "spawned"}, k \in Kinds, t \in Tasks,
        s \in AnySchedule : NewRun(pc, k, t, s) \in Run
BY DEF NoRow, GoneRow, Over, Row, Run, NewRun, Kinds, AnySchedule, SlotSet

\* A run that is cancelled or returns is still a run.
LEMMA RunUpdates ==
  ASSUME NEW x \in Run
  PROVE  /\ [x EXCEPT !.asked = TRUE] \in Run
         /\ \A res \in {"ok", "fail", "cancelled"} :
              [x EXCEPT !.pc = "returned", !.result = res] \in Run
BY DEF Run

\* A live execution belongs to a task.
RunsHaveTasks == \A r \in RunIds : Alive(r) => runs[r].task \in Tasks

TypeInv == TypeOK /\ RunsHaveTasks

\* NewScheduler and an empty table are of the right type.
LEMMA TypeInit == Init => TypeInv
<1> SUFFICES ASSUME Init PROVE TypeInv
  OBVIOUS
<1>1. now \in Times /\ BudgetsType
  BY BoundsAssumption DEF Init, Times, BudgetsType
<1>2. runs \in [RunIds -> Run] /\ RunsHaveTasks
  BY RecordTypes DEF Init, RunsHaveTasks, Alive, Over, NewRun
<1>3. TableType /\ LifeType
  BY RecordTypes DEF Init, TableType, LifeType
<1>4. WalkType
  BY RecordTypes, BoundsAssumption DEF Init, WalkType, Times
<1>5. SlotsType
  BY DEF Init, SlotsType, SlotSet
<1> QED BY <1>1, <1>2, <1>3, <1>4, <1>5 DEF TypeInv, TypeOK

\* Calls and refused writes stay within their bounds.
LEMMA BudgetSteps ==
  ASSUME BudgetsType
  PROVE  /\ Call /\ UNCHANGED <<failures, crashes>> => BudgetsType'
         /\ \A ok : Write(ok) /\ UNCHANGED <<ops, crashes>> => BudgetsType'
         /\ UNCHANGED budgets => BudgetsType'
BY BoundsAssumption DEF BudgetsType, Call, Write, budgets

\* A new scheduler object on the old table.
LEMMA ProcessDiesType ==
  ASSUME TypeOK, ProcessDies, BudgetsType'
  PROVE  TypeInv'
<1>1. (runs \in [RunIds -> Run] /\ RunsHaveTasks)'
  BY RecordTypes DEF ProcessDies, RunsHaveTasks, Alive, Over, NewRun
<1>2. LifeType' /\ TableType' /\ now' \in Times
  BY RecordTypes DEF ProcessDies, LifeType, TypeOK, TableType, table
<1>3. WalkType'
  BY RecordTypes, BoundsAssumption DEF ProcessDies, WalkType, Times
<1>4. SlotsType'
  BY DEF ProcessDies, SlotsType, SlotSet
<1> QED BY <1>1, <1>2, <1>3, <1>4 DEF TypeInv, TypeOK

\* Every call, tick of the loop and step of an execution keeps the types.
LEMMA TypeStep == TypeInv /\ [Next]_vars => TypeInv'
<1> SUFFICES ASSUME TypeInv, [Next]_vars PROVE TypeInv'
  OBVIOUS
<1> USE BudgetSteps DEF TypeInv, TypeOK
<1>1. CASE Tick
  BY <1>1, BoundsAssumption
  DEF Tick, Times, table, life, walk, slots, TableType, LifeType, WalkType,
      SlotsType, RunsHaveTasks, Alive
<1>2. CASE Lifecycle
  <2>1. ASSUME NEW x \in BOOLEAN, Start(x) PROVE TypeInv'
    BY <2>1 DEF Start, table, slots, TableType, LifeType, WalkType, SlotsType,
                RunsHaveTasks, Alive
  <2>2. CASE StopBegin
    BY <2>2 DEF StopBegin, table, walk, slots, TableType, LifeType, WalkType,
                SlotsType, RunsHaveTasks, Alive
  <2>3. CASE StopEnd
    BY <2>3 DEF StopEnd, table, walk, slots, TableType, LifeType, WalkType,
                SlotsType, RunsHaveTasks, Alive
  <2>4. CASE StopPanics
    BY <2>4, ProcessDiesType DEF StopPanics
  <2> QED BY <1>2, <2>1, <2>2, <2>3, <2>4 DEF Lifecycle
<1>3. CASE Management
  <2>1. ASSUME NEW t \in Tasks, NEW s \in AnySchedule, NEW n \in Times \cup {NoSlot},
               NEW e \in BOOLEAN, CreateTask(t, s, n, e)
        PROVE  TypeInv'
    <3>1. n \in SlotSet /\ ParseAndNext(s, now) \in SlotSet
      BY NextIsLater DEF Times, SlotSet
    <3>2. tasks' \in [Tasks -> Row]
      BY <2>1, <3>1 DEF CreateTask, TableType, Row
    <3> QED BY <2>1, <3>2
            DEF CreateTask, life, walk, slots, TableType, LifeType, WalkType,
                SlotsType, RunsHaveTasks, Alive
  <2>2. ASSUME NEW t \in Tasks, NEW s \in AnySchedule, NEW e \in BOOLEAN,
               UpdateTask(t, s, e)
        PROVE  TypeInv'
    <3>1. [tasks[t] EXCEPT !.sched = s, !.enabled = e,
                           !.nextRun = ParseAndNext(s, now)] \in Row
      BY NextIsLater DEF TableType, Row
    <3> QED BY <2>2, <3>1
            DEF UpdateTask, table, life, walk, slots, TableType, LifeType, WalkType,
                SlotsType, RunsHaveTasks, Alive
  <2>3. ASSUME NEW t \in Tasks, DeleteTask(t) PROVE TypeInv'
    BY <2>3, RecordTypes
    DEF DeleteTask, life, walk, slots, TableType, LifeType, WalkType, SlotsType,
        RunsHaveTasks, Alive
  <2>4. ASSUME NEW t \in Tasks, NEW e \in BOOLEAN, EnableTask(t, e) PROVE TypeInv'
    <3>1. [tasks[t] EXCEPT !.enabled = e] \in Row
      BY DEF TableType, Row
    <3> QED BY <2>4, <3>1
            DEF EnableTask, life, walk, slots, TableType, LifeType, WalkType,
                SlotsType, RunsHaveTasks, Alive
  <2>5. ASSUME NEW t \in Tasks, NEW ok \in BOOLEAN, WriteUpdate(t, ok) PROVE TypeInv'
    <3> DEFINE u == updates[t]
    <3>1. u \in Row /\ NoRow \in Row
      BY RecordTypes DEF TableType
    <3>2. [tasks[t] EXCEPT !.sched = u.sched, !.enabled = u.enabled,
                           !.nextRun = u.nextRun] \in Row
      BY <3>1 DEF TableType, Row
    <3>3. TableType'
      BY <2>5, <3>1, <3>2 DEF WriteUpdate, TableType, table
    <3>4. fired' \in [Tasks -> SUBSET SlotSet]
      BY <2>5 DEF WriteUpdate, SlotsType
    <3>5. BudgetsType'
      BY <2>5 DEF WriteUpdate
    <3> QED BY <2>5, <3>3, <3>4, <3>5
            DEF WriteUpdate, life, walk, LifeType, WalkType, SlotsType,
                RunsHaveTasks, Alive
  <2> QED BY <1>3, <2>1, <2>2, <2>3, <2>4, <2>5 DEF Management
<1>4. CASE Manual
  <2>1. ASSUME NEW t \in Tasks, NEW k \in {"async", "sync"}, NEW r \in RunIds,
               CheckRun(t, k, r)
        PROVE  TypeInv'
    <3>1. NewRun("checked", k, t, tasks[t].sched) \in Run
      BY RecordTypes DEF TableType, Row, Kinds
    <3> QED BY <2>1, <3>1
            DEF CheckRun, NewRun, table, life, walk, slots, TableType, LifeType,
                WalkType, SlotsType, RunsHaveTasks, Alive
  <2>2. ASSUME NEW r \in RunIds, CancelRun(r) PROVE TypeInv'
    <3>1. runs' \in [RunIds -> Run]
      BY <2>2, RunUpdates DEF CancelRun
    <3>2. RunsHaveTasks'
      BY <2>2 DEF CancelRun, RunsHaveTasks, Alive
    <3> QED BY <2>2, <3>1, <3>2 DEF CancelRun, table, life, walk, slots, TableType,
                                   LifeType, WalkType, SlotsType
  <2>3. ASSUME NEW t \in Tasks, CancelTaskRuns(t) PROVE TypeInv'
    <3>1. runs' \in [RunIds -> Run]
      BY <2>3, RunUpdates DEF CancelTaskRuns
    <3>2. RunsHaveTasks'
      BY <2>3 DEF CancelTaskRuns, RunsHaveTasks, Alive
    <3> QED BY <2>3, <3>1, <3>2 DEF CancelTaskRuns, table, life, walk, slots, TableType,
                                   LifeType, WalkType, SlotsType
  <2> QED BY <1>4, <2>1, <2>2, <2>3 DEF Manual
<1>5. CASE Crash
  <2>1. BudgetsType'
    BY <1>5, BoundsAssumption DEF Crash, BudgetsType
  <2> QED BY <1>5, <2>1, ProcessDiesType DEF Crash
<1>6. CASE LoopExit
  BY <1>6 DEF LoopExit, table, life, slots, TableType, LifeType, WalkType,
              SlotsType, RunsHaveTasks, Alive
<1>7. CASE LoopStep
  <2>1. CASE Scan
    BY <2>1, RecordTypes DEF Scan, table, life, slots, TableType, LifeType, WalkType,
                             SlotsType, RunsHaveTasks, Alive
  <2>2. CASE ScanDone
    BY <2>2, BoundsAssumption
    DEF ScanDone, table, life, slots, TableType, LifeType, WalkType, SlotsType,
        RunsHaveTasks, Alive, Times
  <2>3. ASSUME NEW t \in Tasks, WalkRow(t) PROVE TypeInv'
    <3>1. CASE SkipRow(t)
      BY <3>1, RecordTypes
      DEF SkipRow, Dropped, table, life, slots, TableType, LifeType, WalkType,
          SlotsType, RunsHaveTasks, Alive
    <3>2. CASE SkipStale(t)
      BY <3>2 DEF SkipStale, table, life, TableType, LifeType, WalkType, SlotsType,
                  RunsHaveTasks, Alive
    <3>3. CASE Claim(t)
      BY <3>3 DEF Claim, table, life, TableType, LifeType, WalkType, SlotsType,
                  RunsHaveTasks, Alive, Row
    <3>4. ASSUME NEW ok \in BOOLEAN, MoveStale(t, ok) PROVE TypeInv'
      <4>1. SetNextRun(t, ParseAndNext(snap[t].sched, scanNow)) \in [Tasks -> Row]
        BY SetNextRunType, NextIsLater DEF TableType, WalkType, Row
      <4> QED BY <3>4, <4>1, RecordTypes
              DEF MoveStale, Dropped, ReleaseToken, life, TableType, LifeType,
                  WalkType, SlotsType, RunsHaveTasks, Alive
    <3>5. ASSUME NEW ok \in BOOLEAN, NEW r \in RunIds, Fire(t, r, ok) PROVE TypeInv'
      <4>1. SetNextRun(t, ParseAndNext(snap[t].sched, scanNow)) \in [Tasks -> Row]
        BY SetNextRunType, NextIsLater DEF TableType, WalkType, Row
      <4>2. TableType'
        <5>1. snap[t].nextRun \in SlotSet
          BY DEF WalkType, Row
        <5> QED BY <3>5, <4>1, <5>1 DEF Fire, TableType, table
      <4>3. BudgetsType'
        BY <3>5 DEF Fire, budgets
      <4>4. NewRun("spawned", "cron", t, snap[t].sched) \in Run
        BY RecordTypes DEF WalkType, Row, Kinds
      <4> QED BY <3>5, <4>2, <4>3, <4>4, RecordTypes
              DEF Fire, Dropped, NewRun, life, slots, LifeType, WalkType, SlotsType,
                  RunsHaveTasks, Alive
    <3> QED BY <2>3, <3>1, <3>2, <3>3, <3>4, <3>5 DEF WalkRow
  <2> QED BY <1>7, <2>1, <2>2, <2>3 DEF LoopStep
<1>8. ASSUME NEW r \in RunIds, RunStep(r) PROVE TypeInv'
  <2>1. ASSUME NEW ok \in BOOLEAN, Begin(r, ok) PROVE TypeInv'
    <3> DEFINE row == IF ok THEN "running" ELSE "none"
    <3>0. [runs[r] EXCEPT !.pc = "executing", !.row = row] \in Run
      BY DEF Run
    <3>1. runs' \in [RunIds -> Run]
      BY <2>1, <3>0 DEF Begin
    <3>2. RunsHaveTasks'
      BY <2>1 DEF Begin, RunsHaveTasks, Alive
    <3> QED BY <2>1, <3>1, <3>2 DEF Begin, table, life, walk, slots, TableType,
                                   LifeType, WalkType, SlotsType
  <2>2. ASSUME NEW ok \in BOOLEAN, Record(r, ok) PROVE TypeInv'
    <3> DEFINE row == IF ok /\ runs[r].row = "running" THEN Status(runs[r])
                      ELSE runs[r].row
    <3>a. row \in {"none", "running", "completed", "failed", "cancelled"}
      BY DEF Run, Status
    <3>0. [runs[r] EXCEPT !.pc = "recorded", !.row = row] \in Run
      BY <3>a DEF Run
    <3>1. runs' \in [RunIds -> Run]
      BY <2>2, <3>0 DEF Record
    <3>2. RunsHaveTasks'
      BY <2>2 DEF Record, RunsHaveTasks, Alive, Run
    <3> QED BY <2>2, <3>1, <3>2 DEF Record, table, life, walk, slots, TableType,
                                   LifeType, WalkType, SlotsType
  <2>3. ASSUME NEW ok \in BOOLEAN, FinishCron(r, ok) PROVE TypeInv'
    <3>1. SetNextRun(runs[r].task, ParseAndNext(runs[r].sched, now)) \in [Tasks -> Row]
      BY SetNextRunType, NextIsLater DEF TableType, Run
    <3>2. BudgetsType'
      BY <2>3 DEF FinishCron, SecondWrite, budgets
    <3>3. TableType'
      BY <2>3, <3>1 DEF FinishCron, SecondWrite, TableType
    <3> QED BY <2>3, <3>2, <3>3, RecordTypes
            DEF FinishCron, DropFiring, ReleaseToken, Over, NewRun, life, walk,
                LifeType, WalkType, SlotsType, RunsHaveTasks, Alive
  <2>4. ASSUME NEW res \in {"ok", "fail", "cancelled"}, Return(r, res) PROVE TypeInv'
    <3>1. runs' \in [RunIds -> Run]
      <4>1. [runs[r] EXCEPT !.pc = "returned", !.result = res] \in Run
        BY RunUpdates
      <4> QED BY <2>4, <4>1 DEF Return
    <3>2. RunsHaveTasks'
      BY <2>4 DEF Return, RunsHaveTasks, Alive
    <3> QED BY <2>4, <3>1, <3>2 DEF Return, table, life, walk, slots, TableType,
                                   LifeType, WalkType, SlotsType
  <2>5. CASE Release(r)
    <3>1. runs' \in [RunIds -> Run] /\ RunsHaveTasks'
      BY <2>5, RecordTypes DEF Release, Over, NewRun, RunsHaveTasks, Alive, Run
    <3> QED BY <2>5, <3>1 DEF Release, table, life, walk, slots, TableType, LifeType,
                              WalkType, SlotsType
  <2> QED BY <1>8, <2>1, <2>2, <2>3, <2>4, <2>5 DEF RunStep
<1>9. CASE UNCHANGED vars
  BY <1>9 DEF vars, table, life, walk, slots, TableType, LifeType, WalkType,
              SlotsType, RunsHaveTasks, Alive
<1> QED BY <1>1, <1>2, <1>3, <1>4, <1>5, <1>6, <1>7, <1>8, <1>9 DEF Next

\* Every variable keeps its type and every live execution has a task.
THEOREM TypeCorrect == Spec => []TypeOK
<1> QED BY TypeInit, TypeStep, PTL DEF Spec, TypeInv

----------------------------------------------------------------------------
(* Re-entry and shutdown.  OneCronRunPerTask alone is not inductive: it     *)
(* rests on s.firing covering every execution the loop has fired, from the  *)
(* claim on, and on the walk happening only while the loop is alive.        *)

IsCron(r) == Alive(r) /\ runs[r].kind = "cron"

FiringCovers ==
  /\ \A r \in RunIds : IsCron(r) => runs[r].task \in firing /\ runs[r].pc # "checked"
  /\ \A r \in RunIds : runs[r].pc = "released" => runs[r].kind = "cron"
  /\ \A t \in Tasks : phase[t] = "claimed" => t \in firing

NoReentry ==
  /\ \A r, q \in RunIds :
       IsCron(r) /\ IsCron(q) /\ runs[r].task = runs[q].task => r = q
  /\ \A t \in Tasks, r \in RunIds :
       phase[t] = "claimed" /\ IsCron(r) => runs[r].task # t

LoopAlive ==
  /\ loop # "scan" => \A t \in Tasks : phase[t] = "none"
  /\ ~storageOpen => loop = "off" /\ \A r \in RunIds : ~IsCron(r)

ReentryInv == FiringCovers /\ NoReentry /\ LoopAlive

\* A step that fires nothing and leaves s.firing and the walk alone.
LEMMA NothingFired ==
  ASSUME ReentryInv, UNCHANGED <<firing, phase, loop, storageOpen>>,
         \A r \in RunIds : IsCron(r)' =>
           IsCron(r) /\ runs'[r].task = runs[r].task /\ runs'[r].pc # "checked",
         \A r \in RunIds : runs'[r].pc = "released" => runs'[r].kind = "cron"
  PROVE  ReentryInv'
BY DEF ReentryInv, FiringCovers, NoReentry, LoopAlive

\* Recording what happens to an execution keeps its identity.
LEMMA FieldsKept ==
  ASSUME NEW x \in Run, NEW a, NEW b
  PROVE  LET y == [x EXCEPT !.pc = a, !.row = b]
         IN  y.pc = a /\ y.task = x.task /\ y.kind = x.kind
BY DEF Run

\* A scheduler that has not started has nothing in flight.
LEMMA ReentryInit == Init => ReentryInv
BY DEF Init, ReentryInv, FiringCovers, NoReentry, LoopAlive, IsCron, Alive, Over, NewRun

\* Nor has one made after a crash.
LEMMA ReentryAfterDeath == ProcessDies => ReentryInv'
BY DEF ProcessDies, ReentryInv, FiringCovers, NoReentry, LoopAlive, IsCron, Alive,
       Over, NewRun

\* claimSlot's test of s.firing and activeRuns is what keeps a second execution
\* out; Stop's wait for the loop and its runs is what keeps the order.
LEMMA ReentryStep == TypeInv /\ ReentryInv /\ [Next]_vars => ReentryInv'
<1> SUFFICES ASSUME TypeInv, ReentryInv, [Next]_vars PROVE ReentryInv'
  OBVIOUS
<1> USE DEF TypeInv, TypeOK
<1>1. CASE Tick \/ Management \/ UNCHANGED vars
  <2>1. UNCHANGED <<firing, phase, loop, storageOpen, runs>>
    BY <1>1 DEF Tick, Management, CreateTask, UpdateTask, WriteUpdate,
                DeleteTask, EnableTask,                 vars, life, walk, slots
  <2> QED BY <2>1, NothingFired DEF IsCron, Alive, ReentryInv, FiringCovers
<1>2. CASE Lifecycle
  <2>1. ASSUME NEW x \in BOOLEAN, Start(x) PROVE ReentryInv'
    BY <2>1 DEF Start, slots, ReentryInv, FiringCovers, NoReentry, LoopAlive,
                IsCron, Alive, WalkType
  <2>2. CASE StopBegin
    BY <2>2, NothingFired DEF StopBegin, walk, slots, IsCron, Alive, ReentryInv,
                              FiringCovers
  <2>3. CASE StopEnd
    <3>1. \A r \in RunIds : ~IsCron(r)
      BY <2>3 DEF StopEnd, WaitGroup, IsCron, Alive, ReentryInv, FiringCovers
    <3> QED BY <2>3, <3>1 DEF StopEnd, walk, slots, ReentryInv, FiringCovers,
                              NoReentry, LoopAlive, IsCron, Alive
  <2>4. CASE StopPanics
    BY <2>4, ReentryAfterDeath DEF StopPanics
  <2> QED BY <1>2, <2>1, <2>2, <2>3, <2>4 DEF Lifecycle
<1>3. CASE Manual
  <2>1. ASSUME NEW t \in Tasks, NEW k \in {"async", "sync"}, NEW r \in RunIds,
               CheckRun(t, k, r)
        PROVE  ReentryInv'
    BY <2>1, NothingFired DEF CheckRun, NewRun, life, walk, slots, IsCron, Alive,
                              ReentryInv, FiringCovers
  <2>2. ASSUME NEW r \in RunIds, CancelRun(r) PROVE ReentryInv'
    BY <2>2, NothingFired DEF CancelRun, Run, life, walk, slots, IsCron, Alive,
                              ReentryInv, FiringCovers
  <2>3. ASSUME NEW t \in Tasks, CancelTaskRuns(t) PROVE ReentryInv'
    BY <2>3, NothingFired DEF CancelTaskRuns, Run, life, walk, slots, IsCron, Alive,
                              ReentryInv, FiringCovers
  <2> QED BY <1>3, <2>1, <2>2, <2>3 DEF Manual
<1>4. CASE Crash
  BY <1>4, ReentryAfterDeath DEF Crash
<1>5. CASE LoopExit
  BY <1>5 DEF LoopExit, life, slots, ReentryInv, FiringCovers, NoReentry, LoopAlive,
              IsCron, Alive
<1>6. CASE LoopStep
  <2>1. CASE Scan
    BY <2>1 DEF Scan, life, slots, ReentryInv, FiringCovers, NoReentry, LoopAlive,
                IsCron, Alive
  <2>2. CASE ScanDone
    BY <2>2 DEF ScanDone, life, slots, ReentryInv, FiringCovers, NoReentry, LoopAlive,
                IsCron, Alive
  <2>3. ASSUME NEW t \in Tasks, WalkRow(t) PROVE ReentryInv'
    <3>1. CASE SkipRow(t) \/ SkipStale(t)
      BY <3>1 DEF SkipRow, SkipStale, Dropped, AtRow, life, slots, ReentryInv,
                  FiringCovers, NoReentry, LoopAlive, IsCron, Alive, WalkType
    <3>2. CASE Claim(t)
      <4>1. \A r \in RunIds : IsCron(r) => runs[r].task # t
        BY <3>2 DEF Claim, Busy, ReentryInv, FiringCovers
      <4> QED BY <3>2, <4>1 DEF Claim, AtRow, life, ReentryInv, FiringCovers,
                                NoReentry, LoopAlive, IsCron, Alive, WalkType
    <3>3. ASSUME NEW ok \in BOOLEAN, MoveStale(t, ok) PROVE ReentryInv'
      BY <3>3 DEF MoveStale, Dropped, life, ReentryInv, FiringCovers, NoReentry,
                  LoopAlive, IsCron, Alive, WalkType
    <3>4. ASSUME NEW ok \in BOOLEAN, NEW r \in RunIds, Fire(t, r, ok)
          PROVE  ReentryInv'
      <4>1. /\ IsCron(r)' /\ runs'[r].task = t /\ runs'[r].pc = "spawned"
            /\ \A q \in RunIds \ {r} : runs'[q] = runs[q]
        BY <3>4 DEF Fire, NewRun, IsCron, Alive
      <4>2. t \in firing /\ \A q \in RunIds : IsCron(q) => runs[q].task # t
        BY <3>4 DEF Fire, ReentryInv, FiringCovers, NoReentry
      <4>3. loop = "scan" /\ storageOpen
        BY <3>4 DEF Fire, ReentryInv, LoopAlive
      <4>4. /\ phase' = [phase EXCEPT ![t] = "none"]
            /\ UNCHANGED <<firing, loop, storageOpen>>
        BY <3>4 DEF Fire, Dropped, life, slots
      <4>5. FiringCovers'
        BY <4>1, <4>2, <4>4 DEF ReentryInv, FiringCovers, IsCron, Alive, WalkType
      <4>6. NoReentry'
        BY <4>1, <4>2, <4>4 DEF ReentryInv, NoReentry, IsCron, Alive, WalkType
      <4> QED BY <4>3, <4>4, <4>5, <4>6 DEF ReentryInv, LoopAlive
    <3> QED BY <2>3, <3>1, <3>2, <3>3, <3>4 DEF WalkRow
  <2> QED BY <1>6, <2>1, <2>2, <2>3 DEF LoopStep
<1>7. ASSUME NEW r \in RunIds, RunStep(r) PROVE ReentryInv'
  <2>1. ASSUME NEW ok \in BOOLEAN, Begin(r, ok) \/ Record(r, ok) PROVE ReentryInv'
    <3> SUFFICES /\ \A q \in RunIds \ {r} : runs'[q] = runs[q]
                 /\ runs'[r].pc \in {"executing", "recorded"}
                 /\ runs'[r].task = runs[r].task /\ runs'[r].kind = runs[r].kind
      <4>1. Alive(r) /\ UNCHANGED <<firing, phase, loop, storageOpen>>
        BY <2>1 DEF Begin, Record, Alive, life, walk, slots
      <4> QED BY <4>1, NothingFired DEF IsCron, Alive, ReentryInv, FiringCovers
    <3>1. CASE Begin(r, ok)
      <4>1. runs' = [runs EXCEPT ![r] = [@ EXCEPT !.pc = "executing",
                                                 !.row = IF ok THEN "running" ELSE "none"]]
        BY <3>1 DEF Begin
      <4> QED BY <4>1, FieldsKept
    <3>2. CASE Record(r, ok)
      <4>1. runs' = [runs EXCEPT ![r] = [@ EXCEPT !.pc = "recorded",
               !.row = IF ok /\ runs[r].row = "running" THEN Status(runs[r])
                       ELSE runs[r].row]]
        BY <3>2 DEF Record
      <4> QED BY <4>1, FieldsKept
    <3> QED BY <2>1, <3>1, <3>2
  <2>2. ASSUME NEW res \in {"ok", "fail", "cancelled"}, Return(r, res)
        PROVE  ReentryInv'
    BY <2>2, NothingFired DEF Return, Run, life, walk, slots, IsCron, Alive,
                              ReentryInv, FiringCovers
  <2>3. CASE Release(r)
    BY <2>3, NothingFired DEF Release, Over, NewRun, Run, life, walk, slots, IsCron,
                              Alive, ReentryInv, FiringCovers
  <2>4. ASSUME NEW ok \in BOOLEAN, FinishCron(r, ok) PROVE ReentryInv'
    <3>1. PICK t \in Tasks : runs[r].task = t
      BY <2>4 DEF FinishCron, RunsHaveTasks, Alive
    <3>2. /\ runs' = [runs EXCEPT ![r] = Over] /\ firing' = firing \ {t}
          /\ UNCHANGED <<phase, loop, storageOpen>>
      BY <2>4, <3>1 DEF FinishCron, DropFiring, life, walk
    <3>3. runs'[r].pc = "idle" /\ \A q \in RunIds \ {r} : runs'[q] = runs[q]
      BY <3>2 DEF Over, NewRun
    <3>4. IsCron(r)
      BY <2>4 DEF FinishCron, ReentryInv, FiringCovers, IsCron, Alive
    <3>5. phase[t] # "claimed" /\ \A q \in RunIds \ {r} : IsCron(q) => runs[q].task # t
      BY <3>1, <3>4 DEF ReentryInv, NoReentry
    <3>6. FiringCovers'
      BY <3>2, <3>3, <3>5 DEF ReentryInv, FiringCovers, IsCron, Alive
    <3>7. NoReentry' /\ LoopAlive'
      BY <3>2, <3>3 DEF ReentryInv, NoReentry, LoopAlive, IsCron, Alive
    <3> QED BY <3>6, <3>7 DEF ReentryInv
  <2> QED BY <1>7, <2>1, <2>2, <2>3, <2>4 DEF RunStep
<1> QED BY <1>1, <1>2, <1>3, <1>4, <1>5, <1>6, <1>7 DEF Next

\* A task never has two executions fired by the loop at the same time.
THEOREM NoTwoCronRuns == Spec => []OneCronRunPerTask
<1>1. ReentryInv => OneCronRunPerTask
  BY DEF ReentryInv, NoReentry, OneCronRunPerTask, CronRuns, IsCron
<1> QED BY <1>1, TypeInit, TypeStep, ReentryInit, ReentryStep, PTL DEF Spec

\* Nothing the loop started is alive once Stop has closed the store.
THEOREM ShutdownOrder == Spec => []StopWaitsForTheLoop
<1>1. ReentryInv => StopWaitsForTheLoop
  BY DEF ReentryInv, LoopAlive, StopWaitsForTheLoop, CronRuns, IsCron
<1> QED BY <1>1, TypeInit, TypeStep, ReentryInit, ReentryStep, PTL DEF Spec

----------------------------------------------------------------------------
(* The semaphore.  The count of its tokens is inductive once the walk is    *)
(* known to happen only inside a scan and a released run to be a cron run.  *)

\* The two sets of token holders are finite, so their sizes add up.
LEMMA HoldersCount ==
  /\ IsFiniteSet(CronRuns) /\ Cardinality(CronRuns) \in Nat
  /\ IsFiniteSet(HeldRows) /\ Cardinality(HeldRows) \in Nat
<1>1. CronRuns \in SUBSET RunIds /\ HeldRows \in SUBSET Tasks
  BY DEF CronRuns, HeldRows
<1> QED BY <1>1, FiniteAssumption, FS_Subset, FS_CardinalityType

\* One holder more or one less is one token more or one less.
LEMMA OneHolder ==
  ASSUME NEW S, IsFiniteSet(S), NEW x
  PROVE  /\ x \notin S => Cardinality(S \cup {x}) = Cardinality(S) + 1
         /\ x \in S => Cardinality(S \ {x}) = Cardinality(S) - 1
BY FS_AddElement, FS_RemoveElement

\* A step that moves no token and changes no holder.
LEMMA TokensKept ==
  ASSUME TokensAccounted, UNCHANGED <<sem, CronRuns, HeldRows>>
  PROVE  TokensAccounted'
BY DEF TokensAccounted

\* A step of the walk that changes the holders among the rows only.
LEMMA RowStep ==
  ASSUME TypeOK, UNCHANGED runs, NEW t \in Tasks, NEW p, phase' = [phase EXCEPT ![t] = p]
  PROVE  /\ CronRuns' = CronRuns
         /\ p \in {"stale", "claimed"} => HeldRows' = HeldRows \cup {t}
         /\ p \notin {"stale", "claimed"} => HeldRows' = HeldRows \ {t}
BY DEF TypeOK, WalkType, CronRuns, HeldRows, Alive

\* A scheduler object without runs has every token.
LEMMA NoTokensHeld ==
  ASSUME sem = 0, CronRuns = {}, HeldRows = {}
  PROVE  TokensAccounted
BY FS_EmptySet, CapacityAssumption DEF TokensAccounted

LEMMA TokensInit == Init => TokensAccounted
<1>1. Init => sem = 0 /\ CronRuns = {} /\ HeldRows = {}
  BY DEF Init, CronRuns, HeldRows, Alive, Over, NewRun
<1> QED BY <1>1, NoTokensHeld

\* The walk takes a token before it holds a row and gives it to the run or
\* back; the run's deferred calls give it back.
LEMMA TokensStep ==
  TypeInv /\ ReentryInv /\ TokensAccounted /\ [Next]_vars => TokensAccounted'
<1> SUFFICES ASSUME TypeInv, ReentryInv, TokensAccounted, [Next]_vars
             PROVE  TokensAccounted'
  OBVIOUS
<1>a. TypeOK /\ sem \in Int /\ MaxConcurrent \in Nat
  BY CapacityAssumption DEF TypeInv, TypeOK, SlotsType
<1>b. ProcessDies => TokensAccounted'
  <2>1. ProcessDies => sem' = 0 /\ CronRuns' = {} /\ HeldRows' = {}
    BY DEF ProcessDies, CronRuns, HeldRows, Alive, Over, NewRun
  <2>2. sem' = 0 /\ CronRuns' = {} /\ HeldRows' = {} => TokensAccounted'
    BY FS_EmptySet, CapacityAssumption DEF TokensAccounted
  <2> QED BY <2>1, <2>2
<1>c. ASSUME UNCHANGED <<sem, runs, phase>> PROVE TokensAccounted'
  BY <1>c, TokensKept DEF CronRuns, HeldRows, Alive
<1>d. ASSUME UNCHANGED <<sem, phase>>,
             \A r \in RunIds : IsCron(r)' <=> IsCron(r)
      PROVE  TokensAccounted'
  <2>1. CronRuns' = CronRuns /\ HeldRows' = HeldRows
    BY <1>d DEF CronRuns, HeldRows, IsCron
  <2> QED BY <1>d, <2>1, TokensKept
<1>1. CASE Tick \/ Management \/ LoopExit \/ UNCHANGED vars
  BY <1>1, <1>c DEF Tick, Management, CreateTask, UpdateTask, WriteUpdate,
                    DeleteTask, EnableTask, LoopExit, vars, walk, slots
<1>2. CASE Lifecycle \/ Crash
  BY <1>2, <1>b, <1>c DEF Lifecycle, Crash, Start, StopBegin, StopEnd, StopPanics,
                          walk, slots
<1>3. CASE Manual
  <2>1. UNCHANGED <<sem, phase>>
    BY <1>3 DEF Manual, CheckRun, CancelRun, CancelTaskRuns, walk, slots
  <2>2. \A r \in RunIds : IsCron(r)' <=> IsCron(r)
    BY <1>3, <1>a DEF TypeOK, Manual, CheckRun, CancelRun, CancelTaskRuns, NewRun,
                      IsCron, Alive, Run
  <2> QED BY <2>1, <2>2, <1>d
<1>4. CASE LoopStep
  <2>1. CASE Scan
    <3>1. CronRuns' = CronRuns /\ sem' = sem
      BY <2>1 DEF Scan, slots, CronRuns, Alive
    <3>2. HeldRows' = HeldRows
      BY <2>1 DEF Scan, HeldRows, ReentryInv, LoopAlive
    <3> QED BY <3>1, <3>2, TokensKept
  <2>2. CASE ScanDone
    BY <2>2, <1>c DEF ScanDone, slots
  <2>3. ASSUME NEW t \in Tasks, SkipRow(t) PROVE TokensAccounted'
    <3>0. UNCHANGED runs /\ phase' = [phase EXCEPT ![t] = "none"]
      BY <2>3 DEF SkipRow, Dropped
    <3>1. CronRuns' = CronRuns /\ HeldRows' = HeldRows \ {t}
      BY <3>0, <1>a DEF TypeOK, WalkType, CronRuns, HeldRows, Alive
    <3>2. t \notin HeldRows /\ sem' = sem
      BY <2>3 DEF SkipRow, AtRow, HeldRows, slots
    <3>3. HeldRows' = HeldRows
      BY <3>1, <3>2
    <3> QED BY <3>1, <3>2, <3>3, TokensKept
  <2>4. ASSUME NEW t \in Tasks, SkipStale(t) \/ Claim(t) PROVE TokensAccounted'
    <3>1. CronRuns' = CronRuns /\ HeldRows' = HeldRows \cup {t}
      BY <2>4, <1>a, RowStep DEF SkipStale, Claim
    <3>2. t \notin HeldRows /\ sem' = sem + 1 /\ sem < MaxConcurrent
      BY <2>4 DEF SkipStale, Claim, AtRow, HeldRows
    <3>3. Cardinality(HeldRows \cup {t}) = Cardinality(HeldRows) + 1
      BY <3>2, HoldersCount, OneHolder
    <3> QED BY <3>1, <3>2, <3>3, <1>a, HoldersCount DEF TokensAccounted
  <2>5. ASSUME NEW t \in Tasks, NEW ok \in BOOLEAN, MoveStale(t, ok)
        PROVE  TokensAccounted'
    <3>1. CronRuns' = CronRuns /\ HeldRows' = HeldRows \ {t}
      BY <2>5, <1>a, RowStep DEF MoveStale, Dropped
    <3>2. t \in HeldRows /\ sem' = sem - 1
      BY <2>5 DEF MoveStale, ReleaseToken, HeldRows
    <3>3. Cardinality(HeldRows \ {t}) = Cardinality(HeldRows) - 1
      BY <3>2, HoldersCount, OneHolder
    <3> QED BY <3>1, <3>2, <3>3, <1>a, HoldersCount DEF TokensAccounted
  <2>6. ASSUME NEW t \in Tasks, NEW r \in RunIds, NEW ok \in BOOLEAN, Fire(t, r, ok)
        PROVE  TokensAccounted'
    <3>1. HeldRows' = HeldRows \ {t} /\ t \in HeldRows /\ sem' = sem
      BY <2>6, <1>a DEF Fire, Dropped, HeldRows, TypeOK, WalkType, slots
    <3>2. CronRuns' = CronRuns \cup {r} /\ r \notin CronRuns
      BY <2>6, <1>a DEF Fire, NewRun, CronRuns, Alive, TypeOK
    <3>3. Cardinality(HeldRows \ {t}) = Cardinality(HeldRows) - 1
      BY <3>1, HoldersCount, OneHolder
    <3>4. Cardinality(CronRuns \cup {r}) = Cardinality(CronRuns) + 1
      BY <3>2, HoldersCount, OneHolder
    <3> QED BY <3>1, <3>2, <3>3, <3>4, <1>a, HoldersCount DEF TokensAccounted
  <2> QED BY <1>4, <2>1, <2>2, <2>3, <2>4, <2>5, <2>6 DEF LoopStep, WalkRow
<1>5. ASSUME NEW r \in RunIds, RunStep(r) PROVE TokensAccounted'
  <2>1. ASSUME NEW ok \in BOOLEAN, Begin(r, ok) \/ Record(r, ok) PROVE TokensAccounted'
    <3>1. UNCHANGED <<sem, phase>>
      BY <2>1 DEF Begin, Record, walk, slots
    <3>2. \E a \in {"executing", "recorded"} : \E b :
             Alive(r) /\ runs' = [runs EXCEPT ![r] = [runs[r] EXCEPT !.pc = a, !.row = b]]
      BY <2>1 DEF Begin, Record, Alive
    <3>3. \A q \in RunIds : IsCron(q)' <=> IsCron(q)
      BY <3>2, <1>a DEF TypeOK, Run, IsCron, Alive
    <3> QED BY <3>1, <3>3, <1>d
  <2>2. ASSUME NEW res \in {"ok", "fail", "cancelled"}, Return(r, res)
        PROVE  TokensAccounted'
    <3>1. UNCHANGED <<sem, phase>> /\ \A q \in RunIds : IsCron(q)' <=> IsCron(q)
      BY <2>2, <1>a DEF TypeOK, Run, Return, IsCron, Alive, walk, slots
    <3> QED BY <3>1, <1>d
  <2>3. CASE Release(r)
    <3>1. UNCHANGED <<sem, phase>> /\ \A q \in RunIds : IsCron(q)' <=> IsCron(q)
      BY <2>3, <1>a DEF TypeOK, Run, Release, Over, NewRun, IsCron, Alive, walk, slots
    <3> QED BY <3>1, <1>d
  <2>4. ASSUME NEW ok \in BOOLEAN, FinishCron(r, ok) PROVE TokensAccounted'
    <3>1. HeldRows' = HeldRows /\ sem' = sem - 1
      BY <2>4 DEF FinishCron, ReleaseToken, HeldRows, walk
    <3>2. r \in CronRuns
      BY <2>4 DEF FinishCron, CronRuns, Alive, ReentryInv, FiringCovers
    <3>3. CronRuns' = CronRuns \ {r}
      BY <2>4, <1>a DEF FinishCron, Over, NewRun, CronRuns, Alive, TypeOK
    <3>4. Cardinality(CronRuns \ {r}) = Cardinality(CronRuns) - 1
      BY <3>2, HoldersCount, OneHolder
    <3> QED BY <3>1, <3>3, <3>4, <1>a, HoldersCount DEF TokensAccounted
  <2> QED BY <1>5, <2>1, <2>2, <2>3, <2>4 DEF RunStep
<1> QED BY <1>1, <1>2, <1>3, <1>4, <1>5 DEF Next

\* No path of the loop or of a run leaks a token of the semaphore or gives one
\* back twice, and no more than MaxConcurrentTasks exist.
THEOREM TokensBalance == Spec => []TokensAccounted
<1> QED BY TypeInit, TypeStep, ReentryInit, ReentryStep, TokensInit, TokensStep, PTL
        DEF Spec

----------------------------------------------------------------------------
(* Slots.  firedSlot remembers one slot of a task and the table keeps one,  *)
(* and an update may set the row back at any time.  What holds all the same *)
(* is that a slot that has fired and that no update has set again is either *)
(* the one firedSlot remembers or nowhere: not in the row, not in the batch.*)

\* The slots of t that the histories hold.
Dated(t) == (fired[t] \cup moved[t]) \ {NoSlot}

\* A row that is not in the table has no next_run; one that is, was created.
AbsentRowIsEmpty ==
  \A t \in Tasks : /\ tasks[t].present \/ tasks[t].nextRun = NoSlot
                   /\ tasks[t].present => tasks[t].used

\* A row being walked was due when the batch was read.
BatchWasDue ==
  \A t \in Tasks :
    phase[t] # "none" =>
      tasks[t].used /\ snap[t].nextRun <= scanNow /\ scanNow <= now

\* A slot fires when it is due, and during the walk that found it due.
FiredIsPast ==
  \A t \in Tasks : \A x \in Dated(t) :
    tasks[t].used /\ x <= now /\ (phase[t] # "none" => x <= scanNow)

\* A slot that has fired and is still in the row or in the batch is the one
\* claimSlot compares with.
FiredIsKnown ==
  \A t \in Tasks :
    /\ tasks[t].nextRun \in fired[t] \ {NoSlot} =>
         /\ firedSlot[t] = tasks[t].nextRun
         /\ phase[t] # "none" => snap[t].nextRun = tasks[t].nextRun
    /\ phase[t] # "none" /\ snap[t].nextRun \in fired[t] \ {NoSlot} =>
         firedSlot[t] = snap[t].nextRun

\* A slot whose claim reached the table is neither in the row nor in the batch.
MovedIsGone ==
  \A t \in Tasks : \A m \in moved[t] \ {NoSlot} :
    tasks[t].nextRun # m /\ (phase[t] # "none" => snap[t].nextRun # m)

SlotInv ==
  AbsentRowIsEmpty /\ BatchWasDue /\ FiredIsPast /\ FiredIsKnown /\ MovedIsGone

\* Nothing has fired yet.
LEMMA SlotInit == Init => SlotInv
BY DEF Init, SlotInv, AbsentRowIsEmpty, BatchWasDue, FiredIsPast, FiredIsKnown,
       MovedIsGone, Dated, NoRow

\* A new process walks nothing and remembers nothing: the table and what was
\* moved stay.
LEMMA SlotAfterDeath == TypeOK /\ SlotInv /\ ProcessDies => SlotInv'
BY DEF ProcessDies, SlotInv, AbsentRowIsEmpty, BatchWasDue, FiredIsPast, FiredIsKnown,
       MovedIsGone, Dated, table, TypeOK, SlotsType

\* Rows only leave the walk.
Shrinks ==
  /\ phase' \in [Tasks -> {"none", "queued", "stale", "claimed"}]
  /\ \A u \in Tasks : phase'[u] # "none" => phase[u] # "none" /\ snap'[u] = snap[u]

\* The loop, a run or nobody writes next_run of one row: what is written is none
\* of the slots the histories hold.
LEMMA FreshWrite ==
  ASSUME TypeOK, SlotInv, NEW t, NEW n \in SlotSet,
         t \in Tasks => n \notin Dated(t),
         tasks' = SetNextRun(t, n) \/ tasks' = tasks,
         Shrinks, UNCHANGED <<now, scanNow, fired, firedSlot, moved>>
  PROVE  SlotInv'
<1>1. \A u \in Tasks : /\ tasks'[u].used = tasks[u].used
                       /\ tasks'[u].present = tasks[u].present
                       /\ \/ tasks'[u].nextRun = tasks[u].nextRun
                          \/ u = t /\ tasks'[u].nextRun = n /\ tasks[u].present
  <2>1. CASE tasks' = tasks
    BY <2>1
  <2>2. CASE tasks[t].present /\ tasks' = [tasks EXCEPT ![t].nextRun = n]
    BY <2>2 DEF TypeOK, TableType, Row
  <2> QED BY <2>1, <2>2 DEF SetNextRun
<1>2. AbsentRowIsEmpty'
  BY <1>1 DEF SlotInv, AbsentRowIsEmpty
<1>3. BatchWasDue'
  BY <1>1 DEF SlotInv, BatchWasDue, Shrinks
<1>4. FiredIsPast'
  BY <1>1 DEF SlotInv, FiredIsPast, Dated, Shrinks
<1>5. FiredIsKnown'
  BY <1>1 DEF SlotInv, FiredIsKnown, Dated, Shrinks
<1>6. MovedIsGone'
  BY <1>1 DEF SlotInv, MovedIsGone, Dated, Shrinks
<1> QED BY <1>2, <1>3, <1>4, <1>5, <1>6 DEF SlotInv

\* A user's statement: a row is made, enabled or deleted, or an update writes the
\* next_run it computed some time ago, which the histories then leave out.
LEMMA UserWrites ==
  ASSUME TypeOK, SlotInv, Management
  PROVE  SlotInv'
<1>t. /\ tasks \in [Tasks -> Row] /\ fired \in [Tasks -> SUBSET SlotSet]
      /\ moved \in [Tasks -> SUBSET SlotSet] /\ UNCHANGED <<now, scanNow, phase, snap, firedSlot>>
  BY DEF TypeOK, TableType, SlotsType, Management, CreateTask, UpdateTask, WriteUpdate,
         DeleteTask, EnableTask, walk, slots
<1> USE DEF SlotInv
<1>1. ASSUME NEW t \in Tasks, NEW s, NEW n, NEW e, CreateTask(t, s, n, e)
      PROVE  SlotInv'
  <2>1. /\ ~tasks[t].used /\ tasks'[t].used /\ tasks'[t].present
        /\ \A u \in Tasks \ {t} : tasks'[u] = tasks[u]
        /\ UNCHANGED <<fired, moved>>
    BY <1>1, <1>t DEF CreateTask, slots
  <2>2. phase[t] = "none" /\ Dated(t) = {}
    BY <2>1 DEF BatchWasDue, FiredIsPast
  <2>3. AbsentRowIsEmpty' /\ BatchWasDue'
    BY <1>t, <2>1, <2>2 DEF AbsentRowIsEmpty, BatchWasDue
  <2>4. FiredIsPast' /\ FiredIsKnown' /\ MovedIsGone'
    BY <1>t, <2>1, <2>2 DEF FiredIsPast, FiredIsKnown, MovedIsGone, Dated
  <2> QED BY <2>3, <2>4
<1>2. ASSUME NEW t \in Tasks, NEW s, NEW e, UpdateTask(t, s, e) PROVE SlotInv'
  <2>1. UNCHANGED <<tasks, fired, moved>>
    BY <1>2 DEF UpdateTask, table, slots
  <2> QED BY <1>t, <2>1 DEF AbsentRowIsEmpty, BatchWasDue, FiredIsPast, FiredIsKnown,
                           MovedIsGone, Dated
<1>3. ASSUME NEW t \in Tasks, NEW ok, WriteUpdate(t, ok) PROVE SlotInv'
  <2>1. CASE UNCHANGED <<tasks, fired, moved>>
    BY <1>t, <2>1 DEF AbsentRowIsEmpty, BatchWasDue, FiredIsPast, FiredIsKnown,
                      MovedIsGone, Dated
  <2>2. CASE ok /\ tasks[t].present
    <3> DEFINE n == updates[t].nextRun
    <3>1. /\ tasks'[t].used = tasks[t].used /\ tasks'[t].present
          /\ tasks'[t].nextRun = n
          /\ \A u \in Tasks \ {t} : tasks'[u] = tasks[u]
      <4> DEFINE row == [tasks[t] EXCEPT !.sched = updates[t].sched,
                                         !.enabled = updates[t].enabled, !.nextRun = n]
      <4>1. tasks' = [tasks EXCEPT ![t] = row]
        BY <1>3, <2>2 DEF WriteUpdate
      <4>2. row.used = tasks[t].used /\ row.present = tasks[t].present /\ row.nextRun = n
        BY <1>t DEF Row
      <4> HIDE DEF row
      <4> QED BY <1>t, <2>2, <4>1, <4>2
    <3>2. /\ fired' = [fired EXCEPT ![t] = @ \ {n}]
          /\ moved' = [moved EXCEPT ![t] = @ \ {n}]
      BY <1>3, <2>2 DEF WriteUpdate
    <3> HIDE DEF n
    <3>3. /\ n \notin fired'[t] /\ n \notin moved'[t]
          /\ \A u \in Tasks : fired'[u] \subseteq fired[u] /\ moved'[u] \subseteq moved[u]
      BY <1>t, <3>2
    <3>4. AbsentRowIsEmpty' /\ BatchWasDue'
      BY <1>t, <2>2, <3>1 DEF AbsentRowIsEmpty, BatchWasDue
    <3>5. FiredIsPast'
      BY <1>t, <3>1, <3>3 DEF FiredIsPast, Dated
    <3>6. FiredIsKnown'
      BY <1>t, <3>1, <3>3 DEF FiredIsKnown
    <3>7. MovedIsGone'
      BY <1>t, <3>1, <3>3 DEF MovedIsGone
    <3> QED BY <3>4, <3>5, <3>6, <3>7
  <2> QED BY <1>3, <2>1, <2>2 DEF WriteUpdate, table
<1>4. ASSUME NEW t \in Tasks, NEW e, DeleteTask(t) \/ EnableTask(t, e) PROVE SlotInv'
  <2>1. /\ tasks'[t].used
        /\ \/ tasks'[t].present = tasks[t].present /\ tasks'[t].nextRun = tasks[t].nextRun
           \/ tasks'[t].nextRun = NoSlot /\ ~tasks'[t].present
        /\ \A u \in Tasks \ {t} : tasks'[u] = tasks[u]
        /\ UNCHANGED <<fired, moved>>
    BY <1>4, <1>t DEF DeleteTask, EnableTask, GoneRow, NoRow, Row, slots, AbsentRowIsEmpty
  <2>2. AbsentRowIsEmpty' /\ BatchWasDue'
    BY <1>t, <2>1 DEF AbsentRowIsEmpty, BatchWasDue
  <2>3. FiredIsPast' /\ FiredIsKnown' /\ MovedIsGone'
    BY <1>t, <2>1 DEF FiredIsPast, FiredIsKnown, MovedIsGone, Dated
  <2> QED BY <2>2, <2>3
<1> QED BY <1>1, <1>2, <1>3, <1>4 DEF Management

\* claimSlot refuses the slot firedSlot remembers, so that it fires a slot of
\* which the histories know nothing.
LEMMA ClaimIsNew ==
  ASSUME TypeOK, SlotInv, NEW t \in Tasks, Claim(t), snap[t].nextRun # NoSlot
  PROVE  snap[t].nextRun \notin fired[t]
BY DEF Claim, AtRow, AlreadyFired, SlotInv, FiredIsKnown

\* The claim: the slot is remembered, and nothing of the row or the batch is
\* another slot that has fired.
LEMMA ClaimKeepsSlots ==
  ASSUME TypeOK, SlotInv, NEW t \in Tasks, Claim(t)
  PROVE  SlotInv'
<1> DEFINE slot == snap[t].nextRun
<1>1. /\ phase[t] = "queued" /\ UNCHANGED <<now, tasks, moved, scanNow, snap>>
      /\ \A u \in Tasks : phase'[u] # "none" => phase[u] # "none"
      /\ fired' = [fired EXCEPT ![t] = @ \cup {slot}]
      /\ slot # NoSlot => firedSlot' = [firedSlot EXCEPT ![t] = slot]
      /\ slot = NoSlot => firedSlot' = firedSlot
      /\ fired \in [Tasks -> SUBSET SlotSet] /\ firedSlot \in [Tasks -> SlotSet]
  BY DEF Claim, AtRow, table, TypeOK, SlotsType, WalkType
<1>2. slot # NoSlot => slot \notin fired[t]
  BY ClaimIsNew
<1> HIDE DEF slot
<1>3. \A u \in Tasks \ {t} : fired'[u] = fired[u] /\ firedSlot'[u] = firedSlot[u]
  BY <1>1
<1>4. fired'[t] = fired[t] \cup {slot} /\ (slot # NoSlot => firedSlot'[t] = slot)
  BY <1>1
<1>5. AbsentRowIsEmpty' /\ BatchWasDue' /\ MovedIsGone'
  BY <1>1 DEF SlotInv, AbsentRowIsEmpty, BatchWasDue, MovedIsGone
<1>6. FiredIsPast'
  <2>1. tasks[t].used /\ slot <= now /\ slot <= scanNow
    BY <1>1 DEF SlotInv, BatchWasDue, slot, TypeOK, WalkType, Row, SlotSet, NoSlot, Times
  <2> QED BY <1>1, <1>3, <1>4, <2>1 DEF SlotInv, FiredIsPast, Dated
<1>7. FiredIsKnown'
  <2>1. /\ tasks[t].nextRun \in fired[t] \ {NoSlot} => slot = tasks[t].nextRun
    BY <1>1 DEF SlotInv, FiredIsKnown, slot
  <2>2. tasks[t].nextRun \notin fired[t] \ {NoSlot}
    BY <1>2, <2>1
  <2> QED BY <1>1, <1>2, <1>3, <1>4, <2>2 DEF SlotInv, FiredIsKnown, slot
<1> QED BY <1>5, <1>6, <1>7 DEF SlotInv

\* The claim reaches the table: the slot leaves the row and the batch for good.
LEMMA MovingKeepsSlots ==
  ASSUME TypeOK, SlotInv, NEW t \in Tasks, phase[t] # "none", NEW n \in SlotSet,
         n \notin Dated(t) \cup {snap[t].nextRun} \/ n = NoSlot,
         tasks' = SetNextRun(t, n),
         moved' = [moved EXCEPT ![t] = @ \cup {snap[t].nextRun}],
         Dropped(t), UNCHANGED <<now, scanNow, fired, firedSlot>>
  PROVE  SlotInv'
<1> DEFINE slot == snap[t].nextRun
<1>1. \A u \in Tasks : /\ tasks'[u].used = tasks[u].used
                       /\ tasks'[u].present = tasks[u].present
                       /\ u # t => tasks'[u] = tasks[u]
  BY DEF SetNextRun, TypeOK, TableType, Row
<1>2. tasks'[t].nextRun = n \/ tasks'[t].nextRun = NoSlot
  BY DEF SetNextRun, TypeOK, TableType, Row, SlotInv, AbsentRowIsEmpty
<1>3. /\ phase'[t] = "none" /\ moved'[t] = moved[t] \cup {slot}
      /\ \A u \in Tasks \ {t} : /\ moved'[u] = moved[u] /\ phase'[u] = phase[u]
                                /\ snap'[u] = snap[u]
  BY DEF Dropped, TypeOK, TableType, WalkType
<1>4. tasks[t].used /\ slot <= now
  BY DEF SlotInv, BatchWasDue, TypeOK, WalkType, Row, SlotSet, NoSlot, Times
<1> HIDE DEF slot
<1>5. AbsentRowIsEmpty'
  <2>1. tasks'[t].present \/ tasks'[t].nextRun = NoSlot
    BY <1>1 DEF SetNextRun, SlotInv, AbsentRowIsEmpty
  <2> QED BY <1>1, <2>1 DEF SlotInv, AbsentRowIsEmpty
<1>6. BatchWasDue'
  BY <1>1, <1>3 DEF SlotInv, BatchWasDue
<1>7. FiredIsPast'
  BY <1>1, <1>3, <1>4 DEF SlotInv, FiredIsPast, Dated
<1>8. FiredIsKnown'
  BY <1>1, <1>2, <1>3 DEF SlotInv, FiredIsKnown, Dated
<1>9. MovedIsGone'
  <2>1. \A m \in moved'[t] \ {NoSlot} : tasks'[t].nextRun # m
    BY <1>2, <1>3 DEF Dated, slot
  <2> QED BY <1>1, <1>3, <2>1 DEF SlotInv, MovedIsGone
<1> QED BY <1>5, <1>6, <1>7, <1>8, <1>9 DEF SlotInv

\* What the walk writes lies after scanNow, what a run writes lies after now, and
\* the slots that have fired do not.
LEMMA WritesAreFresh ==
  ASSUME TypeOK, SlotInv, NEW t \in Tasks, NEW s \in AnySchedule
  PROVE  /\ phase[t] # "none" =>
              LET n == ParseAndNext(s, scanNow)
              IN  n \notin Dated(t) /\ (n # snap[t].nextRun \/ n = NoSlot)
         /\ ParseAndNext(s, now) \notin Dated(t)
<1>1. \A x \in Dated(t) : x \in Int /\ x # NoSlot
  BY DEF Dated, TypeOK, TableType, SlotsType, SlotSet, NoSlot
<1>2. now \in Times /\ scanNow \in Times /\ Times \subseteq Int
  BY BoundsAssumption DEF TypeOK, WalkType, Times
<1>3. /\ ParseAndNext(s, scanNow) # NoSlot => ParseAndNext(s, scanNow) > scanNow
      /\ ParseAndNext(s, now) # NoSlot => ParseAndNext(s, now) > now
      /\ ParseAndNext(s, scanNow) \in Int /\ ParseAndNext(s, now) \in Int
  BY <1>2, NextIsLater DEF SlotSet, NoSlot
<1>4. \A x \in Dated(t) : x <= now /\ (phase[t] # "none" => x <= scanNow)
  BY DEF SlotInv, FiredIsPast
<1>5. phase[t] # "none" => snap[t].nextRun <= scanNow
  BY DEF SlotInv, BatchWasDue
<1>6. snap[t].nextRun \in Int
  BY DEF TypeOK, WalkType, Row, SlotSet, NoSlot
<1> QED BY <1>1, <1>2, <1>3, <1>4, <1>5, <1>6

\* No step brings a slot that has fired back into the row or the batch, but for
\* the update that takes it out of the histories.
LEMMA SlotStep == TypeInv /\ SlotInv /\ [Next]_vars => SlotInv'
<1> SUFFICES ASSUME TypeInv, SlotInv, [Next]_vars PROVE SlotInv'
  OBVIOUS
<1>t. TypeOK /\ phase \in [Tasks -> {"none", "queued", "stale", "claimed"}]
  BY DEF TypeInv, TypeOK, WalkType
<1>k. ASSUME UNCHANGED <<now, tasks, moved, fired, firedSlot, scanNow, phase, snap>>
      PROVE  SlotInv'
  BY <1>k DEF SlotInv, AbsentRowIsEmpty, BatchWasDue, FiredIsPast, FiredIsKnown,
              MovedIsGone, Dated
<1>1. CASE Tick
  <2>1. /\ now' = now + 1 /\ now \in Int /\ scanNow \in Int
        /\ UNCHANGED <<tasks, moved, fired, firedSlot, scanNow, phase, snap>>
    BY <1>1, <1>t DEF Tick, table, walk, slots, TypeOK, WalkType, Times
  <2>2. \A t \in Tasks : \A x \in Dated(t) : x \in Int
    BY <1>t DEF Dated, TypeOK, TableType, SlotsType, SlotSet, NoSlot
  <2>3. FiredIsPast'
    BY <2>1, <2>2 DEF SlotInv, FiredIsPast, Dated
  <2> QED BY <2>1, <2>3 DEF SlotInv, AbsentRowIsEmpty, BatchWasDue, FiredIsKnown, MovedIsGone
<1>2. CASE Lifecycle
  <2>1. CASE StopPanics
    BY <2>1, <1>t, SlotAfterDeath DEF StopPanics
  <2>2. ASSUME NEW x \in BOOLEAN, Start(x) PROVE SlotInv'
    BY <2>2, <1>k DEF Start, table, slots
  <2>3. CASE StopBegin \/ StopEnd
    BY <2>3, <1>k DEF StopBegin, StopEnd, table, walk, slots
  <2> QED BY <1>2, <2>1, <2>2, <2>3 DEF Lifecycle
<1>3. CASE Management
  BY <1>3, <1>t, UserWrites
<1>4. CASE Manual
  BY <1>4, <1>k DEF Manual, CheckRun, CancelRun, CancelTaskRuns, table, walk, slots
<1>5. CASE Crash
  BY <1>5, <1>t, SlotAfterDeath DEF Crash
<1>6. CASE LoopExit
  BY <1>6, <1>k DEF LoopExit, table, slots
<1>7. CASE LoopStep
  <2>1. CASE Scan
    <3>1. /\ UNCHANGED <<now, tasks, moved, fired, firedSlot>> /\ scanNow' = now
          /\ \A t \in Tasks : phase'[t] # "none" => Due(tasks[t]) /\ snap'[t] = tasks[t]
          /\ now <= now
      BY <2>1, <1>t DEF Scan, table, slots, TypeOK, Times
    <3> QED BY <3>1 DEF Due, SlotInv, AbsentRowIsEmpty, BatchWasDue, FiredIsPast,
                        FiredIsKnown, MovedIsGone, Dated
  <2>2. CASE ScanDone
    BY <2>2 DEF ScanDone, table, slots, SlotInv, AbsentRowIsEmpty, BatchWasDue,
                FiredIsPast, FiredIsKnown, MovedIsGone, Dated
  <2>3. ASSUME NEW t \in Tasks, WalkRow(t) PROVE SlotInv'
    <3> DEFINE n == ParseAndNext(snap[t].sched, scanNow)
    <3>1. snap[t].sched \in AnySchedule /\ n \in SlotSet
      BY <1>t, NextIsLater DEF TypeOK, WalkType, Row
    <3>2. phase[t] # "none" => n \notin Dated(t) /\ (n # snap[t].nextRun \/ n = NoSlot)
      BY <1>t, <3>1, WritesAreFresh
    <3> HIDE DEF n
    <3>3. CASE SkipRow(t)
      <4>1. Shrinks /\ UNCHANGED <<now, tasks, moved, fired, firedSlot, scanNow>>
        BY <3>3, <1>t DEF SkipRow, Dropped, Shrinks, table, slots, TypeOK, WalkType
      <4>2. phase[t] # "none"
        BY <3>3 DEF SkipRow, AtRow
      <4> QED BY <1>t, <3>1, <3>2, <4>1, <4>2, FreshWrite
    <3>4. CASE SkipStale(t)
      <4>1. /\ UNCHANGED <<now, tasks, moved, fired, firedSlot, scanNow, snap>>
            /\ \A u \in Tasks : phase'[u] # "none" => phase[u] # "none"
        BY <3>4, <1>t DEF SkipStale, AtRow, table
      <4> QED BY <4>1 DEF SlotInv, AbsentRowIsEmpty, BatchWasDue, FiredIsPast,
                          FiredIsKnown, MovedIsGone, Dated
    <3>5. CASE Claim(t)
      BY <3>5, <1>t, ClaimKeepsSlots
    <3>6. ASSUME NEW ok \in BOOLEAN, MoveStale(t, ok) PROVE SlotInv'
      <4>1. Shrinks /\ UNCHANGED <<now, moved, fired, firedSlot, scanNow>>
        BY <3>6, <1>t DEF MoveStale, Dropped, Shrinks, TypeOK, WalkType
      <4>2. phase[t] # "none" /\ (tasks' = SetNextRun(t, n) \/ tasks' = tasks)
        BY <3>6 DEF MoveStale, n
      <4> QED BY <1>t, <3>1, <3>2, <4>1, <4>2, FreshWrite
    <3>7. ASSUME NEW ok \in BOOLEAN, NEW r \in RunIds, Fire(t, r, ok) PROVE SlotInv'
      <4>1. /\ phase[t] # "none" /\ Dropped(t)
            /\ UNCHANGED <<now, fired, firedSlot, scanNow>>
        BY <3>7 DEF Fire, slots
      <4>2. CASE UNCHANGED <<tasks, moved>>
        <5>1. Shrinks
          BY <4>1, <1>t DEF Dropped, Shrinks, TypeOK, WalkType
        <5> QED BY <1>t, <3>1, <3>2, <4>1, <4>2, <5>1, FreshWrite
      <4>3. CASE /\ tasks' = SetNextRun(t, n)
                 /\ moved' = [moved EXCEPT ![t] = @ \cup {snap[t].nextRun}]
        BY <1>t, <3>1, <3>2, <4>1, <4>3, MovingKeepsSlots
      <4> QED BY <3>7, <4>2, <4>3 DEF Fire, table, n
    <3> QED BY <2>3, <3>3, <3>4, <3>5, <3>6, <3>7 DEF WalkRow
  <2> QED BY <1>7, <2>1, <2>2, <2>3 DEF LoopStep
<1>8. ASSUME NEW r \in RunIds, RunStep(r) PROVE SlotInv'
  <2>1. ASSUME NEW ok \in BOOLEAN, FinishCron(r, ok) PROVE SlotInv'
    <3> DEFINE n == ParseAndNext(runs[r].sched, now)
    <3>1. n \in SlotSet /\ runs[r].sched \in AnySchedule
      BY <1>t, NextIsLater DEF TypeOK, Run
    <3>2. runs[r].task \in Tasks => n \notin Dated(runs[r].task)
      BY <1>t, <3>1, WritesAreFresh
    <3>3. Shrinks /\ UNCHANGED <<now, moved, fired, firedSlot, scanNow>>
      BY <2>1, <1>t DEF FinishCron, walk, Shrinks
    <3>4. tasks' = SetNextRun(runs[r].task, n) \/ tasks' = tasks
      BY <2>1 DEF FinishCron, SecondWrite
    <3> HIDE DEF n
    <3> QED BY <1>t, <3>1, <3>2, <3>3, <3>4, FreshWrite
  <2> QED BY <1>8, <2>1, <1>k DEF RunStep, Begin, Record, Return, Release, table, walk, slots
<1>9. CASE UNCHANGED vars
  BY <1>9, <1>k DEF vars, table, walk, slots
<1> QED BY <1>1, <1>2, <1>3, <1>4, <1>5, <1>6, <1>7, <1>8, <1>9 DEF Next

\* The steps that change what has fired or what is being fired.
LEMMA FiringSteps ==
  ASSUME [Next]_vars, ~UNCHANGED <<fired, firing>>
  PROVE  \/ StopPanics \/ Crash \/ \E t \in Tasks : Claim(t)
         \/ \E r \in RunIds, ok \in BOOLEAN : FinishCron(r, ok)
         \/ \E t \in Tasks, ok \in BOOLEAN : WriteUpdate(t, ok)
BY DEF Next, vars, slots, walk, Tick, Lifecycle, Start, StopBegin, StopEnd,
       Management, CreateTask, UpdateTask, DeleteTask, EnableTask, Manual, CheckRun,
       CancelRun, CancelTaskRuns, LoopExit, LoopStep, Scan, ScanDone, WalkRow,
       SkipRow, SkipStale, MoveStale, Fire, RunStep, Begin, Record, Return, Release

\* The scheduler implements SlotFiring: within one life of the process a slot
\* fires at most once (claimSlot), unless an UpdateTask sets the row to it again,
\* and never over an execution of the task.
THEOREM ImplementsSlotFiring == Spec => FiresEachSlotOnce
<1>1. Init => Firing!Init
  BY DEF Init, Firing!Init
<1>2. TypeInv /\ SlotInv /\ [Next]_vars => [Firing!Next]_Firing!vars
  <2> SUFFICES ASSUME TypeInv, SlotInv, [Next]_vars, ~UNCHANGED <<fired, firing>>
               PROVE  Firing!Next
    BY DEF Firing!vars
  <2>t. TypeOK /\ fired \in [Tasks -> SUBSET SlotSet]
    BY DEF TypeInv, TypeOK, SlotsType
  <2>1. CASE StopPanics \/ Crash
    BY <2>1 DEF StopPanics, Crash, ProcessDies, Firing!Next, Firing!Restart
  <2>2. ASSUME NEW t \in Tasks, Claim(t) PROVE Firing!Next
    <3>1. Firing!FireSlot(t, snap[t].nextRun)
      BY <2>2, <2>t, ClaimIsNew DEF Claim, Busy, Firing!FireSlot
    <3>2. snap[t].nextRun \in fired'[t]
      BY <2>2, <2>t DEF Claim
    <3> QED BY <3>1, <3>2 DEF Firing!Next
  <2>3. ASSUME NEW r \in RunIds, NEW ok \in BOOLEAN, FinishCron(r, ok)
        PROVE  Firing!Next
    BY <2>3 DEF FinishCron, DropFiring, TypeInv, RunsHaveTasks, Alive, Firing!Next,
                Firing!Finish
  <2>4. ASSUME NEW t \in Tasks, NEW ok \in BOOLEAN, WriteUpdate(t, ok)
        PROVE  Firing!Next
    <3> DEFINE n == updates[t].nextRun
    <3>1. /\ firing' = firing
          /\ fired' = fired \/ fired' = [fired EXCEPT ![t] = @ \ {n}]
      BY <2>4 DEF WriteUpdate
    <3> HIDE DEF n
    <3>2. n \in fired[t]
      BY <2>t, <3>1
    <3>3. Firing!SetAgain(t, n)
      BY <3>1, <3>2 DEF Firing!SetAgain
    <3> QED BY <3>2, <3>3 DEF Firing!Next
  <2>5. \/ StopPanics \/ Crash \/ \E t \in Tasks : Claim(t)
        \/ \E r \in RunIds, ok \in BOOLEAN : FinishCron(r, ok)
        \/ \E t \in Tasks, ok \in BOOLEAN : WriteUpdate(t, ok)
    BY FiringSteps
  <2> QED BY <2>1, <2>2, <2>3, <2>4, <2>5
<1> QED BY <1>1, <1>2, TypeInit, TypeStep, SlotInit, SlotStep, PTL
        DEF Spec, FiresEachSlotOnce, Firing!Spec

----------------------------------------------------------------------------
(* What a claim fires: never a slot that was moved, nor one that is late.   *)

\* Only a claim fires a slot: every other step leaves fired alone, takes a slot
\* out, or begins a life of the process in which nothing has fired.
LEMMA OnlyClaimsFire ==
  ASSUME TypeInv, [Next]_vars, NEW t \in Tasks, NEW slot \in fired'[t] \ fired[t]
  PROVE  Claim(t) /\ slot = snap[t].nextRun
<1>0. fired \in [Tasks -> SUBSET SlotSet]
  BY DEF TypeInv, TypeOK, SlotsType
<1>1. /\ fired' # fired /\ fired' # [u \in Tasks |-> {}]
      /\ \A n : \A u \in Tasks : fired' # [fired EXCEPT ![u] = @ \ {n}]
  BY <1>0
<1>2. \E u \in Tasks : Claim(u)
  BY <1>1, FiringSteps DEF StopPanics, Crash, ProcessDies, FinishCron, WriteUpdate
<1>3. PICK u \in Tasks : Claim(u)
  BY <1>2
<1>4. fired' = [fired EXCEPT ![u] = @ \cup {snap[u].nextRun}] /\ DOMAIN fired = Tasks
  BY <1>3 DEF Claim, TypeInv, TypeOK, SlotsType
<1> QED BY <1>3, <1>4

\* A slot whose claim reached the table is never fired again, not even by a
\* later process that has lost firedSlot (claimSlot's write of next_run), unless
\* the late statement of an UpdateTask has set the row to it again.
THEOREM MovedStaysMoved == Spec => MovedSlotNeverFires
<1>1. ASSUME TypeInv, SlotInv, [Next]_vars, NEW t \in Tasks
      PROVE  (fired'[t] \ fired[t]) \cap (moved[t] \ {NoSlot}) = {}
  <2> SUFFICES ASSUME NEW slot \in fired'[t] \ fired[t], slot \in moved[t] \ {NoSlot}
               PROVE  FALSE
    OBVIOUS
  <2>1. slot = snap[t].nextRun /\ phase[t] = "queued" /\ slot \in SlotSet
    BY <1>1, OnlyClaimsFire DEF Claim, AtRow, TypeInv, TypeOK, WalkType, Row
  <2> QED BY <1>1, <2>1 DEF SlotInv, MovedIsGone
<1>2. TypeInv /\ SlotInv /\ [Next]_vars =>
        [\A t \in Tasks : (fired'[t] \ fired[t]) \cap (moved[t] \ {NoSlot}) = {}]_vars
  BY <1>1
<1> QED BY <1>2, TypeInit, TypeStep, SlotInit, SlotStep, PTL
        DEF Spec, MovedSlotNeverFires

\* A slot fired by claimSlot is late by no more than the largest grace,
\* whatever the process was doing when it went by.
THEOREM LateSlotsAreSkipped == Spec => MissedSlotNeverFires
<1>1. ASSUME TypeInv, SlotInv, [Next]_vars, NEW t \in Tasks,
             NEW slot \in fired'[t] \ fired[t], snap[t].sched # OneTime, slot # NoSlot
      PROVE  scanNow - slot <= MaxMissedGrace \/ scanNow - slot <= MinMissedGrace
  <2>1. /\ slot = snap[t].nextRun /\ phase[t] = "queued" /\ slot \in SlotSet
        /\ ~missedTooLong(snap[t], scanNow) /\ snap[t].sched \in Schedules
        /\ scanNow \in Times
    BY <1>1, OnlyClaimsFire DEF Claim, AtRow, TypeInv, TypeOK, WalkType, Row, AnySchedule
  <2>2. slot \in Times
    <3>1. slot <= scanNow
      BY <1>1, <2>1 DEF SlotInv, BatchWasDue
    <3> QED BY <1>1, <2>1, <3>1, BoundsAssumption DEF SlotSet, NoSlot, Times
  <2>3. CronNext(snap[t].sched, slot) \in Nat
    BY <2>1, <2>2, CronAssumption
  <2>4. scanNow - slot <= Grace(snap[t].sched, slot)
    <3>1. ~(scanNow - slot > Grace(snap[t].sched, slot))
      BY <1>1, <2>1 DEF missedTooLong
    <3>2. Grace(snap[t].sched, slot) \in Int
      BY <2>2, <2>3, GraceAssumption DEF Grace, Times
    <3> QED BY <3>1, <3>2, <2>1, <2>2 DEF Times
  <2>5. Grace(snap[t].sched, slot) <= MaxMissedGrace \/ Grace(snap[t].sched, slot) = MinMissedGrace
    BY <2>2, <2>3, GraceAssumption DEF Grace, Times
  <2>6. Grace(snap[t].sched, slot) \in Int /\ scanNow - slot \in Int
    BY <2>1, <2>2, <2>3, GraceAssumption DEF Grace, Times
  <2> HIDE DEF Grace
  <2> QED BY <2>4, <2>5, <2>6, GraceAssumption
<1>2. TypeInv /\ SlotInv /\ [Next]_vars =>
        [\A t \in Tasks : \A slot \in fired'[t] \ fired[t] :
           snap[t].sched # OneTime /\ slot # NoSlot =>
             \/ scanNow - slot <= MaxMissedGrace
             \/ scanNow - slot <= MinMissedGrace]_vars
  BY <1>1
<1> QED BY <1>2, TypeInit, TypeStep, SlotInit, SlotStep, PTL
        DEF Spec, MissedSlotNeverFires
=============================================================================
