--------------------------- MODULE TaskScheduler ---------------------------
(***************************************************************************)
(* The cron scheduler of pkg/scheduler: one TaskScheduler object over the  *)
(* SQLite task table, the loop that fires due tasks, the goroutines that   *)
(* execute them, the manual runs (RunTask, RunTaskAsync), cancellation,    *)
(* Stop, and a crash of the process followed by a new scheduler object on  *)
(* the same table.                                                         *)
(*                                                                         *)
(* Time is a counter.  A schedule is an opaque value; CronNext stands for  *)
(* the cron library.  A run identifier is a place in activeRuns that is    *)
(* used again once the run is over (the code draws a fresh UUID).  The     *)
(* columns no scheduling decision reads (parameters, description,          *)
(* last_run) and the mirror of the row in the canonical database are left  *)
(* out.  The priority of a task is that of its CreateTask: no later        *)
(* statement writes it.                                                    *)
(***************************************************************************)
EXTENDS Integers, FiniteSets

CONSTANTS
  Tasks,            \* task identifiers
  RunIds,           \* places for executions in flight at the same time
  Schedules,        \* cron expressions
  OneTime,          \* the empty schedule
  NoTask,           \* the task of a run that is over
  CronNext(_, _),   \* CronNext(s, t): first instant of schedule s after t
  Priority,         \* the priority of each task
  MinMissedGrace,   \* the least lateness a slot is forgiven
  MaxMissedGrace,   \* the most lateness a slot is forgiven
  MaxConcurrent,    \* MaxConcurrentTasks, capacity of the semaphore
  MaxTime,          \* bound: the last instant of the model
  MaxOps,           \* bound: calls made by users of the scheduler
  MaxFailures,      \* bound: writes refused by SQLite after every retry
  MaxCrashes        \* bound: crashes of the process

Times == 0 .. MaxTime

ASSUME BoundsAssumption ==
  /\ MaxTime \in Nat /\ MaxOps \in Nat
  /\ MaxFailures \in Nat /\ MaxCrashes \in Nat

ASSUME CapacityAssumption == MaxConcurrent \in Nat \ {0}

ASSUME GraceAssumption == MinMissedGrace \in Nat /\ MaxMissedGrace \in Nat

ASSUME FiniteAssumption == IsFiniteSet(Tasks) /\ IsFiniteSet(RunIds)

ASSUME ScheduleAssumption == OneTime \notin Schedules /\ NoTask \notin Tasks

ASSUME PriorityAssumption == Priority \in [Tasks -> Int]

\* What robfig/cron promises of Schedule.Next.
ASSUME CronAssumption ==
  \A s \in Schedules, t \in Times :
    CronNext(s, t) \in Nat /\ CronNext(s, t) > t

VARIABLES
  now,         \* the clock
  tasks,       \* the tasks table
  updates,     \* UpdateTask: the row it is going to write, for each task
  running,     \* s.running
  executing,   \* s.executing
  stopClosed,  \* s.stopCh is closed and s.ctx cancelled: never undone
  stopping,    \* a Stop call is between its unlock and the end of wg.Wait
  storageOpen, \* the storage handle is usable
  loop,        \* where schedulerLoop is
  scanNow,     \* checkAndExecuteDueTasks: now
  snap,        \* the rows of the batch being walked
  phase,       \* what the walk has done with each row of the batch
  firing,      \* s.firing
  firedSlot,   \* s.firedSlot
  sem,         \* tokens held in s.semaphore
  runs,        \* the goroutines executing tasks, s.activeRuns among them
  fired,       \* history: slots fired since the process started
  moved,       \* history: slots fired whose claim reached the table, ever;
               \* of both, those are left out that an update has set again
  ops,         \* calls made so far
  failures,    \* writes refused so far
  crashes      \* crashes so far

table   == <<tasks, moved>>
life    == <<running, executing, stopClosed, stopping, storageOpen>>
walk    == <<loop, scanNow, snap, phase>>
slots   == <<firing, firedSlot, fired, sem>>
budgets == <<ops, failures, crashes>>
vars == <<now, table, updates, life, walk, slots, runs, budgets>>

----------------------------------------------------------------------------
(* Rows, runs and the two helpers of cron.go and scheduler.go.             *)

NoSlot == -1                         \* next_run IS NULL
SlotSet == Nat \cup {NoSlot}
AnySchedule == Schedules \cup {OneTime}

Row == [present : BOOLEAN, used : BOOLEAN, sched : AnySchedule,
        nextRun : SlotSet, enabled : BOOLEAN]

\* An identifier no row has had yet, and the row DeleteTask leaves.
NoRow   == [present |-> FALSE, used |-> FALSE, sched |-> OneTime,
            nextRun |-> NoSlot, enabled |-> FALSE]
GoneRow == [NoRow EXCEPT !.used = TRUE]

Kinds == {"cron", "async", "sync"}

\* The life of an execution.  It is in s.activeRuns from "executing" to
\* "recorded"; "released" is the rest of executeTaskAsync.
Run == [pc : {"idle", "checked", "spawned", "executing", "returned",
              "recorded", "released"},
        kind : Kinds, task : Tasks \cup {NoTask}, sched : AnySchedule,
        asked : BOOLEAN,             \* CancelRun answered true for it
        result : {"none", "ok", "fail", "cancelled"},
        row : {"none", "running", "completed", "failed", "cancelled"}]

NewRun(pc, k, t, s) ==
  [pc |-> pc, kind |-> k, task |-> t, sched |-> s, asked |-> FALSE,
   result |-> "none", row |-> "none"]

\* A run that is over: nothing of it is kept.
Over == NewRun("idle", "cron", NoTask, OneTime)

Registered(r) == runs[r].pc \in {"executing", "returned", "recorded"}
Alive(r) == runs[r].pc # "idle"

\* s.taskRunning.
taskRunning(t) == \E r \in RunIds : Registered(r) /\ runs[r].task = t

\* Mutant: the schedule is asked for the first instant not before t.
NextNotBefore(s, t) == IF s = OneTime THEN NoSlot ELSE CronNext(s, t - 1)

ParseAndNext(s, t) == IF s = OneTime THEN NoSlot ELSE CronNext(s, t)

\* missedTooLong: min(MaxMissedGrace, half the period), at least MinMissedGrace.
Grace(s, slot) ==
  LET half   == (CronNext(s, slot) - slot) \div 2
      capped == IF half > MaxMissedGrace THEN MaxMissedGrace ELSE half
  IN  IF capped < MinMissedGrace THEN MinMissedGrace ELSE capped

\* Mutant: every due slot is fired.
NeverMissed(row, t) == FALSE

missedTooLong(row, t) ==
  /\ row.sched # OneTime
  /\ row.nextRun # NoSlot
  /\ t - row.nextRun > Grace(row.sched, row.nextRun)

Due(row) == row.present /\ row.enabled /\ row.nextRun <= now

SetNextRun(t, n) ==
  IF tasks[t].present THEN [tasks EXCEPT ![t].nextRun = n] ELSE tasks

\* A write succeeds, or SQLite refuses it after every attempt (retryBusy's, or
\* the only one), or the handle is closed.
Write(ok) ==
  \/ ok /\ storageOpen /\ UNCHANGED failures
  \/ ~ok /\ storageOpen /\ failures < MaxFailures /\ failures' = failures + 1
  \/ ~ok /\ ~storageOpen /\ UNCHANGED failures

Call == ops < MaxOps /\ ops' = ops + 1

\* Mutant: wg.Add is called by the goroutine and not before the go statement.
WaitGroupLate ==
  {r \in RunIds : /\ runs[r].kind \in {"cron", "async"}
                  /\ runs[r].pc \notin {"idle", "checked", "spawned"}}

\* What s.wg counts beside the loops: cron runs, and asynchronous runs from
\* their wg.Add on.  RunTask is not counted.
WaitGroup ==
  {r \in RunIds : /\ runs[r].kind \in {"cron", "async"}
                  /\ runs[r].pc \notin {"idle", "checked"}}

----------------------------------------------------------------------------
Init ==
  /\ now = 0
  /\ tasks = [t \in Tasks |-> NoRow] /\ updates = [t \in Tasks |-> NoRow]
  /\ moved = [t \in Tasks |-> {}]
  /\ running = FALSE /\ executing = FALSE /\ stopClosed = FALSE
  /\ stopping = FALSE /\ storageOpen = FALSE
  /\ loop = "off" /\ scanNow = 0
  /\ snap = [t \in Tasks |-> NoRow] /\ phase = [t \in Tasks |-> "none"]
  /\ firing = {} /\ firedSlot = [t \in Tasks |-> NoSlot]
  /\ fired = [t \in Tasks |-> {}] /\ sem = 0
  /\ runs = [r \in RunIds |-> Over]
  /\ ops = 0 /\ failures = 0 /\ crashes = 0

Tick ==
  /\ now < MaxTime /\ now' = now + 1
  /\ UNCHANGED <<table, updates, life, walk, slots, runs, budgets>>

----------------------------------------------------------------------------
(* The life of the scheduler object.                                       *)

\* Start and StartManageOnly.  A second start after a Stop finds stopCh
\* closed and the root context cancelled: neither is made again.  (Each start
\* but the first follows a Stop or a crash, which are counted.)
Start(execute) ==
  /\ ~running
  /\ running' = TRUE /\ executing' = execute /\ storageOpen' = TRUE
  /\ loop' = IF execute /\ loop = "off" THEN "wait" ELSE loop
  /\ UNCHANGED <<now, table, updates, stopClosed, stopping, scanNow, snap,
                 phase, slots, runs, budgets>>

\* The first half of Stop, up to the unlock.
StopBegin ==
  /\ Call /\ running /\ ~stopClosed
  /\ running' = FALSE /\ stopClosed' = TRUE /\ stopping' = TRUE
  /\ UNCHANGED <<now, table, updates, executing, storageOpen, walk, slots,
                 runs, failures, crashes>>

\* The second half: wg.Wait has returned, the handles are closed.
StopEnd ==
  /\ stopping /\ loop = "off" /\ WaitGroup = {}
  /\ stopping' = FALSE /\ storageOpen' = FALSE
  /\ UNCHANGED <<now, table, updates, running, executing, stopClosed, walk,
                 slots, runs, budgets>>

\* Everything the process holds in memory is gone; a new scheduler object is
\* made on the same table.
ProcessDies ==
  /\ running' = FALSE /\ executing' = FALSE /\ stopClosed' = FALSE
  /\ stopping' = FALSE /\ storageOpen' = FALSE
  /\ loop' = "off" /\ scanNow' = 0
  /\ snap' = [t \in Tasks |-> NoRow] /\ phase' = [t \in Tasks |-> "none"]
  /\ firing' = {} /\ firedSlot' = [t \in Tasks |-> NoSlot]
  /\ fired' = [t \in Tasks |-> {}] /\ sem' = 0
  /\ runs' = [r \in RunIds |-> Over]
  /\ updates' = [t \in Tasks |-> NoRow]
  /\ UNCHANGED <<now, table>>

Crash ==
  /\ crashes < MaxCrashes /\ crashes' = crashes + 1
  /\ ProcessDies /\ UNCHANGED <<ops, failures>>

\* Stop on an object that was stopped and started again: close of a closed
\* channel panics.  (The first Stop is counted, this one is not.)
StopPanics ==
  /\ running /\ stopClosed
  /\ ProcessDies /\ UNCHANGED budgets

----------------------------------------------------------------------------
(* Task management: each is one statement on the table, and UpdateTask     *)
(* looks at the clock some time before it.                                 *)

Usable == running /\ storageOpen

\* With an empty schedule the caller's NextRun (n) is stored as it is.  An
\* insert that comes long after its look at the clock leaves what an early one
\* leaves as time goes by: nobody reads the row in between.
CreateTask(t, s, n, e) ==
  /\ Call /\ Usable /\ ~tasks[t].used
  /\ s = OneTime \/ n = NoSlot
  /\ tasks' = [tasks EXCEPT ![t] =
       [present |-> TRUE, used |-> TRUE, sched |-> s, enabled |-> e,
        nextRun |-> IF s = OneTime THEN n ELSE ParseAndNext(s, now)]]
  /\ UNCHANGED <<now, moved, updates, life, walk, slots, runs, failures,
                 crashes>>

\* next_run is computed again from the schedule, and what a host changes it has
\* read.  A host does not update a task twice at once.
UpdateTask(t, s, e) ==
  /\ Call /\ Usable /\ tasks[t].present /\ updates[t] = NoRow
  /\ updates' = [updates EXCEPT ![t] =
       [tasks[t] EXCEPT !.sched = s, !.enabled = e,
                        !.nextRun = ParseAndNext(s, now)]]
  /\ UNCHANGED <<now, table, life, walk, slots, runs, failures, crashes>>

\* The statement, with no lock the loop takes: nothing says that the instant
\* is still to come.
WriteUpdate(t, ok) ==
  LET u == updates[t] IN
  /\ u # NoRow /\ updates' = [updates EXCEPT ![t] = NoRow]
  /\ Write(ok)
  /\ IF ok /\ tasks[t].present
       THEN /\ tasks' = [tasks EXCEPT ![t] =
                 [@ EXCEPT !.sched = u.sched, !.enabled = u.enabled,
                           !.nextRun = u.nextRun]]
            /\ fired' = [fired EXCEPT ![t] = @ \ {u.nextRun}]
            /\ moved' = [moved EXCEPT ![t] = @ \ {u.nextRun}]
       ELSE UNCHANGED <<table, fired>>
  /\ UNCHANGED <<now, life, walk, firing, firedSlot, sem, runs, ops, crashes>>

DeleteTask(t) ==
  /\ Call /\ Usable /\ tasks[t].present
  /\ tasks' = [tasks EXCEPT ![t] = GoneRow]
  /\ UNCHANGED <<now, moved, updates, life, walk, slots, runs, failures,
                 crashes>>

EnableTask(t, e) ==
  /\ Call /\ Usable /\ tasks[t].present
  /\ tasks' = [tasks EXCEPT ![t].enabled = e]
  /\ UNCHANGED <<now, moved, updates, life, walk, slots, runs, failures,
                 crashes>>

----------------------------------------------------------------------------
(* schedulerLoop and checkAndExecuteDueTasks.                              *)

\* Mutant: the loop polls s.running.
LoopExitPolling ==
  /\ loop = "wait" /\ ~running
  /\ loop' = "off"
  /\ UNCHANGED <<now, table, updates, life, scanNow, snap, phase, slots, runs,
                 budgets>>

LoopExit ==
  /\ loop = "wait" /\ stopClosed
  /\ loop' = "off"
  /\ UNCHANGED <<now, table, updates, life, scanNow, snap, phase, slots, runs,
                 budgets>>

\* The query for due tasks, and the instant the whole batch is judged by.
Scan ==
  /\ loop = "wait" /\ storageOpen
  /\ \E t \in Tasks : Due(tasks[t])
  /\ loop' = "scan" /\ scanNow' = now
  /\ snap'  = [t \in Tasks |-> IF Due(tasks[t]) THEN tasks[t] ELSE NoRow]
  /\ phase' = [t \in Tasks |-> IF Due(tasks[t]) THEN "queued" ELSE "none"]
  /\ UNCHANGED <<now, table, updates, life, slots, runs, budgets>>

ScanDone ==
  /\ loop = "scan" /\ \A t \in Tasks : phase[t] = "none"
  /\ loop' = "wait" /\ scanNow' = 0
  /\ UNCHANGED <<now, table, updates, life, snap, phase, slots, runs,
                 budgets>>

\* ORDER BY priority DESC, next_run ASC.
Before(u, t) ==
  \/ Priority[u] > Priority[t]
  \/ Priority[u] = Priority[t] /\ snap[u].nextRun < snap[t].nextRun

\* The walk has reached row t.
AtRow(t) ==
  /\ loop = "scan" /\ phase[t] = "queued"
  /\ \A u \in Tasks : /\ phase[u] \in {"none", "queued"}
                      /\ phase[u] = "queued" => ~Before(u, t)

Dropped(t) ==
  /\ phase' = [phase EXCEPT ![t] = "none"]
  /\ snap' = [snap EXCEPT ![t] = NoRow]

\* Mutant: only registered executions count.
BusyRegistered(t) == taskRunning(t)

Busy(t) == t \in firing \/ taskRunning(t)

\* Mutant: the table alone is trusted.
NeverFired(t) == FALSE

AlreadyFired(t) == snap[t].nextRun # NoSlot /\ firedSlot[t] = snap[t].nextRun

\* No token, or claimSlot answers false without touching the table.
SkipRow(t) ==
  /\ AtRow(t)
  /\ sem = MaxConcurrent \/ Busy(t) \/ AlreadyFired(t)
  /\ Dropped(t)
  /\ UNCHANGED <<now, table, updates, life, loop, scanNow, slots, runs,
                 budgets>>

\* claimSlot finds the slot too old; the write that moves it comes after the
\* unlock, the token is held until then.
SkipStale(t) ==
  /\ AtRow(t) /\ sem < MaxConcurrent /\ ~Busy(t) /\ ~AlreadyFired(t)
  /\ missedTooLong(snap[t], scanNow)
  /\ phase' = [phase EXCEPT ![t] = "stale"] /\ sem' = sem + 1
  /\ UNCHANGED <<now, table, updates, life, loop, scanNow, snap, firing,
                 firedSlot, fired, runs, budgets>>

ReleaseToken == sem' = sem - 1

MoveStale(t, ok) ==
  /\ phase[t] = "stale"
  /\ Write(ok)
  /\ tasks' = IF ok THEN SetNextRun(t, ParseAndNext(snap[t].sched, scanNow))
              ELSE tasks
  /\ ReleaseToken
  /\ Dropped(t)
  /\ UNCHANGED <<now, moved, updates, life, loop, scanNow, firing, firedSlot,
                 fired, runs, ops, crashes>>

\* claimSlot under slotsMu.
Claim(t) ==
  /\ AtRow(t) /\ sem < MaxConcurrent /\ ~Busy(t) /\ ~AlreadyFired(t)
  /\ ~missedTooLong(snap[t], scanNow)
  /\ phase' = [phase EXCEPT ![t] = "claimed"] /\ sem' = sem + 1
  /\ firing' = firing \cup {t}
  /\ firedSlot' = IF snap[t].nextRun = NoSlot THEN firedSlot
                  ELSE [firedSlot EXCEPT ![t] = snap[t].nextRun]
  /\ fired' = [fired EXCEPT ![t] = @ \cup {snap[t].nextRun}]
  /\ UNCHANGED <<now, table, updates, life, loop, scanNow, snap, runs,
                 budgets>>

\* The rest of claimSlot and the go statement: next_run moves past the slot
\* before the run starts.  A one-time task has nothing to write.
Fire(t, r, ok) ==
  /\ phase[t] = "claimed" /\ ~Alive(r)
  /\ IF snap[t].sched = OneTime
       THEN ok /\ UNCHANGED <<tasks, moved, failures>>
       ELSE /\ Write(ok)
            /\ IF ok
                 THEN /\ tasks' = SetNextRun(t, ParseAndNext(snap[t].sched,
                                                             scanNow))
                      /\ moved' = [moved EXCEPT ![t] = @ \cup {snap[t].nextRun}]
                 ELSE UNCHANGED table
  /\ runs' = [runs EXCEPT ![r] = NewRun("spawned", "cron", t, snap[t].sched)]
  /\ Dropped(t)
  /\ UNCHANGED <<now, updates, life, loop, scanNow, slots, ops, crashes>>

----------------------------------------------------------------------------
(* Executions.                                                             *)

\* RunTask and RunTaskAsync up to the answer of GetTask.
CheckRun(t, k, r) ==
  /\ Call /\ Usable /\ tasks[t].present /\ ~Alive(r)
  /\ runs' = [runs EXCEPT ![r] = NewRun("checked", k, t, tasks[t].sched)]
  /\ UNCHANGED <<now, table, updates, life, walk, slots, failures, crashes>>

\* beginRun (and wg.Add in RunTaskAsync), CreateExecution, then the executor.
Begin(r, ok) ==
  /\ runs[r].pc \in {"checked", "spawned"}
  /\ Write(ok)
  /\ runs' = [runs EXCEPT ![r] =
       [@ EXCEPT !.pc = "executing", !.row = IF ok THEN "running" ELSE "none"]]
  /\ UNCHANGED <<now, table, updates, life, walk, slots, ops, crashes>>

\* executor.Execute returns: external code, any outcome.
Return(r, res) ==
  /\ runs[r].pc = "executing"
  /\ runs' = [runs EXCEPT ![r].pc = "returned", ![r].result = res]
  /\ UNCHANGED <<now, table, updates, life, walk, slots, budgets>>

Status(run) ==
  IF run.asked \/ run.result = "cancelled" THEN "cancelled"
  ELSE IF run.result = "fail" THEN "failed" ELSE "completed"

\* wasCancelled, then UpdateExecution: no row matches when CreateExecution
\* had failed.
Record(r, ok) ==
  /\ runs[r].pc = "returned"
  /\ Write(ok)
  /\ runs' = [runs EXCEPT ![r] =
       [@ EXCEPT !.pc = "recorded",
                 !.row = IF ok /\ runs[r].row = "running" THEN Status(runs[r])
                         ELSE runs[r].row]]
  /\ UNCHANGED <<now, table, updates, life, walk, slots, ops, crashes>>

\* The release func of beginRun; a manual run is over.
Release(r) ==
  /\ runs[r].pc = "recorded"
  /\ runs' = [runs EXCEPT ![r] = IF runs[r].kind = "cron"
                                 THEN [@ EXCEPT !.pc = "released"] ELSE Over]
  /\ UNCHANGED <<now, table, updates, life, walk, slots, budgets>>

\* Mutant: next_run is left to the claim.
NoSecondWrite(r, ok) == ok /\ UNCHANGED <<tasks, failures>>

\* next_run is written again, from the schedule the run was fired with.
SecondWrite(r, ok) ==
  IF runs[r].sched = OneTime
  THEN ok /\ UNCHANGED <<tasks, failures>>
  ELSE /\ Write(ok)
       /\ tasks' = IF ok THEN SetNextRun(runs[r].task,
                                         ParseAndNext(runs[r].sched, now))
                    ELSE tasks

\* Mutant: the entry in s.firing is left behind.
KeepFiring(t) == UNCHANGED firing

DropFiring(t) == firing' = firing \ {t}

\* The rest of executeTaskAsync, its deferred calls included.
FinishCron(r, ok) ==
  /\ runs[r].pc = "released"
  /\ SecondWrite(r, ok)
  /\ DropFiring(runs[r].task) /\ ReleaseToken
  /\ runs' = [runs EXCEPT ![r] = Over]
  /\ UNCHANGED <<now, moved, updates, life, walk, firedSlot, fired, ops,
                 crashes>>

CancelRun(r) ==
  /\ Call /\ Registered(r) /\ ~runs[r].asked
  /\ runs' = [runs EXCEPT ![r].asked = TRUE]
  /\ UNCHANGED <<now, table, updates, life, walk, slots, failures, crashes>>

CancelTaskRuns(t) ==
  /\ Call /\ taskRunning(t)
  /\ runs' = [r \in RunIds |-> IF Registered(r) /\ runs[r].task = t
                               THEN [runs[r] EXCEPT !.asked = TRUE]
                               ELSE runs[r]]
  /\ UNCHANGED <<now, table, updates, life, walk, slots, failures, crashes>>

----------------------------------------------------------------------------
Lifecycle == (\E x \in BOOLEAN : Start(x)) \/ StopBegin \/ StopEnd \/ StopPanics

Management ==
  \E t \in Tasks :
    \/ \E s \in AnySchedule, e \in BOOLEAN :
         \/ \E n \in Times \cup {NoSlot} : CreateTask(t, s, n, e)
         \/ UpdateTask(t, s, e)
    \/ \E ok \in BOOLEAN : WriteUpdate(t, ok)
    \/ DeleteTask(t)
    \/ \E e \in BOOLEAN : EnableTask(t, e)

WalkRow(t) ==
  \/ SkipRow(t) \/ SkipStale(t) \/ Claim(t)
  \/ \E ok \in BOOLEAN : MoveStale(t, ok) \/ \E r \in RunIds : Fire(t, r, ok)

LoopStep == Scan \/ ScanDone \/ \E t \in Tasks : WalkRow(t)

RunStep(r) ==
  \/ \E ok \in BOOLEAN : Begin(r, ok) \/ Record(r, ok) \/ FinishCron(r, ok)
  \/ \E res \in {"ok", "fail", "cancelled"} : Return(r, res)
  \/ Release(r)

Manual ==
  \/ \E t \in Tasks, k \in {"async", "sync"}, r \in RunIds : CheckRun(t, k, r)
  \/ \E r \in RunIds : CancelRun(r)
  \/ \E t \in Tasks : CancelTaskRuns(t)

Next ==
  \/ Tick \/ Lifecycle \/ Management \/ Manual \/ Crash
  \/ LoopExit \/ LoopStep
  \/ \E r \in RunIds : RunStep(r)

Spec == Init /\ [][Next]_vars

\* Go runs every goroutine that can run.  The ticker and stopCh race in one
\* select, which Go decides at random: leaving the loop needs SF.  An executor
\* comes back (a prompt is bounded by its rounds and its context).
Fairness ==
  /\ WF_vars(Tick) /\ WF_vars(LoopStep) /\ SF_vars(LoopExit)
  /\ WF_vars(StopEnd)
  /\ \A r \in RunIds : WF_vars(RunStep(r))

FairSpec == Spec /\ Fairness

----------------------------------------------------------------------------
(* Properties.                                                             *)

TableType ==
  /\ tasks \in [Tasks -> Row] /\ updates \in [Tasks -> Row]
  /\ moved \in [Tasks -> SUBSET SlotSet]
LifeType ==
  {running, executing, stopClosed, stopping, storageOpen} \subseteq BOOLEAN
WalkType ==
  /\ loop \in {"off", "wait", "scan"} /\ scanNow \in Times
  /\ snap \in [Tasks -> Row]
  /\ phase \in [Tasks -> {"none", "queued", "stale", "claimed"}]
SlotsType ==
  /\ firing \subseteq Tasks /\ sem \in Int
  /\ firedSlot \in [Tasks -> SlotSet]
  /\ fired \in [Tasks -> SUBSET SlotSet]
BudgetsType ==
  /\ ops \in 0 .. MaxOps
  /\ failures \in 0 .. MaxFailures /\ crashes \in 0 .. MaxCrashes

\* Every variable has its type.
TypeOK ==
  /\ now \in Times /\ runs \in [RunIds -> Run]
  /\ TableType /\ LifeType /\ WalkType /\ SlotsType /\ BudgetsType

CronRuns == {r \in RunIds : Alive(r) /\ runs[r].kind = "cron"}

HeldRows == {t \in Tasks : phase[t] \in {"stale", "claimed"}}

\* Every token of the semaphore is held by a cron run that is not over or by
\* the row the loop is deciding, and no more than MaxConcurrentTasks exist:
\* no path of claimSlot or executeTaskAsync leaks or doubles a token.
TokensAccounted ==
  /\ sem = Cardinality(CronRuns) + Cardinality(HeldRows)
  /\ sem <= MaxConcurrent

\* A task never has two executions fired by the loop at the same time, from
\* the claim to the last deferred call, however long the first one takes and
\* whatever writes failed.
OneCronRunPerTask ==
  /\ \A r, q \in CronRuns : runs[r].task = runs[q].task => r = q
  /\ \A t \in Tasks, r \in CronRuns : phase[t] = "claimed" => runs[r].task # t

\* Once Stop has closed the store, the loop and every execution it fired are
\* over: nothing the loop started writes to a closed handle.
StopWaitsForTheLoop == ~storageOpen => loop = "off" /\ CronRuns = {}

Firing == INSTANCE SlotFiring WITH active <- firing

\* The scheduler implements SlotFiring: a slot fires at most once in the life
\* of the process, unless an UpdateTask that looked at the clock before it fired
\* sets the row to it again, and never over an execution of the same task,
\* although the write that moves next_run may fail, the batch may be stale and
\* users change the row at any point of the walk.
FiresEachSlotOnce == Firing!Spec

\* A slot whose claim reached the table is never fired again, not even by a
\* later process that has lost firedSlot, unless the late statement of an
\* UpdateTask has set the row to it again.
MovedSlotNeverFires ==
  [][\A t \in Tasks :
       (fired'[t] \ fired[t]) \cap (moved[t] \ {NoSlot}) = {}]_vars

\* A slot that went by while nothing executed the table (process down, loop
\* at capacity, task busy) for more than the largest grace is not fired when
\* the loop comes back.
MissedSlotNeverFires ==
  [][\A t \in Tasks : \A slot \in fired'[t] \ fired[t] :
       snap[t].sched # OneTime /\ slot # NoSlot =>
         \/ scanNow - slot <= MaxMissedGrace
         \/ scanNow - slot <= MinMissedGrace]_vars

\* The slots a schedule has before the clock stops.
DatedSlots == 1 .. MaxTime

Scheduled(t) == tasks[t].present /\ tasks[t].enabled /\ tasks[t].sched # OneTime

\* The walk comes to the row of t again and again, and never finds a token.
Starved(t) == []<>AtRow(t) /\ [](AtRow(t) => sem = MaxConcurrent)

\* A due slot of a scheduled task is fired or passed over as long as the loop
\* lives, whatever writes are refused, unless every walk from some time on finds
\* the semaphore full when it comes to the row: the token is asked for before
\* the claim and the rows go by priority.  A slot that an update has set again
\* is not fired by the process whose last slot of the task it was.
DueSlotIsResolved ==
  \A t \in Tasks, slot \in DatedSlots :
    (Scheduled(t) /\ tasks[t].nextRun = slot /\ slot <= now /\ loop # "off")
      ~> (\/ slot \in fired[t] \/ slot = firedSlot[t]
          \/ tasks[t].nextRun # slot \/ ~Scheduled(t) \/ loop = "off"
          \/ Starved(t))

\* The run that fired the slot of a scheduled task, and writes next_run again.
HasFired(r, t, slot) ==
  /\ r \in CronRuns /\ runs[r].task = t /\ runs[r].sched # OneTime
  /\ firedSlot[t] = slot

\* After a scheduled task has fired it gets another next_run even when one of
\* the two writes is refused: the schedule does not stop, unless the late
\* statement of an update sets the row to the slot again.
FiredTaskIsRescheduled ==
  \A t \in Tasks, slot \in DatedSlots :
    (tasks[t].nextRun = slot /\ \E r \in RunIds : HasFired(r, t, slot))
      ~> (\/ tasks[t].nextRun # slot \/ slot \notin fired[t]
          \/ ~Scheduled(t) \/ ~storageOpen)

\* Stop returns.
StopReturns == stopping ~> ~stopping
=============================================================================
