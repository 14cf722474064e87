# A verification of agent-go

agent-go is a Go library for running LLM agents inside a host program: an agent
loop with tools and memory (`pkg/agent`), a cron scheduler for prompts
(`pkg/scheduler`), a pool of LLM providers (`pkg/pool`), tool servers
(`pkg/mcp`), memory and retrieval (`pkg/memory`, `pkg/rag`, `pkg/cortexbridge`)
and the stores behind them.  This directory holds TLA+ models of the parts of it
that run concurrently or must survive a failure, the TLC runs that check them,
and TLAPS proofs of the properties that matter most.

1. [The system](#1-the-system): its parts, what is hard about each
2. [The models](#2-the-models): module by module, state and actions against code
3. [The runs](#3-the-runs): what TLC checks, the bounds, the fairness
4. [Disagreements found](#4-disagreements-found)
5. [The proofs](#5-the-proofs)
6. [What is not covered](#6-what-is-not-covered)
7. [Plan](#7-plan)

To check by hand, in this directory:

    tlc -config SchedulerSafety.cfg MCTaskScheduler     # a run; PROJECT.json lists them
    tlapm TaskSchedulerProofs.tla                       # the proofs of a module

## 1. The system

A host builds a `Service` (`pkg/agent`).  `Service.Run…` starts a run: `startRun`
refuses or records it, `registerRun` puts a handle in `s.runs`, `Runtime.loop`
executes rounds in a goroutine and emits events on a channel, and
`observeRunStream`, a second goroutine, forwards them to the host, derives the
status of the task row, and releases the handle.  Hosts reach into a run through
the handle: `Steer` appends to its mailbox, the `Cancel…` family cancels its
context.  Three kinds of work start runs without a host waiting: background
tasks, standing responsibilities, and (through an executor the host supplies) the
cron scheduler.  `Close` refuses new runs, cancels, waits, and closes the store.
Inside a round, the model is reached through the provider pool and the calls it
streams go through a gate that orders them; what is said is saved as the history of
a session, which other runs may be writing too.  A `Manager` wraps runs as async
tasks that hosts cancel, pause, resume and wait for.

### Parts that are modelled

| part | state | operations | meets | hard behaviour | what makes it correct |
|---|---|---|---|---|---|
| Cron scheduler (`scheduler.go`, `cancel.go`, `storage.go`, `cron.go`) | `tasks` table in SQLite; `activeRuns`, `firing`, `firedSlot`, `semaphore`, `running`/`stopCh` in memory | Start/StartManageOnly, Stop; Create/Update/Delete/EnableTask; RunTask, RunTaskAsync; CancelRun/CancelTaskRuns; the minute loop and the goroutines it starts | the executor runs an agent; the table is shared with the user's calls | a slot fired twice; re-entry; writes SQLite refuses; crash and restart; downtime over several slots; an update whose instant is read before it is written; Stop against manual runs | a slot fires at most once per process, and once for ever if its claim reached the table, unless an update sets it again; a missed slot is skipped; no task is lost from the schedule; Stop outlasts what the loop fired |
| Run registry, admission, Close (`run_cancel.go`, `multitenant.go`, `service_close.go`) | `s.runs`, `s.closed`, blocking-tool counts, `s.bgWork` | startRun, registerRun and its release; Cancel, CancelRun, CancelSession, CancelTenant; Close | loop, observer, memory extraction, background tasks | check and registration apart; two runs asking for one id; cancel against a tool that must finish; a drain that times out; a host that stopped reading | limits hold; the registry is exactly the runs in flight; Close cancels all that were registered; the store outlives the runs |
| Agent loop, steering, observer (`runtime.go`, `steer.go`, `run_stream_observer.go`, `task_run_state.go`) | rounds, retry budget, mailbox of the handle, event channel, task status | a round and its ends (completed, blocked, failed, cancelled, refused); Steer/SteerRun; dropSteers; persistRunTaskEvent | registry (the handle is found until the observer releases it) | a message during the last answer, or between the look at the mailbox and the call of the model; errors a run survives; the order of write and terminal event; events of sub-agents in the same stream | no accepted message disappears; a message misses one call of the model at most; the status tells how the run ended |
| Tool calls of a turn (`subagent_limits.go`, `runtime_tool_adapter.go`, `tool_orchestration.go`, `runtime.go`) | tickets of the gate, slots of sub-agents, the collector of an attempt, the event channel | a call streamed and admitted, its goroutine, a retried attempt, a terminal call, a cancel, collecting, the end of the run | the loop's round; a sub-agent is a run of its own | tickets that wait for each other and for slots; a call executed, refused or collapsed in an attempt that is repeated; goroutines that outlive the channel they report to | nothing overtakes a write; every call has one answer; no call waits for ever; the gate orders as the batches do |
| Background tasks (`background.go`) | `reg.tasks`, `reg.order`, `reg.wg` | StartBackgroundTask, its goroutine, finish, pruneLocked, CancelBackgroundTask, stopBackgroundTasks | startRun, Close | ceiling read apart from listing; Close between two steps of a start; forgetting old ends | a running task is never forgotten; Close reaches every run; the ceiling is exceeded by callers − 1 at most |
| Standing responsibilities (`standing.go`, `standing_store.go`, `standing_tools.go`) | items with clocks, pending events, a daily count; the wakes in flight; the stored rows | Add, Remove, Pause, Resume, Deliver, WakeNow, Status; the loop; a wake and its tools; Close; a restart | a wake is a run; an event is steered into it | an event that crosses the end of a wake; the pause of the daily ceiling; rows copied under the lock and saved after it; Add over a running item | an event is told once and never dropped; one wake at a time; a wake that was asked for comes |
| Async tasks of a Manager (`async_tasks*.go`, `tasks_unified.go`, `task_checkpoint_manager.go`) | the record, its row, subscribers, the cancel function, the goroutines of a task | update and event; run, yield and end; CancelTask, YieldTask, ResumeTask, replay of a checkpoint; AwaitTask; a restart | runs of a Service; the task table | three critical sections of CancelTask; writers of the row that race, the run itself among them; an await that subscribes while the task ends and decides by the row | a live task has somebody to end it; the row follows the record and is there before the news; an await returns |
| Provider pool (`pool.go`, `failover.go`) | `clients` and `order`, `activeRequests`, `failedUntil`, `freed` | Get and its variants, acquire with its wait, failover, Release; Add/Update/RemoveProvider | every call of a model | counts raised under a read lock; release by name; a wait that must not miss a release | slots are given back; a release wakes who waits; calls end |
| Session history (`store.go`, `store_session_merge.go`) | the row, the copies of its writers and their baselines, the save lock | load, add, SaveSession step by step | the loop and the observer of each run, host calls | copies saved in any order; a write that fails, with the baseline moved all the same; a read that fails and is taken for an empty history | the history only grows but for a failed read, each writer's turns once and in order |

### Parts that are planned

| part | state and operations | hard behaviour | what would make it correct |
|---|---|---|---|
| Job runner (`jobs.go`) | the in-process cron; Start/Stop | Stop before Start; Stop inside a handler | Stop ends what Start began |
| Long runs (`long_run.go`) | budgets of segments, failures, time, tokens | which budget stops the task | always stops, with the right reason |
| Plans (`plan_dag.go`) | pure functions over a graph | cycles | ready steps are those whose dependencies are done |
| MCP clients (`pkg/mcp/client.go`) | session, heartbeat, reconnect, Close | Close while a reconnect dials | no session survives Close |

### Parts that stay outside

The repository has about 115 000 lines of implementation; what runs concurrently or
must survive a failure is a small part of it, and it is that part the models are
about.  The larger directories are stores, providers, builders and services that do
one thing after another for one caller: a model of them would restate their code.

| part | reason |
|---|---|
| Stall watchdog (`pkg/pool/stall.go`), model retries, compaction, tool pairing | inside one model call: they end in an answer or an error, which the loop's model has |
| Checkpoints, archives, task queue | one row written at a boundary with errors ignored; a table no code of the repository works off |
| Sub-agents | a run of its own under a tool call: the loop is the one modelled, the slots belong to the gate, the events that reach the parent's stream to `RunStream` |
| Builder, hooks, permissions, extensions | configuration before the first run; a callback that blocks or fails is a tool that does |
| Memory, stores, retrieval, cache | one call, one answer; the models take their failures and, for extraction, the time it takes against Close |
| Providers and wire formats, pool service | conversions without shared state; a singleton |
| Sandbox, code mode, worktrees | processes and files outside of the program |
| Trace, otel, log, skills, search, prompts, configuration, domain types | records and pure functions over text |
| `cmd`, `eval`, `examples` | tools beside the library |

`PROJECT.json` has the same list with sources, and every hazard of the code at its
line, with the properties that watch it or the reason none does.

## 2. The models

Every module names the code it models in its comments; `PROJECT.json` maps each
definition to its lines.  An action is a step between two points where another
goroutine can look: what the code does under one lock, or in one statement on the
table, is one action, and what it does after the unlock is another.

A definition that begins with `\* Mutant:` is a plausible error of the line below
it.  It is used nowhere; putting it in the place of the definition it stands above
must break the property PROJECT.json names with it.

### TaskScheduler (and SlotFiring)

One `TaskScheduler` object over the task table, the goroutines it starts, and a
new object on the same table after a crash.

| state | code |
|---|---|
| `tasks`, `updates` | rows of the `tasks` table: enabled, schedule, `next_run`; the row a call of `UpdateTask` is going to write |
| `running`, `executing`, `stopClosed` | `s.running`, `s.executing`, `s.stopCh` closed with the root context (never made again) |
| `stopping`, `storageOpen` | a `Stop` between its unlock and the end of `wg.Wait`; the handle it closes last |
| `loop`, `scanNow`, `snap`, `phase` | where `schedulerLoop` is, the `now` of `checkAndExecuteDueTasks`, the rows it read, what it has done with each |
| `firing`, `firedSlot`, `sem` | the fields of the same names, `sem` the tokens taken |
| `runs` | the goroutines of executions; those registered are `s.activeRuns` |
| `fired`, `moved` | history variables: slots fired in this process; slots whose claim reached the table; both without the slots an update has set again |

| action | code |
|---|---|
| `Start`, `StopBegin`, `StopEnd`, `StopPanics` | `start`, `Stop` up to its unlock, `Stop` after `wg.Wait`, a second `Stop` closing a closed channel |
| `CreateTask`, `DeleteTask`, `EnableTask` | the calls of that name, one statement on the table each |
| `UpdateTask`, `WriteUpdate` | `UpdateTask` up to the new `next_run`, for which it reads the clock; its statement, at any time after |
| `Scan`, `SkipRow`, `SkipStale`/`MoveStale`, `Claim`/`Fire`, `ScanDone` | `checkAndExecuteDueTasks` and `claimSlot`; what follows the unlock of `slotsMu` is the second action of a pair |
| `CheckRun`, `Begin`, `Return`, `Record`, `Release`, `SecondWrite`, `FinishCron` | `RunTask(Async)`, `beginRun`, `executeTaskWithRun`, `executeTaskAsync`, with their deferred calls in order |
| `CancelRun`, `CancelTaskRuns` | the cancels |
| `Crash` | the process dies: memory is lost, the table stays |

`CronNext(s, t)` stands for the cron library, and `Priority` for the column the query
sorts by before `next_run`.  A write of `next_run` or of an
execution record may be refused by SQLite after every retry (`Write(ok)`); a user's
call that is refused changes nothing and is no step.  `SlotFiring` is the promise: a slot of
a task fires once in the life of a process, unless a user sets it again, and not over
an execution of that task.  Left out: the columns no decision reads, the mirror of the
row in the canonical database, the clean-up of old execution rows.

### RunRegistry

The runs of one `Service`, from `startRun` to release, and `Close`.

| state | code |
|---|---|
| `runs` | each call of `startRun`: where its goroutines are, the id it asked for and the key it got, tenant, session, context |
| `registry` | `s.runs` |
| `saves` | memory extractions under `s.bgWork` |
| `closer`, `toStop`, `drained` | where `Close` is, the handles it has still to cancel, how its wait ended |
| `call` | a cancel call between its two holds of locks |

`Enter`, `RecordRunning`, `Refuse` and `Register` are `startRun` up to and
including `registerRun` (admission, a free name and the entry are one hold of
`cancelMu`); `BeginRound`, `ModelAnswers` and `ToolReturns` are the loop as far as
the registry meets it; `ObserveEnd` and `Release` are the observer; `CancelChecks`,
`CancelTakes` and `CancelHandle` are the four cancels, which read the count of
blocking tools under one lock and take the handles under another; `CloseBegins`,
`CloseSnapshot`, `CloseCancels`, `CloseDrains` and `CloseReleases` are `Close`.
Left out: the routed model and progress of a run, `ActiveRuns` and `Capacity`
(they read), extensions.

### RunStream (and SteerMailbox)

The decisions of a run's rounds, the messages steered into it, its events and the
observer.

| state | code |
|---|---|
| `pc`, `round`, `lint` | where `Runtime.loop` is, rounds begun, retries of a rejected answer left |
| `known` | history: how many messages had been accepted when the model was last called |
| `queue`, `accepted`, `applied`, `reported` | `runHandle.steers`; what `Steer` answered true for, what went into the conversation, what was dropped with an event |
| `stream`, `end`, `status` | events not observed yet, the terminal event, the task's status |
| `stopped` | runs whose context is cancelled |
| `outlived`, `forwarded` | history: runs a sub-agent spoke for after their terminal event; events of sub-agents so far |

One action is one way through a round: `BeginRound` (context, bound,
compaction, `applySteers`), `CallModel` (about 85 lines on, with the mailbox open in
between), `ToolRound`, `Answer` (with the look at the mailbox that
keeps a run alive when a message came during its last answer), `TaskComplete`,
`CompleteAtOnce`, `Block`, `ModelFails`, `ToolsFail`, `SeeCancel`, `RoundsOut`,
`RejectPrompt`; then `DropSteers`, the deferred end of the loop.  `forwardSubAgentEvent` is a sub-agent
that is blocked or cancelled: its event keeps its type in the stream of the parent, whose
observer cannot tell whose it is; a sub-agent may speak from the first call of the model
until the channel is closed, since the calls of a repeated attempt or of a turn that
failed are not waited for.  `Observe` is one event through `persistRunTaskEvent` and `observeRunStream`.  `completeRun`,
`blockRun`, `cancelRun` and `failRun` keep the code's order of writes and events,
since that order is what `StatusMatchesEnd` and `CompletedRowIsFinal` are about.
`SteerMailbox` is the promise: accept, then apply all or report all, in order, and
apply nothing after the report.  Left out: what the model and the tools say, the
stream inside one call of the model, hooks.  Each run has a task of its own.

### BackgroundTasks

| state | code |
|---|---|
| `pc` | where a call of `StartBackgroundTask`, then its goroutine, is |
| `status`, `tasks`, `rank`, `listed` | `BackgroundTask.Status`, the keys of `reg.tasks`, the place in `reg.order` counted from the first task ever |
| `cancelled` | contexts that are cancelled |
| `closer`, `timedOut` | where `Close` is, and whether `stopBackgroundTasks` gave up |

`Enter`, `CheckCeiling`, `List` and `Launch` are the steps of the call between its
locks; `RunEnters`, `RunReturns` and `RunRefused` its goroutine (with `finish` and
`pruneLocked` whole); `CancelBackgroundTask`; `CloseBegins`, `CloseCancels`,
`CloseWaited` and `CloseTimesOut` the part of `Close` that concerns tasks.  Left
out: labels, results, the functions that list.

### ToolTurn (and ToolBatches)

The calls of one streamed turn, over its attempts.

| state | code |
|---|---|
| `turn`, `attempt`, `emitted`, `cancelled` | where the loop is with the turn, the attempt of the model call, calls streamed so far, the run's context |
| `kind`, `att`, `waitFor`, `phase` | what a call declared, its attempt, the done channels its ticket waits for, where its goroutine is |
| `last`, `since`, `holding` | `lastExclusive` and `sinceExclusive` of the gate; the tickets that hold a slot of a sub-agent |
| `results`, `collapsed`, `crashed` | the collector's results, calls answered as repeats of an earlier one, a send on a closed channel |

`Emit` is one call that arrives: collapsed, or admitted to the gate and given a
goroutine.  `Begin`, `Refuse`, `Report` and `Finish` are that goroutine: `Begin` when
its predecessors are done and a slot is free, `Refuse` when the run is stopped first
(with both channels ready Go takes either, and so does the model).  `StreamSucceeds`,
`StreamIsRetried` (a new collector and a new gate, while goroutines of the old attempt
go on), `StreamIsTerminal` and `StreamEndsTheRun` are the ways out of the stream;
`Collect`, `Terminate` and `RunEnds` what the loop does then.  `ToolBatches` has
`partitionToolCalls` and the order it gives, beside the gate's.  Left out: the batch
executor's own goroutines, streamed arguments, permissions, the capacity of the
channel of results.

### Standing

The responsibilities of one `Standing`, the goroutines of hosts that call it, its
loop, the wakes, and the rows a restart begins with.

| state | code |
|---|---|
| `present`, `paused`, `clock`, `running`, `day`, `wakes`, `pending` | an item: `paused` and by whom, `NextWake`, `nextTick` and `nextScan` as not set, later or due, the wake in flight, `day` and `wakes`, `pendingEvents` |
| `closed`, `today`, `batch` | `st.closed`, the date, what the loop found due and has not started yet |
| `stored` | rows of `standing_responsibilities` |
| `pc`, `at`, `ev`, `seen`, `row`, `stale` | a caller: where it is, its id, event, the wake it saw, the row it copied to save, whether its item was replaced |
| `phase`, `of`, `wrow` | a wake: where its run is, its item, the row it copied |
| `delivered`, `briefed`, `steered`, `forgotten`, `disturbed` | history: the fates of events, the items replaced over a wake |

A call is cut where it gives `st.mu` back: `AddSaves`/`AddRegisters`,
`Remove`/`RemoveDeletes`, `Pause`, `Resume` and `Save`, `WakeNow`/`HostStartsWake`,
`Deliver`/`DeliverSteers`/`DeliverQueues`, `Close`/`CloseReturns`.  `StartWake` is
`startWake` whole, with its early returns, the roll of the day and the ceiling; a wake
goes through `RunBegins`, `ToolUpdates`/`ToolSaves` (the tools of the agent), `RunEnds`,
`FinishWake` and `FinishSaves`.  `LoopLooks` and `LoopStartsWake` are the loop;
`TimeComes` and `NewDay` are time; `Look` is Status and Get, which roll the day.  Left
out: notes, notifications, the text of a brief, a scan policy that changes.

### AsyncTasks

One task of a `Manager`.

| state | code |
|---|---|
| `status`, `latest`, `subs` | `task.Status`, who changed it last and has not told yet, `taskSubs` |
| `row`, `byRun`, `storing` | the status on the row, whether the run wrote it last, whether a goroutine of `updateAsyncTask` is still to store the record |
| `at`, `next`, `final`, `heard` | the goroutines of runs and the calls of hosts: where each is, where it goes on, whether its event ends the task, whom it has still to tell |
| `left` | runs their task has left at an error event and that still go on |
| `await`, `channel`, `unread` | `AwaitTask`, its subscriber channel, whether an event is in it |
| `misled` | history: awaits that wait because the row they read did not yet say that the task is paused |

Every change goes the way the code's goes: `Update` under `taskMu`, then three steps of
the event (`append`, `store`, `send`), with the background write whenever it likes.
`RunStarts`, `RunBegins`, `Forward` and `RunEnds` are the goroutine of a run; `HostCall`
and `HostStep` are CancelTask, YieldTask, ResumeTask and ResumeFromCheckpoint, cut at
their critical sections; `Subscribe`, `AwaitStep` and `GiveUp` are AwaitTask; `Restart`
is a new Manager on the same table.  The row has two writers.  The task copies its record
and writes it under the lock of the row, which is why `Store` is one step; the run writes
a status of its own, `running` when it starts (`RunBegins`) and then what its observer
makes of the events (`Observed`), also after its task has left it at an error event
(`left`).  `Told` is the statuses those events tell: one is enough to have the row differ
from the record.  `Check` is the look of an await, at the row, or at the record when the
row cannot be read.  A cancel function that is called only brings the end of a run
nearer, so it is not kept.  Left out: what a task is and says, other tasks, writes of the
row that fail.

### ProviderPool

| state | code |
|---|---|
| `order`, `made`, `changes` | `p.order` with `p.clients`; how often a name got a new wrapper |
| `active`, `cooling` | `activeRequests`, `failedUntil` |
| `phase`, `route`, `wish`, `holds`, `list` | a call: where it is, how it asks (failover, acquire, once, by name), the provider it names, its client, the candidates left |
| `told`, `ended`, `answered`, `overtaken` | its freed channel is closed, its context has ended, it has an answer; history: it waited across a change |

`Ask`, `Listen` (the freed channel is taken before the attempt), `Look`, `Take` (the
count is raised after the choice, under a read lock), `Wait`, `Wake` are the ways to a
client; `Choose` and `NextCandidate` are failover; `Reply`, `Release` and
`SignalFreed` the way back: the count of whoever has the name now goes down, then the
freed channel is closed.  `AddProvider`, `UpdateProvider`, `RemoveProvider` wait for
the write lock.  Left out: models, capabilities, the health flag, which no code sets
to false, and what a provider answers beyond success or failure.

### SessionHistory (and Conversation)

The row of one session, the copies of it that runs and host calls hold, and
`SaveSession`: `LockSession`, `MergeStored`, `MarkBaseline`, `Write`, between which the
other writer of the same copy (a run's loop, or the observer of its events) may add a
turn.  `stored` and `lock` are the row and its entry of `sessionSaveLocks`; `messages`
and `loaded` a copy and its baseline; `merged`, `mark` and `taken` what a save holds.
A read that fails (`Reads`) finds nothing, whatever is stored: a run then begins with an
empty copy, and a save writes its own copy alone (`ToWrite`), and is `blind` until it
has.
`Merge` is the loop of `mergeMessagesForSave`, a recursive function.  A turn is numbered
by its place in the copy of its writer, which is all the model knows of an id.  `Mine`
bounds what a loop says; what the observer adds to that is one turn.  `skipped` is
history: turns that a baseline passed though their write failed, or that a blind save
overwrote; `overwrote` is who made such saves.  The specification is
`SessionSpec`, so that one proof module can speak of a run and of its session.
`Conversation` is the promise: a save appends turns, each writer's in its order and
none twice; or, if it did not know the history, puts another in its place that is in order
too and has all that the same writer has stored.  Left out: the summary and the context of a session, which a save
replaces, `Clear`, and a second process.

## 3. The runs

| run | instance | states | question |
|---|---|---|---|
| `SchedulerSafety` | 2 tasks, 2 executions at once, schedules of period 1 and 2, clock 0–3, 2 calls, 1 refused write, 1 crash | 2.4 M | is a slot fired once, never over an execution, never late, never again after its claim is stored; does Stop wait |
| `SchedulerLiveness` | 2 tasks of different priority, 1 token, 2 calls, 1 refused write, clock 0–2 | 0.22 M | is a due slot resolved unless its row is starved, a fired task rescheduled, does Stop return |
| `Registry` | 2 runs that ask for one name, one whose stream nobody reads, 1 run per tenant, 1 cancel call of any kind, Close at any step | 0.35 M | limits, exactness of the registry, whom Close reaches, what outlives the store; does Close return, does a stopped run leave |
| `RunStream` | 1 run of up to 3 rounds, 1 retry, 3 messages, 1 failed write, 2 events of sub-agents | 0.96 M | messages, status, the refinement of `SteerMailbox`, the end |
| `ToolTurn` | 3 calls of 4 kinds, 2 attempts, 1 slot, a cancel at any step | 131 k | the order of writes, one answer per call, gate against batches, the end of every call |
| `BackgroundTasks` | 3 tasks, 2 callers at once, ceiling 1, 1 end kept | 59 k | ceiling, Close, the end |
| `Standing` | 1 item with a schedule, 1 event, 2 hosts, 2 wakes in flight, 3 calls, 2 days of 1 wake each, 1 restart | 1.1 M | the fate of an event, one wake at a time, wakes that were asked for, events that ride on the next wake |
| `AsyncTasks` | 2 runs of the task, 1 host with 2 calls, 1 await, restarts among the calls | 0.91 M | who ends the task, the row, the news, the await and what it may sleep through |
| `ProviderPool` | 3 calls (failover; acquire or once; by name), 2 names of which 1 is configured, room for 1 each, 2 strategies, 1 change | 0.42 M | slots, waiters, the end of every call |
| `SessionHistory` | 2 copies, one of a run with its observer, 2 turns each with or without id, 1 read or write that fails, a history before or none | 8.3 M | a history that only grows, what a failed read does to it, the baseline |

The two other runs, `NoSendAfterClose` and `CancelledStaysCancelled`, each show one
sentence of the repository that the code does not keep (section 4).

Why the bounds are enough to meet the hazards.  A slot is fired twice, if at all, by
two ticks with a run between them: a clock to 3 gives period 1 three slots and period 2
one and the time after it; two periods make an update move a slot both ways, and its
statement comes as late as it likes.  The grace is half the period, which is none for the
first and one for the second.  Two tasks over one token starve one of them.  One refused write is the one that matters, since it is the only reason
the table still shows a fired slot; one crash separates `fired` from `moved`.  Two
runs that want one name and one place per tenant have one run refused, one renamed
and a release that makes room; the limit of the whole service is not reached with two
runs, and `AdmissionLimitsHold` proves it for any number.  Three messages cover one
applied, one dropped and one that comes after; one failed write comes before or after the
terminal event, and of two sub-agents one speaks during the run and one after its end.
One fault in a session is a read or a write, with two copies to pay for it.  Three calls are a write between two reads, and two
attempts leave goroutines of the first behind.  Three background tasks with two
callers pass the ceiling together, and two finish so that one is forgotten.  Two wakes
in flight are one more than an item may have, two days let a pause of the ceiling
meet the next day, and one event crosses every step of a delivery.  Two runs of a task
are the one that is cancelled and the one that is resumed.  Three calls on one place
are one that holds, one that waits and one that takes it away.  The theorems of
section 5 are for every value of these constants.

`CHECK_DEADLOCK FALSE` is set where the system comes to rest once the bounds on calls,
time and turns are used up: the scheduler, the registry, `Standing`, `AsyncTasks`,
`ToolTurn`, `ProviderPool` and `SessionHistory`.  `RunStream` and `BackgroundTasks`
have an explicit last step and check deadlock.

**Symmetry** is declared in `SchedulerSafety` only, which has no liveness property, on
identifiers the model never tells apart.

**Fairness.**  Weak fairness of every goroutine's next step: Go runs what can run.
The model, tools and executors return: they are bounded by their contexts, by
watchdogs and by rounds.  Two steps need strong fairness.  Leaving the scheduler's loop
(`LoopExit`): the loop's `select` has a ticker and a stop channel, and when both are
ready Go picks at random, so a loop that is asked again and again to stop does stop.
The end of a run in `AsyncTasks` (`RunEnds`): a run that comes to its next event again
and again has bounded rounds.  Nobody has to call anything: no fairness for users,
cancels, changes of providers, crashes or `Close`, though a call that began goes on,
with the exception of `UpdateTask`, whose statement may never come, and no sub-agent has
to speak.  A
run whose host stopped reading its stream (`Undrained`) has no fairness at all, since
its goroutines may be stuck at the full channel; `CloseReturns` holds nevertheless,
because of the drain's timeout.  In `ProviderPool` no context ever has to end: calls
end because others give their clients back.  In `Standing` it is one weak fairness of
the whole (`SystemStep`): wakes, days and calls are bounded, so that the system as a
whole gets everywhere it still can.

## 4. Disagreements found

| run | the text | the code |
|---|---|---|
| `NoSendAfterClose` | `runtime.go:883`: a run does not end under the calls it started | `runtime.go:448`: a turn that ends in an error, a cancel or the end of its tokens returns without collecting, and the deferred close of the event channel comes under goroutines that still send |
| `CancelledStaysCancelled` | `async_tasks_api.go:138`: CancelTask cancels a running or queued task; `async_tasks.go:344`, in one of the three ends: a concurrent CancelTask may have ended the task, never overwrite it | `async_tasks.go:225` and `298` set running and completed without a look at the status, so a task that was cancelled may run on, or end completed |

Seen while modelling, without a run of their own.  The properties name as exceptions
those they meet.

Scheduler:

- `scheduler.go:165` has Stop wait for executions in flight; `RunTask` is not counted
  and `RunTaskAsync` counts itself late, so manual runs may outlast it.  `WaitGroup`
  in the model says who is waited for.
- A task with neither schedule nor `next_run` is due at every tick, where
  `cron.go:30` says that an empty schedule means one-time execution.
- The write after a run computes `next_run` from the row read before it, so a schedule
  changed meanwhile gets a slot of the old one (`scheduler.go:294`, `562`).
- `UpdateTask` reads the clock and writes `next_run` later, under no lock of the loop's
  (`scheduler.go:300-309`): the slot may have fired in between.  The row is then at a slot
  that `claimSlot` refuses at every tick (`scheduler.go:461`), or, after a restart within
  the grace or when another slot has fired since, at one that fires a second time.  The
  same happens to a one-time task that is made a scheduled one during the walk.
- The capacity test comes before the claim, over rows in the order of their priority
  (`scheduler.go:426-432`, `storage.go:794`): a row of low priority may be skipped for
  ever (`Starved`).
- `CancelRun` can answer true for a run already judged completed
  (`scheduler.go:618`), and `IsExecuting` stays true after Stop and Start though the
  loop is off (`scheduler.go:110`).
- When both writes of `next_run` fail, `firedSlot` keeps the task from firing until
  a restart: `FiredTaskIsRescheduled` is about one refused write.

Runs:

- `startRun` reads the closed flag long before `registerRun` takes its lock, which does
  not read it again: a prompt may slip in behind Close (`service_close.go:62` says it
  must not).
- The check for blocking tools is not atomic with the cancel (`run_cancel.go:177`).
- A run refused by `registerRun` leaves its task row at running (`service.go:686`,
  `704`).
- A steer accepted between `dropSteers` and the release is neither applied nor reported
  (`steer.go:29`, `runtime.go:437`); those that wait when a run completes by
  `task_complete`, a fallback or its last round are dropped too, which `steer.go:29`
  does not list.
- The event of a retry, which `run_stream_observer.go:104` calls the run correcting
  itself, writes failed on the task row first (`task_run_state.go:115`); a failed
  compaction or history write does the same, until a later event puts it right.
- A sub-agent that is blocked or cancelled, by its own timeout too, emits an event that
  passes unchanged into the stream of its parent (`runtime_subagent.go:10-23`,
  `subagent_tool.go:99-107`), and the observer writes it on the parent's row
  (`run_stream_observer.go:81-102`, `task_run_state.go:111-117`): until the parent's own
  end puts it right, or for good when it comes after it (`outlived`).
- A message accepted between the look at the mailbox and the call of the model
  (`runtime.go:666`, `751`) waits for the next call.
- A blocked run reads failed when the write after its event fails
  (`runtime.go:1494-1508`).
- Calls of a run that is stopped may start nevertheless: the wait selects between two
  channels that are both ready (`runtime.go:1994-1997`, `subagent_limits.go:220-225`).
- The channel of results holds 50, and a terminal turn waits for its calls without
  reading it (`runtime.go:888`): a 51st call would never finish.
- Background tasks exceed their ceiling by callers − 1 (`background.go:126-129`).

Standing responsibilities:

- Paused "until the next day" (`standing.go:87-88`) sleeps on: the loop passes over a
  paused item, and the day is rolled by Status, Get and wakes only (`standing.go:519`).
  In the model a fair behaviour ends with the item paused by the ceiling of day 1, its
  schedule due, on day 2.
- Pause and Resume "both persist" (`standing.go:360`), and Remove forgets; but a tool of
  the agent or the end of a wake that copied the row before writes it after
  (`standing.go:496`, `755`), and a restart wakes what was paused.
- Add or Remove over a running wake lets a second one begin, and the end of the first
  clears the mark of the second (`standing.go:338`): `disturbed` in the model.
- Events in the brief of a run that is refused are lost; `pendingEvents` are not
  stored, and a restart forgets them.
- A scan whose policy is taken away meanwhile is dereferenced (`standing.go:670`); a
  wake adds itself to the wait group after the unlock, where Close may be waiting
  (`standing.go:680`).

Async tasks:

- An error event a run survives, such as the retry of an answer, has its task recorded
  failed and left (`async_tasks.go:285-290`); the run goes on, and its observer may write
  completed on the row for good (`run_stream_observer.go:103-112`), where
  `tasks_unified.go:139-141` says that the two writers can no longer clobber each other.
- An await decides by the row (`async_tasks_api.go:40-46`): one that subscribes after a
  pause was appended and looks before it is stored reads a task still running, and sleeps
  until the next change (`misled`).
- A send to a subscriber happens after the unlock, and the channel may be closed by
  then (`async_tasks_helpers.go:147`, `async_tasks.go:187`): `crashed` in the model.
- The end of one run clears the cancel function of another; a replay registers none;
  ResumeTask and ResumeFromCheckpoint together start two runs of one task.

Provider pool:

- A call may wait though there is room: adding or updating a provider and the release
  of a removed one wake nobody (`pool.go:965-966` has acquire wait while every client
  is at its limit): `overtaken` in the model.
- Two Gets at the same time both pass the look at the count and exceed
  `MaxConcurrency` (`pool.go:311`); a call of failover that finds every provider busy
  waits for one and does not move on when that one fails (`failover.go:60-69`), where
  `failover.go:24-27` has every error move on.

Session history:

- "The fix is to make saving additive" (`store_session_merge.go:17`); but a save takes any
  error of its read for "nothing stored" (`store.go:123`) and writes its own copy over the
  history.  A run whose read fails begins an empty session in the same way
  (`service.go:641-644`, `service_session.go:40-46`), and shares an id with what is stored.
- After a failed write the baseline has moved, and the save that is tried again writes
  nothing of what was lost (`store.go:130`): `skipped` in the model.
- Plain text that two copies say is kept once (`store_session_merge.go:95-106`); the
  summary and the context are those of whoever saves last; the save locks are of one
  process.

## 5. The proofs

`tlapm` checks them all, to the last leaf, for every value of the constants that
satisfies the assumptions named in the modules.  The assumptions are as weak as the
code justifies: bounds and limits are natural numbers; the identifiers for "none" are
not identifiers; the cron library answers a later instant (`CronAssumption`); the
sets whose members are counted are finite; a configuration names a provider once.

**TaskSchedulerProofs.**  `TypeInv` adds to the types that a live execution has a
task.  *Re-entry*: `OneCronRunPerTask` is not inductive, since `Claim` looks at
`firing` and not at goroutines.  `ReentryInv` says that `firing` covers a task from
its claim to the last deferred call of its execution (`FiringCovers`), that no two
covered executions share a task (`NoReentry`), and that while the loop or something
it fired is alive the store is open (`LoopAlive`, which gives `ShutdownOrder`).
*Tokens*: with it the count of the semaphore is inductive (`TokensBalance`): a row
takes one token, hands it to its execution or gives it back.
*Slots*: `SlotInv` says that a row being walked was due when the batch was read
(`BatchWasDue`); that a slot that fired lies in the past, before the instant of the walk
that goes on (`FiredIsPast`); that one which is still in the row or in the batch is the
one `firedSlot` remembers (`FiredIsKnown`); that one whose claim was written is in neither
(`MovedIsGone`); and that a deleted row has no `next_run` (`AbsentRowIsEmpty`).  The loop
and the end of a run write an instant after the present one, which cannot have fired
(`FreshWrite`, `WritesAreFresh`).  The late statement of an update can write a slot that
has, and takes it out of the histories as it does: that is the exception the properties
state.  A crash loses `firedSlot`, so across lives of the process only the table
remembers, and `MovedIsGone` is what speaks of it.  From the one invariant follow
`ImplementsSlotFiring`, where `FiringSteps` names the steps that are not stutters,
`MovedStaysMoved`, and, with the arithmetic of the grace, `LateSlotsAreSkipped`.

**RunRegistryProofs.**  `RegistryInv` is the type, that a run's key is a name or its
own (`KeysAreOwned`) and exactness; that keys differ is what makes a release free
the right entry.  The limits count goroutines, not entries: exactness makes the two
sets the same size (a bijection), and admission counts entries.  For `Close`,
`CloseInv` says the list it made is complete (`ListIsComplete`), that a clean drain
left only runs that slipped in (`CleanDrain`), and that extractions belong to runs
that are over (`SavesAreOver`).

**RunProofs.**  *The run.*  Steps are first sorted into kinds (`LoopKinds`, `MailKinds`):
going on with one of a few batches of events, or ending with one of the endings.
`MailInv` adds to exactness that nothing is reported before the end, without which
applying after reporting would break the order.  `KnownInv` says that what had been
accepted at one call of the model is in the conversation when the next is prepared, since
a run that looks takes all (`TakesAll`): from it `OneCallMissed`.  `StatusInv` says that
some event not yet observed decides the status, or the status itself does, and that what
comes behind it are events of sub-agents that outlived the run (`DecidedAt`): an error on
the way is always overtaken.  From these the two properties of the status.
*The session*, a specification of its own in the same module.  The merge comes first:
`LoopTo` says that a function has what the loop has after each turn, and `Merges(n)`
that there is one for the first n turns and that each such function keeps the history,
adds turns of the copy alone in their order (`Extends`) and leaves out none that has no
like (`KeepsAll`), for histories and copies of any length; proved by the least number
for which it would fail (`LeastNumber`), and cited as `MergeKeepsAll`.  `SessionInv` then
says that who saves holds the lock (`LockHeld`), without which two merges could be of one
history; that the turns of each are in order in every copy and in the history
(`InTheirOrder`), which is what a copy leaves that is written over it; that the baseline lies in the copy and that a copy nobody has loaded is empty
(`CopiesLoaded`); that turns behind the baseline are the copy's own, at their places
(`OwnTurns`); that what is stored of a copy, or loaded by another, lies before its baseline
(`StoredIsPassed`), without which a save could write a turn again; and what a save has in its hands
(`ToWriteIsRight`): its copy, if it is blind, else the history as it is, then turns of the copy in order, and a like of
each turn up to where it took them.  The other writer of the copy may add turns at any
moment of this, a write may fail and a blind save overwrite: all leave turns behind a
baseline that are not stored, which is why `skipped` is part of the property.  `PassedTurnsAreStored` is one
conjunct of the invariant, and `WriteAdds` takes from it that a write is a step of
`Conversation`, every other step leaving the history alone (`ImplementsHistory`).

**ToolTurnProofs.**  That nothing overtakes a write rests on waiting being
transitive, which the gate uses to keep short lists: `OrderInv` says that of two
calls the gate must order, the later waits for the earlier or for an exclusive call
between them (`Covered`), and `WaitedInv` that a call that started saw all it waits for
finished, as long as the run goes on.  `GateInv` and `NumberedInv` say what
`lastExclusive` and `sinceExclusive` hold of the calls so far.  `ResultsInv` follows
results from admission or collapse to the answer, over attempts that are repeated.

*The gate and the batches.*  `partitionToolCalls` is a loop, here a recursive function.
`Walks` says that a function has the batches after each call, and `Batches(m)` that
there is one for the first m calls and that each such function covers the calls (`Cover`)
in order (`InOrder`: two calls are in different batches exactly when an exclusive call
lies between them), for every set of calls and every declaration.  It is proved by the
least number for which it would fail (`LeastNumber`).  On the other side `WaitsFor` says
that a ticket waits for no more than it must, and with those it waits for, for all it
must; that one is inductive over the steps of the gate.  Both meet in
`GateAndBatchesAgree`: which of the two executors runs a turn makes no difference to
its order.  *No deadlock*: tickets wait for earlier ones only (`WaitsBefore`), in
attempts that were given up too, and a slot held is held by a call that runs or has
reported (`SlotsComeBack`); the least call of an attempt that is not over can go on, or
the holder of its slot can (`TicketsNeverDeadlock`).

**BackgroundTasksProofs.**  `LiveInv`: what is remembered as running is in flight,
and conversely.  `CeilingInv` counts callers between check and listing (`Starting`,
`Admitted`).  `MemoryInv` with `RanksDiffer`: places differ, and a pigeonhole on them
gives a bound on the ends that are remembered, for any number of tasks; with them the
oldest are forgotten first.

**AsyncTasksProofs.**  The steps are sorted into a few kinds (`KindType` and the
lemmas after it): an update, a step of an event, a step that touches neither.  Over
the kinds `RowIsCurrent`, `AnnouncedIsStored`, `LiveHasARun` and `NobodyIsLeft` are
inductive, each with the types alone.  `RowIsCurrent` has to account for the run's own
writes: whoever wrote last over a record that is stored has its end to record yet, or was
left by its task.  That the last one is rests on collecting the
subscribers before an end drops them.  `NewsIsOnTheWay`, that an await sleeps through
neither the end nor a pause of its task, is not inductive alone: `NewsInv` adds that
whoever has channels to tell is past its append, which collects them
(`HeardIsSending`), that a channel still open is subscribed or in the hands of the event
that will close it (`OpenIsKnown`), that an await has a channel which others close
(`AwaitsHaveChannels`), and that nobody waits for a task of an earlier process
(`NobodyWaitsInVain`); and it rests on `NobodyIsLeft`.  It is what the liveness `AwaitReturns` rests on, for any number
of awaits, hosts and runs.

**ProviderPoolProofs.**  `CoreInv` says that a call past its choice holds a wrapper
that was in the pool (`HeldInv`), that nobody knows a wrapper still to be made, whose
count is therefore zero (`OldInv`), and that only acquire waits (`RouteInv`).  With it
`NoSlotIsLost` and `WaitersAreTold` are inductive; the counting is one lemma, that a
step moves one call in or out of one set (`Counted`).

**StandingProofs.**  `TypeInv` is the types of the items, the calls, the wakes in flight
and the rows, with what they owe each other: a call in the middle of its work has its
item, a wake that holds a place too, and a call that carries an event has one.
*One wake*: `OneWakeAtATime` alone is not inductive, since an item that was removed must
leave no mark of a wake to the one added after it; `FlightInv` adds `AbsentIsIdle`.
*Events*: `EventInv` adds to the four places of an event that no two hosts carry the same
one (`OneHand`) and no two items have it (`OneItem`), without which taking an event out
of one place would leave it in another.  For both the steps are first sorted by what they
do to wakes (`FlightKinds`) and to events (`EventKinds`).  Both hold across restarts,
replaced items and the end of `Close`.

`PROJECT.json` lists 46 theorems.  Some are about properties that no run checks any
more because the proof says more than the run did: `RunningIsRemembered`,
`FinishedAreBounded`, `OldestAreForgotten` and `CloseReachesEveryRun` of
`BackgroundTasks`, `MailboxIsExact` of `RunStream`, `TokensAccounted` of
`TaskScheduler`, `NobodyIsLeft` of `AsyncTasks`, and the types; that the tickets of the gate never deadlock is what
`CallsEnd` of `ToolTurn` rests on.  Every invariant and every action property of the
passing runs, and each of the three refinements, is stated by a theorem.  What is left
to TLC alone is liveness, which is out of the prover's reach, as is ENABLED:
`DueSlotIsResolved`, `FiredTaskIsRescheduled`, `StopReturns`, `CloseReturns`,
`StoppedRunLeaves`, `RunEnds`, `TasksEnd`, `CallsEnd` of both modules that have one,
`AskedWakeComes`, `EventRidesOnTheNext` and `AwaitReturns`.

The induction theorems of the library take an operator as a parameter, which the
provers at hand do not instantiate.  Where a proof needs induction over data it takes
the least number that fails, from the well-foundedness of the natural numbers
(`LeastNumber` in `ToolTurnProofs` and `RunProofs`).

## 6. What is not covered

Section 1 lists the parts without a model.  Inside the modelled parts: contents of
messages, prompts and events; what SQLite does beyond accepting or refusing a write;
data races on values only returned to callers (`background.go:247`); the misuse of
`sync.WaitGroup` when `Add` races `Wait` at zero (`background.go:239`), whose task
`startRun` refuses anyway; the capture of a finished run by a host's run memory,
which may come after Close (`run_memory.go:69`); the end of a process that sends on a
closed channel is the end of the model (`crashed`), not a restart.  The modules are
checked one by one: where one meets another (a wake is a run, a task calls
`startRun`) it takes any behaviour the other may show it.  Two TLC limits: instances
are as small as the table of section 3 says, and the clocks of the scheduler and of
`Standing` end.

## 7. Plan

In this order.

1. `AgentService`: RunRegistry, BackgroundTasks and the wakes of Standing composed
   under one `Close`.
2. `JobRunner` (`jobs.go:143, 155, 164`), `LongRun` (`long_run.go:407`), `McpClient`
   (`client.go:653`).
3. `PlanDag`, a pure function, against a reference definition.
