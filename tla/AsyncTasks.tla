----------------------------- MODULE AsyncTasks -----------------------------
(***************************************************************************)
(* An async task of a Manager (pkg/agent/async_tasks.go,                   *)
(* async_tasks_api.go, async_tasks_helpers.go, tasks_unified.go,           *)
(* task_checkpoint_manager.go): the record in memory, the row that mirrors *)
(* it, the goroutines that run the task, the calls of its hosts (cancel,   *)
(* yield, resume, resume from a checkpoint) and those who wait for it.     *)
(*                                                                         *)
(* Each change of the record is an update under taskMu, which starts a     *)
(* goroutine that stores the row, followed by an event: the event is       *)
(* appended under taskMu, the row stored once more, and only then the      *)
(* subscribers are told, without the lock.  The row has a second writer:   *)
(* the run itself, when it starts (service.go:686) and at the events its   *)
(* observer sees (run_stream_observer.go), whether or not the task still   *)
(* reads them.                                                             *)
(***************************************************************************)
EXTENDS Naturals, FiniteSets

CONSTANTS Runs,        \* bound: the goroutines that run the task
          Hosts,       \* the callers, each in one call at a time
          Awaiters,    \* AwaitTask calls, one subscriber channel each
          MaxCalls,    \* bound: calls of the hosts and restarts of the process
          Told,        \* bound: the statuses that the events of a run tell
          None

Procs == Runs \cup Hosts

Terminal == {"completed", "blocked", "failed", "cancelled"}
Paused   == {"yielded"}
Live     == {"queued", "running", "resuming"}
Statuses == Terminal \cup Paused \cup Live \cup {"absent"}

ASSUME BoundsAssumption ==
    /\ MaxCalls \in Nat
    /\ Told \subseteq Terminal
    /\ Runs # {} /\ Runs \cap Hosts = {}
    /\ None \notin Procs

VARIABLES
    \* the record: its status, who made its last update and has not told of
    \* it yet, the subscriber channels
    status, latest, subs,
    \* the row: the status stored, whether a run wrote it last, whether
    \* goroutines are still to store the record
    row, byRun, storing,
    \* goroutines and calls: where each is, what it does next, whether the
    \* event it emits is the last of the task, the channels it still has to
    \* tell
    at, next, final, heard,
    \* the runs that their task has left at an error and that still go on
    left,
    \* the awaiters: where each is, its channel, whether an event is unread;
    \* history: those who wait because the row they read did not yet say that
    \* the task is paused, as it still is
    await, channel, unread, misled,
    \* called, and the death of the process of a send on a closed channel
    called, crashed

record  == <<status, latest, subs>>
storage == <<row, byRun, storing>>
procs   == <<at, next, final, heard>>
waiting == <<await, channel, unread>>
vars    == <<record, storage, procs, left, waiting, misled, called, crashed>>

Stages == {"append", "store", "send"}
Ends   == {"completed", "blocked", "failed"}

\* submitAgentTaskWithSchema is over: the record is stored, one goroutine
\* has been started.
Init ==
    /\ status = "queued" /\ latest = None /\ subs = {}
    /\ row = "queued" /\ byRun = FALSE /\ storing = FALSE
    /\ at = [p \in Procs |-> IF p = CHOOSE r \in Runs : TRUE THEN "spawned" ELSE "idle"]
    /\ next = [p \in Procs |-> "idle"]
    /\ final = [p \in Procs |-> FALSE]
    /\ heard = [p \in Procs |-> {}] /\ left = {}
    /\ await = [a \in Awaiters |-> "new"]
    /\ channel = [a \in Awaiters |-> "none"]
    /\ unread = [a \in Awaiters |-> FALSE]
    /\ misled = {}
    /\ called = 0 /\ crashed = FALSE

-----------------------------------------------------------------------------
(* An update of the record and the event that follows it.                  *)

\* updateAsyncTask: the status changes, a goroutine will store the row; p
\* goes on to emit an event, then to where n says.
Update(p, s, n) ==
    /\ status' = s /\ latest' = p
    /\ storing' = TRUE
    /\ at' = [at EXCEPT ![p] = "append"]
    /\ next' = [next EXCEPT ![p] = n]
    /\ final' = [final EXCEPT ![p] = s \in Terminal]
    /\ misled' = {}

\* Mutant: the subscribers are collected when those of a task that ended
\* are gone.
LateListeners(p) == IF final[p] THEN {} ELSE subs

\* collectTaskSubscribersLocked.
Listeners(p) == subs

\* Mutant: the subscribers are told at once, a goroutine stores the row.
Announce == "send"

\* The row is stored before the subscribers are told.
AfterAppend == "store"

\* emitTaskEvent under taskMu: the event is appended, who is to be told is
\* settled; the last event of a task drops its subscribers.
Append(p) ==
    /\ at[p] = "append"
    /\ heard' = [heard EXCEPT ![p] = Listeners(p)]
    /\ subs' = IF final[p] THEN {} ELSE subs
    /\ at' = [at EXCEPT ![p] = AfterAppend]
    /\ UNCHANGED <<status, latest, storage, next, final, left, waiting, misled, called, crashed>>

\* The emitter has the channels of rest to tell; with none it goes on.
HasToTell(p, rest) ==
    \/ rest # {} /\ at' = [at EXCEPT ![p] = "send"] /\ UNCHANGED <<next, final, latest>>
    \/ /\ rest = {}
       /\ at' = [at EXCEPT ![p] = next[p]]
       /\ next' = [next EXCEPT ![p] = "idle"]
       /\ final' = [final EXCEPT ![p] = FALSE]
       /\ latest' = IF latest = p THEN None ELSE latest

\* sendTaskEventToSubscribers: a channel at a time.  A channel that is full
\* keeps the events it has.  To send on a closed channel is a panic.
Tell(p, a) ==
    /\ at[p] = "send" /\ a \in heard[p]
    /\ heard' = [heard EXCEPT ![p] = @ \ {a}]
    /\ HasToTell(p, heard[p] \ {a})
    /\ crashed' = (channel[a] = "closed")
    /\ unread' = [unread EXCEPT ![a] = TRUE]
    /\ channel' = IF final[p] THEN [channel EXCEPT ![a] = "closed"] ELSE channel
    /\ UNCHANGED <<status, subs, storage, left, await, misled, called>>

-----------------------------------------------------------------------------
(* persistUnifiedTask: the record is copied under the lock of the row and   *)
(* written before the lock is given up, so that no writer comes between.   *)

\* Mutant: the copy was taken before the lock, when the task was submitted.
CopyOfTheStart == "queued"

Copy == status

\* The emitter of an event.
Store(p) ==
    /\ at[p] = "store"
    /\ row' = status /\ byRun' = FALSE
    /\ HasToTell(p, heard[p])
    /\ UNCHANGED <<status, subs, storing, heard, left, waiting, misled, called, crashed>>

\* One of the goroutines that updates have started, maybe the last.
StoreInBackground ==
    /\ storing
    /\ row' = Copy /\ byRun' = FALSE
    /\ storing' \in BOOLEAN
    /\ UNCHANGED <<record, procs, left, waiting, misled, called, crashed>>

-----------------------------------------------------------------------------
(* runAsyncAgentTask, and the goroutine of ResumeFromCheckpoint.  A cancel *)
(* function that is called brings the end of the run nearer and decides    *)
(* nothing of it, so that neither it nor its context is kept here.         *)

\* Whatever the status is by now.
RunStarts(r) ==
    /\ at[r] = "spawned"
    /\ Update(r, "running", "calling")
    /\ UNCHANGED <<subs, row, byRun, heard, left, waiting, called, crashed>>

\* persistRunTaskState: a run writes a status of its own, under the same
\* lock.
RunWrites(s) == row' = s /\ byRun' = TRUE

\* startRun: the run sets the row running before it is registered and
\* started.
RunBegins(r) ==
    /\ at[r] = "calling"
    /\ RunWrites("running")
    /\ at' = [at EXCEPT ![r] = "running"]
    /\ UNCHANGED <<record, storing, next, final, heard, left, waiting, misled, called, crashed>>

Running(r) == at[r] = "running" \/ (at[r] \in Stages /\ next[r] = "running")

\* observeRunStream: an event of the run, or one of a sub-agent that passes
\* through it, is written on the row before anybody reads it; also when the
\* task has left the run.
Observed(r, s) ==
    /\ Running(r) \/ r \in left
    /\ RunWrites(s)
    /\ UNCHANGED <<record, storing, procs, left, waiting, misled, called, crashed>>

\* forwardRuntimeEvents: an event of the run is appended to those of the
\* task, then stored and told like any other.
Forward(r) ==
    /\ at[r] = "running"
    /\ heard' = [heard EXCEPT ![r] = Listeners(r)]
    /\ at' = [at EXCEPT ![r] = AfterAppend]
    /\ next' = [next EXCEPT ![r] = "running"]
    /\ UNCHANGED <<record, storage, final, left, waiting, misled, called, crashed>>

\* Mutant: a failure is dropped when the task has not ended.
FailsWhenOver(end) == end = "failed" => status \in Terminal

\* failAsyncTask changes nothing of a task that has ended, and has the row
\* stored all the same.
Records(end) == end = "failed" => status \notin Terminal

\* The end of the task comes with the end of the events (completeAsyncTask,
\* blockAsyncTask; the event of a cancel is not looked at: the task is
\* completed, with no text), with a run that is refused, or with the first
\* error event, after which the run may go on with nobody to read it
\* (failAsyncTask).
RunEnds(r, end) ==
    /\ at[r] = "running" \/ (at[r] = "calling" /\ end = "failed")
    /\ IF Records(end)
       THEN Update(r, end, "done")
       ELSE /\ at' = [at EXCEPT ![r] = "done"] /\ storing' = TRUE
            /\ UNCHANGED <<status, latest, next, final, misled>>
    /\ left' \in IF at[r] = "running" /\ end = "failed" THEN {left, left \cup {r}} ELSE {left}
    /\ UNCHANGED <<subs, row, byRun, heard, waiting, called, crashed>>

-----------------------------------------------------------------------------
(* The calls of the hosts.  Each looks at a copy of the record first and   *)
(* acts on it in a later critical section.                                 *)

Calling == status # "absent" /\ called < MaxCalls /\ called' = called + 1

Begins(h, op) ==
    /\ at[h] = "idle" /\ at' = [at EXCEPT ![h] = op]
    /\ UNCHANGED <<record, storage, next, final, heard, left, waiting, misled, crashed>>

\* A goroutine that has not been used yet is what a resume starts.
Unused == {r \in Runs : at[r] = "idle"}

Resuming == {h \in Hosts : at[h] \in {"resume", "replay"} \/ next[h] \in {"resumed", "replayed"}
                           \/ at[h] \in {"resumed", "replayed"}}

RunIsLeft == Cardinality(Resuming) < Cardinality(Unused)

\* CancelTask, YieldTask and ResumeTask, up to their guards.
CancelTask(h) == Calling /\ status \notin Terminal /\ Begins(h, "cancel")

YieldTask(h) == Calling /\ status \notin Terminal /\ Begins(h, "yield")

ResumeTask(h) == Calling /\ status \in Paused /\ RunIsLeft /\ Begins(h, "resume")

\* ResumeFromCheckpoint has no guard but a checkpoint, and works on a task
\* of an earlier process.
ResumeFromCheckpoint(h) ==
    /\ called < MaxCalls /\ called' = called + 1 /\ RunIsLeft
    /\ Begins(h, "replay")

\* The update of each, whatever the status is by now.
Acts(h, op, s, n) ==
    /\ at[h] = op
    /\ Update(h, s, n)
    /\ UNCHANGED <<subs, row, byRun, heard, left, waiting, called, crashed>>

HostActs(h) ==
    \/ Acts(h, "cancel", "cancelled", "idle")
    \/ Acts(h, "yield", "yielded", "idle")
    \/ Acts(h, "resume", "resuming", "resumed")
    \/ Acts(h, "replay", "running", "replayed")

\* The goroutine of a resumed task sets it running first; that of a replay,
\* which is running already, calls the run.
Spawns(h) ==
    /\ at[h] \in {"resumed", "replayed"}
    /\ \E r \in Unused :
         at' = [at EXCEPT ![h] = "idle",
                          ![r] = IF at[h] = "resumed" THEN "spawned" ELSE "calling"]
    /\ UNCHANGED <<record, storage, next, final, heard, left, waiting, misled, called, crashed>>

-----------------------------------------------------------------------------
(* AwaitTask and SubscribeTask.                                            *)

\* Under taskMu: a task that has not ended gets a subscriber, any other a
\* channel nobody else knows.
Subscribe(a) ==
    /\ await[a] = "new" /\ status # "absent"
    /\ await' = [await EXCEPT ![a] = "filling"]
    /\ IF status \in Terminal
       THEN channel' = [channel EXCEPT ![a] = "private"] /\ UNCHANGED subs
       ELSE channel' = [channel EXCEPT ![a] = "open"] /\ subs' = subs \cup {a}
    /\ UNCHANGED <<status, latest, storage, procs, left, unread, misled, called, crashed>>

\* The events of the past are sent, without the lock; the channel of a task
\* that had ended is closed then.
Fill(a) ==
    /\ await[a] = "filling"
    /\ crashed' = (channel[a] = "closed")
    /\ unread' = [unread EXCEPT ![a] = TRUE]
    /\ channel' = [channel EXCEPT ![a] = IF @ = "private" THEN "closed" ELSE @]
    /\ await' = [await EXCEPT ![a] = "checking"]
    /\ UNCHANGED <<record, storage, procs, left, misled, called>>

\* Mutant: who finds the task paused waits for its end.
WaitsForTheEnd(seen) == seen \notin Terminal

\* An await goes on while it sees the task neither ended nor paused.
WaitsOn(seen) == seen \in Live

\* GetUnifiedTask: the row, or the record when the row cannot be read.
Check(a) ==
    /\ await[a] = "checking"
    /\ \E seen \in {row, status} :
         /\ await' = [await EXCEPT ![a] = IF WaitsOn(seen) THEN "listening" ELSE "leaving"]
         /\ misled' = IF WaitsOn(seen) /\ seen # status /\ status \in Paused
                      THEN misled \cup {a} ELSE misled \ {a}
    /\ UNCHANGED <<record, storage, procs, left, channel, unread, called, crashed>>

\* An event, of one or more in the channel; the end of the channel; the end
\* of the caller's context.
Listen(a) ==
    /\ await[a] = "listening"
    /\ \/ /\ unread[a]
          /\ \E more \in BOOLEAN : unread' = [unread EXCEPT ![a] = more]
          /\ await' = [await EXCEPT ![a] = "checking"]
       \/ /\ ~unread[a] /\ channel[a] = "closed"
          /\ await' = [await EXCEPT ![a] = "leaving"]
          /\ UNCHANGED unread
    /\ UNCHANGED <<record, storage, procs, left, channel, misled, called, crashed>>

GiveUp(a) ==
    /\ await[a] = "listening"
    /\ await' = [await EXCEPT ![a] = "leaving"]
    /\ UNCHANGED <<record, storage, procs, left, channel, unread, misled, called, crashed>>

\* The deferred unsubscribe.
Unsubscribe(a) ==
    /\ await[a] = "leaving"
    /\ await' = [await EXCEPT ![a] = "returned"]
    /\ IF a \in subs
       THEN subs' = subs \ {a} /\ channel' = [channel EXCEPT ![a] = "closed"]
       ELSE UNCHANGED <<subs, channel>>
    /\ UNCHANGED <<status, latest, storage, procs, left, unread, misled, called, crashed>>

-----------------------------------------------------------------------------
\* The process ends and starts anew: what is stored is left, and only a
\* checkpoint brings the task back.
Restart ==
    /\ called < MaxCalls /\ called' = called + 1
    /\ status' = "absent" /\ latest' = None /\ subs' = {}
    /\ storing' = FALSE
    /\ at' = [p \in Procs |-> IF p \in Hosts \/ at[p] = "idle" THEN "idle" ELSE "done"]
    /\ next' = [p \in Procs |-> "idle"] /\ final' = [p \in Procs |-> FALSE]
    /\ heard' = [p \in Procs |-> {}] /\ left' = {}
    /\ await' = [a \in Awaiters |-> IF await[a] = "new" THEN "new" ELSE "returned"]
    /\ channel' = [a \in Awaiters |-> "none"]
    /\ misled' = {} /\ byRun' = FALSE
    /\ UNCHANGED <<row, unread, crashed>>

Emission(p) == Append(p) \/ Store(p) \/ \E a \in Awaiters : Tell(p, a)

RunStep(r) == Emission(r) \/ RunStarts(r) \/ RunBegins(r)

HostStep(h) == Emission(h) \/ HostActs(h) \/ Spawns(h)

HostCall(h) == CancelTask(h) \/ YieldTask(h) \/ ResumeTask(h) \/ ResumeFromCheckpoint(h)

AwaitStep(a) == Fill(a) \/ Check(a) \/ Listen(a) \/ Unsubscribe(a)

\* A process that died takes no step.
Next ==
    /\ ~crashed
    /\ \/ \E r \in Runs : \/ RunStep(r) \/ Forward(r) \/ \E s \in Told : Observed(r, s)
                           \/ \E end \in Ends : RunEnds(r, end)
       \/ \E h \in Hosts : HostStep(h) \/ HostCall(h)
       \/ \E a \in Awaiters : AwaitStep(a) \/ Subscribe(a) \/ GiveUp(a)
       \/ StoreInBackground
       \/ Restart

Spec == Init /\ [][Next]_vars

\* Goroutines go on, and a run that comes to its next event again and again
\* is over one day.
FairSpec ==
    /\ Spec
    /\ \A r \in Runs : /\ WF_vars(~crashed /\ RunStep(r))
                       /\ SF_vars(~crashed /\ \E end \in Ends : RunEnds(r, end))
    /\ \A h \in Hosts : WF_vars(~crashed /\ HostStep(h))
    /\ \A a \in Awaiters : WF_vars(~crashed /\ AwaitStep(a))
    /\ WF_vars(~crashed /\ StoreInBackground)

-----------------------------------------------------------------------------
(* Properties.                                                             *)

Spots == {"idle", "spawned", "calling", "running", "done",
          "cancel", "yield", "resume", "replay", "resumed", "replayed"} \cup Stages

TypeOK ==
    /\ status \in Statuses /\ latest \in Procs \cup {None} /\ subs \subseteq Awaiters
    /\ row \in Statuses /\ byRun \in BOOLEAN /\ storing \in BOOLEAN
    /\ at \in [Procs -> Spots] /\ next \in [Procs -> Spots]
    /\ final \in [Procs -> BOOLEAN]
    /\ heard \in [Procs -> SUBSET Awaiters] /\ left \subseteq Runs
    /\ await \in [Awaiters -> {"new", "filling", "checking", "listening", "leaving", "returned"}]
    /\ channel \in [Awaiters -> {"none", "open", "private", "closed"}]
    /\ unread \in [Awaiters -> BOOLEAN] /\ misled \subseteq Awaiters
    /\ called \in 0..MaxCalls /\ crashed \in BOOLEAN

\* Where a run still has its end to record, and where a call still has a run
\* to start.
WillEnd(r) == \/ at[r] \in {"spawned", "calling", "running"}
              \/ at[r] \in Stages /\ next[r] \in {"calling", "running"}
WillSpawn(h) == \/ at[h] \in {"resumed", "replayed"}
                \/ at[h] \in Stages /\ next[h] \in {"resumed", "replayed"}

\* A task that is queued, running or resuming has a goroutine that will
\* record its end: whatever calls cross each other, no task is left in a
\* status that nothing will change (async_tasks.go:221, async_tasks_api.go:67).
LiveHasARun ==
    status \in Live => (\E r \in Runs : WillEnd(r)) \/ (\E h \in Hosts : WillSpawn(h))

\* Nobody stays subscribed to a task that has ended: as long as there is a
\* subscriber, the event that drops it is still to come.
NobodyIsLeft ==
    subs # {} /\ status \in Terminal =>
        \E p \in Procs : at[p] = "append" /\ final[p]

\* A change of the record is still to be stored.
Unstored == storing \/ \E p \in Procs : at[p] \in {"append", "store"}

\* When no change of the record is on its way to the row, the row is the
\* record: no snapshot is written over a later one (tasks_unified.go:127-141).
\* Only a run can have written another status since, and then it has its end
\* to record yet, or is one that its task left at an error event
\* (async_tasks.go:285-290).
RowIsCurrent ==
    status # "absent" /\ ~Unstored =>
        \/ row = status
        \/ byRun /\ \E r \in Runs : WillEnd(r) \/ r \in left

\* Who is told of the last update finds it in the row, or what a run has
\* written after it: "persist before announcing"
\* (async_tasks_helpers.go:80-83).
AnnouncedIsStored ==
    \A p \in Procs : at[p] = "send" /\ latest = p => row = status \/ byRun

\* An await sleeps through nothing: of a task that has ended or paused, one
\* that listens has an event to read, or a closed channel, or an event is on
\* its way to it, even when its subscription was dropped meanwhile.  Not so
\* one that took the row for the record while the row did not yet say that
\* the task is paused: it hears of the next change only
\* (async_tasks_api.go:40-54, async_tasks_helpers.go:66-77).
NewsIsOnTheWay ==
    \A a \in Awaiters :
        /\ await[a] = "listening" /\ ~unread[a] /\ channel[a] # "closed"
        /\ status \notin Live /\ a \notin misled
        => \E p \in Procs : a \in heard[p] \/ (at[p] = "append" /\ a \in subs)

\* An await returns when the task has come to an end or to a pause, whoever
\* ended it and however the event crosses the subscription; all but one
\* whose look at the row missed the pause.
AwaitReturns ==
    \A a \in Awaiters :
        await[a] = "filling" ~> \/ await[a] = "returned" \/ crashed
                               \/ a \in misled

\* A cancelled task stays cancelled until somebody starts it again.
CancelledStaysCancelled ==
    [][status = "cancelled" /\ ~UNCHANGED status
         => status' = "absent" \/ \E h \in Hosts : at[h] \in {"replay", "resume"}]_vars

=============================================================================
