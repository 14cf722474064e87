--------------------------- MODULE BackgroundTasks ---------------------------
(***************************************************************************)
(* The detached work of a Service: starting it under a ceiling, the        *)
(* goroutine that runs it, how its end is recorded and old ends forgotten, *)
(* cancelling one task, and the part of Close that stops them all.         *)
(*                                                                         *)
(* A member of Tasks is one call of StartBackgroundTask and the task it    *)
(* makes.  The run a task executes is reduced to whether startRun lets it  *)
(* in and what it comes to; the registry of runs is RunRegistry.  The      *)
(* slice that keeps the order of listing is the rank in it.  Labels,       *)
(* results and the listing functions are left out.                         *)
(***************************************************************************)
EXTENDS Integers, FiniteSets

CONSTANTS
  Tasks,     \* calls of StartBackgroundTask
  Callers,   \* how many goroutines call it at the same time
  MaxTasks,  \* ceiling of tasks in flight
  Keep       \* finished tasks remembered

ASSUME CountsAssumption ==
  Callers \in Nat \ {0} /\ MaxTasks \in Nat \ {0} /\ Keep \in Nat

ASSUME TasksAssumption == IsFiniteSet(Tasks)

VARIABLES
  pc,         \* where a call and its goroutine are
  status,     \* Status of the task
  tasks,      \* the keys of reg.tasks
  rank,       \* the place in reg.order, counted from the first task ever
  listed,     \* tasks listed so far
  cancelled,  \* the tasks whose context is cancelled
  closer,     \* where Close is
  timedOut    \* its wait for the tasks gave up

registry == <<status, tasks, rank, listed>>
closing == <<closer, timedOut>>
vars == <<pc, registry, cancelled, closing>>

DoneStatuses == {"completed", "blocked", "cancelled", "failed"}

Closed == closer # "open"

\* The goroutines reg.wg counts.
Counted == {t \in Tasks : pc[t] \in {"launched", "inside"}}

\* The calls that have not returned.
Starting == {t \in Tasks : pc[t] \in {"entered", "checked", "listed"}}

Running == {t \in tasks : status[t] = "running"}
Finished == tasks \ Running

Init ==
  /\ pc = [t \in Tasks |-> "new"]
  /\ status = [t \in Tasks |-> "none"]
  /\ tasks = {}
  /\ rank = [t \in Tasks |-> 0] /\ listed = 0
  /\ cancelled = {}
  /\ closer = "open" /\ timedOut = FALSE

(***************************************************************************)
(* StartBackgroundTask: the closed flag, the ceiling under the lock, the   *)
(* listing under the lock again, the goroutine.                            *)
(***************************************************************************)
Enter(t) ==
  /\ pc[t] = "new"
  /\ Cardinality(Starting) < Callers
  /\ pc' = [pc EXCEPT ![t] = IF Closed THEN "refused" ELSE "entered"]
  /\ UNCHANGED <<registry, cancelled, closing>>

\* Mutant: one task more.
OneTaskMore == Cardinality(Running) <= MaxTasks

BelowCeiling == Cardinality(Running) < MaxTasks

CheckCeiling(t) ==
  /\ pc[t] = "entered"
  /\ pc' = [pc EXCEPT ![t] = IF BelowCeiling THEN "checked" ELSE "refused"]
  /\ UNCHANGED <<registry, cancelled, closing>>

NextRank == listed + 1

List(t) ==
  /\ pc[t] = "checked"
  /\ pc' = [pc EXCEPT ![t] = "listed"]
  /\ tasks' = tasks \cup {t}
  /\ status' = [status EXCEPT ![t] = "running"]
  /\ listed' = listed + 1
  /\ rank' = [rank EXCEPT ![t] = NextRank]
  /\ UNCHANGED <<cancelled, closing>>

Launch(t) ==
  /\ pc[t] = "listed"
  /\ pc' = [pc EXCEPT ![t] = "launched"]
  /\ UNCHANGED <<registry, cancelled, closing>>

(***************************************************************************)
(* The goroutine.                                                          *)
(***************************************************************************)
\* startRun reads the closed flag.
RunEnters(t) ==
  /\ pc[t] = "launched" /\ ~Closed
  /\ pc' = [pc EXCEPT ![t] = "inside"]
  /\ UNCHANGED <<registry, cancelled, closing>>

\* The finished tasks that have Keep newer ones.
Forgotten(done) ==
  {t \in done : Cardinality({u \in done : rank[u] > rank[t]}) >= Keep}

\* Mutant: the end of a refused run is not recorded.
finishRefused(t, outcome) ==
  /\ pc' = [pc EXCEPT ![t] = "done"]
  /\ status' = IF pc[t] = "inside" THEN [status EXCEPT ![t] = outcome]
               ELSE status
  /\ tasks' = tasks \ Forgotten(Finished)
  /\ UNCHANGED <<rank, listed, cancelled, closing>>

\* finish: how the task ended, and what is forgotten for it.
finish(t, outcome) ==
  /\ pc' = [pc EXCEPT ![t] = "done"]
  /\ status' = [status EXCEPT ![t] = outcome]
  /\ tasks' = tasks \ Forgotten(Finished \cup {t})
  /\ UNCHANGED <<rank, listed, cancelled, closing>>

RunReturns(t) ==
  /\ pc[t] = "inside"
  /\ \E outcome \in DoneStatuses : finish(t, outcome)

\* Closed, or no room in the registry of runs.
RunRefused(t) ==
  /\ pc[t] = "launched"
  /\ finish(t, "failed")

CancelBackgroundTask(t) ==
  /\ t \in Running
  /\ t \notin cancelled
  /\ cancelled' = cancelled \cup {t}
  /\ UNCHANGED <<pc, registry, closing>>

(***************************************************************************)
(* Close, up to the runs of the registry.                                  *)
(***************************************************************************)
CloseBegins ==
  /\ closer = "open"
  /\ closer' = "closed"
  /\ UNCHANGED <<pc, registry, cancelled, timedOut>>

CancelsAll == cancelled' = cancelled \cup Running

CloseCancels ==
  /\ closer = "closed"
  /\ closer' = "waiting"
  /\ CancelsAll
  /\ UNCHANGED <<pc, registry, timedOut>>

\* Mutant: a wait that ends at once.
NobodyCounted == TRUE

WaitOver == Counted = {}

CloseWaited ==
  /\ closer = "waiting"
  /\ WaitOver
  /\ closer' = "stopped"
  /\ UNCHANGED <<pc, registry, cancelled, timedOut>>

CloseTimesOut ==
  /\ closer = "waiting" /\ Counted # {}
  /\ closer' = "stopped" /\ timedOut' = TRUE
  /\ UNCHANGED <<pc, registry, cancelled>>

StartBackgroundTask(t) ==
  Enter(t) \/ CheckCeiling(t) \/ List(t) \/ Launch(t)

Goroutine(t) == RunEnters(t) \/ RunReturns(t) \/ RunRefused(t)

stopBackgroundTasks == CloseCancels \/ CloseWaited \/ CloseTimesOut

Close == CloseBegins \/ stopBackgroundTasks

\* Everything is over.
Over ==
  /\ closer = "stopped"
  /\ \A t \in Tasks : pc[t] \in {"refused", "done"}
  /\ UNCHANGED vars

Next ==
  \/ \E t \in Tasks :
       StartBackgroundTask(t) \/ Goroutine(t) \/ CancelBackgroundTask(t)
  \/ Close
  \/ Over

Spec == Init /\ [][Next]_vars

(***************************************************************************)
(* A run returns, calls go on, and Close goes on once it is called.        *)
(***************************************************************************)
FairSpec ==
  /\ Spec
  /\ \A t \in Tasks :
       WF_vars(CheckCeiling(t) \/ List(t) \/ Launch(t)) /\ WF_vars(Goroutine(t))
  /\ WF_vars(stopBackgroundTasks)

(***************************************************************************)
(* Properties.                                                             *)
(***************************************************************************)
\* Types; and every remembered task has a place in the order.
TypeOK ==
  /\ pc \in [Tasks -> {"new", "entered", "checked", "listed", "launched",
                       "inside", "done", "refused"}]
  /\ status \in [Tasks -> DoneStatuses \cup {"none", "running"}]
  /\ tasks \subseteq Tasks
  /\ rank \in [Tasks -> Nat] /\ listed \in Nat
  /\ \A t \in tasks : rank[t] \in 1..listed
  /\ cancelled \subseteq Tasks
  /\ closer \in {"open", "closed", "waiting", "stopped"}
  /\ timedOut \in BOOLEAN

\* A task that is listed answers until its end is recorded: forgetting old
\* ends never takes one that still runs (background.go:285-287).
RunningIsRemembered ==
  \A t \in Tasks : pc[t] \in {"listed", "launched", "inside"} => t \in Running

\* A process that runs for weeks remembers no more ends than it was told to
\* (background.go:118-121).
FinishedAreBounded == Cardinality(Finished) <= Keep

\* The ends that are forgotten are older than those that are kept.
OldestAreForgotten ==
  [][\A t \in tasks \ tasks', u \in Finished' : rank[t] < rank'[u]]_vars

\* The ceiling is read and the task listed under two holds of the lock, so
\* callers at the same time can exceed it (background.go:171-233): by one
\* less than their number, and by nothing when there is one caller.
CeilingIsNearlyKept == Cardinality(Running) <= MaxTasks + Callers - 1

\* Close reaches every task whose run got in, also those that were between
\* two steps of their start when it began (service_close.go:61-69).
CloseReachesEveryRun ==
  closer \in {"waiting", "stopped"} =>
    \A t \in Tasks : pc[t] = "inside" => t \in cancelled

\* After a wait that did not give up, no background run executes, nor will
\* one begin: what Close releases next is not used by any
\* (background.go:366-369).
NoneRunsAfterTheWait ==
  closer = "stopped" /\ ~timedOut => \A t \in Tasks : pc[t] # "inside"

\* A task that was listed comes to a recorded end, and a Close that has begun
\* to stop tasks gets past them.
TasksEnd ==
  /\ \A t \in Tasks : pc[t] = "listed" ~> status[t] \in DoneStatuses
  /\ closer = "closed" ~> closer = "stopped"
=============================================================================
