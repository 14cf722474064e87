---------------------------- MODULE RunRegistry ----------------------------
(***************************************************************************)
(* The runs of one agent Service: the refusals of startRun, the registry   *)
(* behind cancelMu that admits, names, cancels and forgets runs, the four  *)
(* cancels, and Close, which refuses, cancels, waits and closes the store. *)
(*                                                                         *)
(* A member of Runs is one call of startRun.  The agent loop is reduced to *)
(* what the registry meets of it: a round looks at the context, the model  *)
(* is asked, a tool that must not be interrupted may execute, the run      *)
(* ends.  What a run writes on its task is in RunStream.  The model of a   *)
(* run, its progress readings, extensions and the memory service's own     *)
(* queue are left out.                                                     *)
(***************************************************************************)
EXTENDS Integers, FiniteSets

CONSTANTS
  Runs,               \* calls of startRun
  Names,              \* run ids callers ask for (WithRunID)
  Tenants,            \* tenants with a name
  NoTenant,           \* the blank tenant, which has no limit of its own
  Sessions,           \* conversations
  NoRun,              \* no run
  MaxConcurrentRuns,  \* limit of the service; 0: none
  MaxRunsPerTenant,   \* limit of a tenant; 0: none
  Undrained,          \* runs whose host stopped reading the event stream
  MaxCalls            \* bound: calls of the cancel functions

ASSUME LimitsAssumption ==
  MaxConcurrentRuns \in Nat /\ MaxRunsPerTenant \in Nat /\ MaxCalls \in Nat

ASSUME NamesAssumption ==
  /\ NoRun \notin Runs /\ NoTenant \notin Tenants
  /\ Names \cap Runs = {}
  /\ Undrained \subseteq Runs

ASSUME FinitenessAssumption == IsFiniteSet(Runs) /\ IsFiniteSet(Names)

VARIABLES
  runs,      \* what each call of startRun has come to
  registry,  \* s.runs
  saves,     \* runs whose memory extraction executes (s.bgWork)
  closer,    \* where Close is
  toStop,    \* stopRunsForClose: the cancels it has still to call
  drained,   \* stopRunsForClose: how its wait ended
  call       \* the cancel call in progress

vars == <<runs, registry, saves, closer, toStop, drained, call>>
closing == <<closer, toStop, drained>>

(***************************************************************************)
(* The name of a registered run: the one it asked for, or one made unique, *)
(* for which the call itself stands.                                       *)
(***************************************************************************)
Keys == Names \cup Runs

\* An ActiveRun with the state of its context, and where its goroutines are.
Run == [pc : {"new", "entered", "recorded", "refused",
              "round", "model", "tool", "ended", "observed", "released"},
        want : Names, key : Keys, tenant : Tenants \cup {NoTenant},
        session : Sessions, ctx : {"live", "call", "close"},
        late : BOOLEAN]

\* The states between registration and release.
InFlight == {"round", "model", "tool", "ended", "observed"}

Flying == {r \in Runs : runs[r].pc \in InFlight}

Registered == {registry[k] : k \in Keys} \ {NoRun}

Closed == closer # "open"
StoreOpen == closer # "released"

\* stopRunsForClose has made its list of the runs to cancel.
SnapshotTaken == closer \in {"stopping", "waiting", "released"}

KeysInUse == {k \in Keys : registry[k] # NoRun}
KeysOf(t) == {k \in KeysInUse : runs[registry[k]].tenant = t}

\* Mutant: one run too many.
AdmitOneMore(t) ==
  /\ MaxConcurrentRuns > 0 => Cardinality(KeysInUse) <= MaxConcurrentRuns
  /\ MaxRunsPerTenant > 0 /\ t # NoTenant =>
       Cardinality(KeysOf(t)) <= MaxRunsPerTenant

admit(t) ==
  /\ MaxConcurrentRuns > 0 => Cardinality(KeysInUse) < MaxConcurrentRuns
  /\ MaxRunsPerTenant > 0 /\ t # NoTenant =>
       Cardinality(KeysOf(t)) < MaxRunsPerTenant

\* registerRun: the name asked for, made unique when a live run owns it.
UniqueName(r) ==
  IF registry[runs[r].want] = NoRun THEN runs[r].want ELSE r

blockingToolCount == Cardinality({r \in Runs : runs[r].pc = "tool"})

Init ==
  /\ runs \in [Runs -> {x \in Run : /\ x.pc = "new" /\ x.ctx = "live"
                                    /\ x.key = x.want /\ ~x.late}]
  /\ registry = [k \in Keys |-> NoRun]
  /\ saves = {}
  /\ closer = "open" /\ toStop = {} /\ drained = "no"
  /\ call = [pc |-> "idle", kind |-> "all", arg |-> NoRun, handles |-> {},
             left |-> MaxCalls]

(***************************************************************************)
(* startRun.  What the caller asks for (name, tenant, session) is part of  *)
(* the initial state.                                                      *)
(***************************************************************************)
Enter(r) ==
  /\ runs[r].pc = "new"
  /\ runs' = [runs EXCEPT ![r].pc = IF Closed THEN "refused" ELSE "entered"]
  /\ UNCHANGED <<registry, saves, closing, call>>

RecordRunning(r) ==
  /\ runs[r].pc = "entered"
  /\ runs' = [runs EXCEPT ![r].pc = "recorded"]
  /\ UNCHANGED <<registry, saves, closing, call>>

Refuse(r) ==
  /\ runs[r].pc = "recorded"
  /\ ~admit(runs[r].tenant)
  /\ runs' = [runs EXCEPT ![r].pc = "refused"]
  /\ UNCHANGED <<registry, saves, closing, call>>

Register(r) ==
  /\ runs[r].pc = "recorded"
  /\ admit(runs[r].tenant)
  /\ LET key == UniqueName(r) IN
       /\ registry' = [registry EXCEPT ![key] = r]
       /\ runs' = [runs EXCEPT ![r] =
                    [@ EXCEPT !.pc = "round", !.key = key,
                              !.late = SnapshotTaken]]
  /\ UNCHANGED <<saves, closing, call>>

(***************************************************************************)
(* The loop.  A completed run leaves a memory extraction behind.           *)
(***************************************************************************)

Cancelled(r) == runs[r].ctx # "live"

\* Mutant: the loop does not look at its context.
NeverSeen(r) == FALSE

SeesCancel(r) == Cancelled(r)

\* How a run ends; "stopped" stands for a blocker and for a failure.
EndWith(r, end) ==
  /\ runs' = [runs EXCEPT ![r].pc = "ended"]
  /\ \/ saves' = saves
     \/ end = "completed" /\ saves' = saves \cup {r}
  /\ UNCHANGED <<registry, closing, call>>

BeginRound(r) ==
  /\ runs[r].pc = "round"
  /\ \/ SeesCancel(r) /\ EndWith(r, "cancelled")
     \/ /\ ~SeesCancel(r)
        /\ runs' = [runs EXCEPT ![r].pc = "model"]
        /\ UNCHANGED <<registry, saves, closing, call>>

\* The model answers for good, asks for a tool that must not be interrupted,
\* or has used other tools; a cancelled call of the model ends the run.
ModelAnswers(r) ==
  /\ runs[r].pc = "model"
  /\ \/ \E end \in {"completed", "stopped"} : EndWith(r, end)
     \/ SeesCancel(r) /\ EndWith(r, "cancelled")
     \/ /\ runs' = [runs EXCEPT ![r].pc = "round"]
        /\ UNCHANGED <<registry, saves, closing, call>>
     \/ /\ runs' = [runs EXCEPT ![r].pc = "tool"]
        /\ UNCHANGED <<registry, saves, closing, call>>

ToolReturns(r) ==
  /\ runs[r].pc = "tool"
  /\ runs' = [runs EXCEPT ![r].pc = "round"]
  /\ UNCHANGED <<registry, saves, closing, call>>

SaveToMemory(r) ==
  /\ r \in saves
  /\ saves' = saves \ {r}
  /\ UNCHANGED <<runs, registry, closing, call>>

(***************************************************************************)
(* observeRunStream: the end of the run is recorded, then the stream       *)
(* closes and the registration is released.                                *)
(***************************************************************************)
ObserveEnd(r) ==
  /\ runs[r].pc = "ended"
  /\ runs' = [runs EXCEPT ![r].pc = "observed"]
  /\ UNCHANGED <<registry, saves, closing, call>>

\* Mutant: the release closure deletes the name that was asked for.
RequestedName(r) == runs[r].want

ReleasedName(r) == runs[r].key

Release(r) ==
  /\ runs[r].pc = "observed"
  /\ runs' = [runs EXCEPT ![r].pc = "released"]
  /\ registry' = [registry EXCEPT ![ReleasedName(r)] = NoRun]
  /\ UNCHANGED <<saves, closing, call>>

(***************************************************************************)
(* Cancel, CancelRun, CancelSession, CancelTenant: a look at the tools in  *)
(* progress, a look at the registry, then the cancels outside the lock.    *)
(***************************************************************************)
Kinds == {"all", "run", "session", "tenant"}

Targets(kind) ==
  CASE kind = "all"     -> {NoRun}
    [] kind = "run"     -> Keys
    [] kind = "session" -> Sessions
    [] kind = "tenant"  -> Tenants

Matches(r, kind, arg) ==
  \/ kind = "all"
  \/ kind = "run" /\ registry[arg] = r
  \/ kind = "session" /\ runs[r].session = arg
  \/ kind = "tenant" /\ runs[r].tenant = arg

CancelChecks(kind, arg) ==
  /\ call.pc = "idle" /\ call.left > 0
  /\ call' = [pc |-> IF blockingToolCount > 0 THEN "idle" ELSE "checked",
              kind |-> kind, arg |-> arg, handles |-> {},
              left |-> call.left - 1]
  /\ UNCHANGED <<runs, registry, saves, closing>>

CancelTakes ==
  LET handles == {r \in Registered : Matches(r, call.kind, call.arg)} IN
  /\ call.pc = "checked"
  /\ call' = [call EXCEPT !.handles = handles,
                          !.pc = IF handles = {} THEN "idle" ELSE "cancelling"]
  /\ UNCHANGED <<runs, registry, saves, closing>>

Cancel(r, by) ==
  runs' = [runs EXCEPT ![r].ctx = IF @ = "live" THEN by ELSE @]

CancelHandle(r) ==
  /\ call.pc = "cancelling" /\ r \in call.handles
  /\ Cancel(r, "call")
  /\ call' = [call EXCEPT !.handles = @ \ {r},
                          !.pc = IF call.handles = {r} THEN "idle" ELSE @]
  /\ UNCHANGED <<registry, saves, closing>>

(***************************************************************************)
(* Close.  Stopping the detached tasks comes between CloseBegins and       *)
(* CloseSnapshot; see BackgroundTasks.                                     *)
(***************************************************************************)
CloseBegins ==
  /\ closer = "open"
  /\ closer' = "closed"
  /\ UNCHANGED <<runs, registry, saves, toStop, drained, call>>

\* Mutant: Close defers to tools in progress as Cancel does.
StopIdleRuns == {r \in Registered : runs[r].pc # "tool"}

StopAllRuns == Registered

CloseSnapshot ==
  /\ closer = "closed"
  /\ toStop' = StopAllRuns
  /\ IF StopAllRuns = {} THEN closer' = "waiting" /\ drained' = "clean"
                         ELSE closer' = "stopping" /\ UNCHANGED drained
  /\ UNCHANGED <<runs, registry, saves, call>>

CloseCancels(r) ==
  /\ closer = "stopping" /\ r \in toStop
  /\ Cancel(r, "close")
  /\ toStop' = toStop \ {r}
  /\ UNCHANGED <<registry, saves, closer, drained, call>>

\* Mutant: the wait has no deadline.
PatientDrain == Registered = {} /\ drained' = "clean"

\* The registry is empty, or closeDrainTimeout has passed.
Drain == \/ Registered = {} /\ drained' = "clean"
         \/ Registered # {} /\ drained' = "timeout"

CloseDrains ==
  /\ closer = "stopping" /\ toStop = {}
  /\ Drain
  /\ closer' = "waiting"
  /\ UNCHANGED <<runs, registry, saves, toStop, call>>

\* Mutant: waitBackground is forgotten.
NoWait == TRUE

waitBackground == saves = {}

CloseReleases ==
  /\ closer = "waiting"
  /\ waitBackground
  /\ closer' = "released"
  /\ UNCHANGED <<runs, registry, saves, toStop, drained, call>>

(***************************************************************************)
(* The service.                                                            *)
(***************************************************************************)
StartRun(r) == Enter(r) \/ RecordRunning(r) \/ Refuse(r) \/ Register(r)

Loop(r) == BeginRound(r) \/ ModelAnswers(r) \/ ToolReturns(r)

Observer(r) == ObserveEnd(r) \/ Release(r)

CancelCall ==
  \/ \E kind \in Kinds : \E arg \in Targets(kind) : CancelChecks(kind, arg)
  \/ CancelTakes
  \/ \E r \in Runs : CancelHandle(r)

Close ==
  \/ CloseBegins \/ CloseSnapshot \/ CloseDrains \/ CloseReleases
  \/ \E r \in Runs : CloseCancels(r)

Next ==
  \/ \E r \in Runs : StartRun(r) \/ Loop(r) \/ Observer(r) \/ SaveToMemory(r)
  \/ CancelCall
  \/ Close

Spec == Init /\ [][Next]_vars

(***************************************************************************)
(* Fairness.  Goroutines of the service are scheduled; a call of the model *)
(* and a tool return in the end.  Nobody has to cancel or to close, but    *)
(* what a Close has begun goes on.  The stream of a run in Undrained is    *)
(* not read, so its goroutines may be stuck at a full channel.             *)
(***************************************************************************)
Fairness ==
  /\ \A r \in Runs \ Undrained :
       WF_vars(BeginRound(r)) /\ WF_vars(ModelAnswers(r))
       /\ WF_vars(ToolReturns(r)) /\ WF_vars(Observer(r))
  /\ \A r \in Runs : WF_vars(SaveToMemory(r)) /\ WF_vars(CloseCancels(r))
  /\ WF_vars(CloseSnapshot \/ CloseDrains) /\ WF_vars(CloseReleases)

FairSpec == Spec /\ Fairness

-----------------------------------------------------------------------------

\* The variables hold what the Go types say they hold.
CallType ==
  [pc : {"idle", "checked", "cancelling"}, kind : Kinds,
   arg : Keys \cup Sessions \cup Tenants \cup {NoRun},
   handles : SUBSET Runs, left : 0 .. MaxCalls]

TypeOK ==
  /\ runs \in [Runs -> Run]
  /\ registry \in [Keys -> Runs \cup {NoRun}]
  /\ saves \subseteq Runs
  /\ closer \in {"open", "closed", "stopping", "waiting", "released"}
  /\ toStop \subseteq Runs
  /\ drained \in {"no", "clean", "timeout"}
  /\ call \in CallType

\* However calls of startRun, releases and Close interleave, neither the
\* service nor a tenant has more runs in flight than its limit (registerRun,
\* admitLocked): the runs counted are those whose goroutines exist, not the
\* entries of the map.
AdmissionLimits ==
  /\ MaxConcurrentRuns > 0 => Cardinality(Flying) <= MaxConcurrentRuns
  /\ \A t \in Tenants : MaxRunsPerTenant > 0 =>
       Cardinality({r \in Flying : runs[r].tenant = t}) <= MaxRunsPerTenant

\* Every run in flight can be reached under its own name, and nothing else is
\* in the registry: no run evicts or hides another, and no slot is left taken
\* by a run that is over (registerRun and its release closure).
RegistryIsExact ==
  /\ \A r \in Flying : registry[runs[r].key] = r
  /\ \A k \in KeysInUse : registry[k] \in Flying /\ runs[registry[k]].key = k

\* When Close goes on to release things, every run that was registered before
\* it looked has been told to stop, tools in progress or not
\* (stopRunsForClose).
EarlierRunsAreStopped ==
  closer \in {"waiting", "released"} =>
    \A r \in Flying : Cancelled(r) \/ runs[r].late

\* The store is closed under a run, or under the memory extraction a run left
\* behind, only when that run slipped in after Close had looked or the drain
\* timed out (Close, stopRunsForClose, waitBackground).
StoreOutlivesRuns ==
  closer = "released" /\ drained = "clean" =>
    \A r \in Flying \cup saves : runs[r].late

\* Close returns, whoever reads the streams of the runs and however long
\* tools take (closeDrainTimeout).
CloseReturns == Closed ~> ~StoreOpen

\* A run that has been told to stop leaves the registry, provided its stream
\* is read (the context check between rounds, observeRunStream's release).
StoppedRunLeaves ==
  \A r \in Runs \ Undrained :
    r \in Flying /\ Cancelled(r) ~> runs[r].pc = "released"

=============================================================================
